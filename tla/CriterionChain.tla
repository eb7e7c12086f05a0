--------------------------- MODULE CriterionChain ---------------------------
(***************************************************************************)
(* How the FORWARD ticks of a network of any size end: the threshold cores *)
(* report the stop criteria of their subgroups along a chain, from the     *)
(* subgroups of a group to the last one of the group, and from there to    *)
(* the last subgroup of the last output group, the last T, which decides   *)
(* and tells everybody.  This is the part of ThresholdCore that depends on *)
(* the shape of the network, with the computation of a tick left out: nets *)
(* are processed, and forward sync generation comes in, at any time.       *)
(*                                                                         *)
(* A criterion packet carries, as a ghost, the tick it is sent in, and is  *)
(* handled in this tick: the timing assumption of Fabric.                  *)
(***************************************************************************)
EXTENDS Integers, FiniteSets

CONSTANTS
  Sub, Groups,      \* subgroups and groups
  Group,            \* the group of each subgroup
  Last,             \* the last subgroup of each group
  LastOutGroup,     \* the last output group
  NumTicks          \* bound of the model: the ticks that are run

ASSUME ChainAssumption ==
  /\ IsFiniteSet(Sub)
  /\ Group \in [Sub -> Groups]
  /\ Last \in [Groups -> Sub]
  /\ \A g \in Groups : Group[Last[g]] = g
  /\ LastOutGroup \in Groups
  /\ NumTicks \in Nat

LastSub == Last[LastOutGroup]
IsGroupLast(s) == s = Last[Group[s]]
Peers(s) == {t \in Sub : Group[t] = Group[s]}

\* mutant: the last T waits for the other groups, but not for its own
crit_expected_short(s) ==
  IF ~IsGroupLast(s) THEN 0
  ELSE IF s = LastSub THEN Cardinality(Groups) - 1 ELSE Cardinality(Peers(s)) - 1
crit_expected(s) ==
  IF ~IsGroupLast(s) THEN 0
  ELSE Cardinality(Peers(s)) - 1 + (IF s = LastSub THEN Cardinality(Groups) - 1 ELSE 0)

\* the criterion link
Up(s) == IF IsGroupLast(s) THEN LastSub ELSE Last[Group[s]]

\* the stop link of the last T, among the threshold cores; mutant: all of them
stop_link_all == Sub
stop_link == Sub \ {LastSub}

VARIABLES
  tick,         \* the tick each T core is in
  proc,         \* whether it has processed the nets of all its units
  met,          \* whether they all meet the criterion, tf_stop_crit
  arrived,      \* tf_crit_arrived
  prev,         \* tf_crit_prev
  pend,         \* tf_thrds_pend
  reported,     \* ghost: it has sent its packet of the tick
  fsgn,         \* forward sync generation has reached the last T
  advance,      \* the last T has decided and scheduled tf_advance_tick
  group_crit,   \* tf_group_crit of the last T
  net,          \* criterion packets in flight
  stp           \* the cores a stop packet is on its way to

board == <<met, arrived, prev, proc>>
decision == <<stp, advance, group_crit>>
vars == <<tick, board, pend, reported, fsgn, decision, net>>

tf_thrds_init(s) ==
  {"PROC"} \cup (IF crit_expected(s) = 0 THEN {} ELSE {"CRIT"})
           \cup (IF s = LastSub THEN {"FSGN"} ELSE {})

Init ==
  /\ tick = [s \in Sub |-> 0]
  /\ proc = [s \in Sub |-> FALSE]
  /\ met = [s \in Sub |-> TRUE]
  /\ arrived = [s \in Sub |-> 0]
  /\ prev = [s \in Sub |-> TRUE]
  /\ pend = [s \in Sub |-> tf_thrds_init(s)]
  /\ reported = [s \in Sub |-> FALSE]
  /\ fsgn = FALSE /\ advance = FALSE /\ group_crit = FALSE
  /\ net = {} /\ stp = {}

(***************************************************************************)
(* The last thread of the tick to finish sends the criterion or, in the    *)
(* last T, the decision (send_stop_crit).  n is what is left in net.       *)
(***************************************************************************)
Aggregate(s) == met[s] /\ prev[s]

ThreadDone(s, thread, n) ==
  \/ /\ pend[s] # {thread}
     /\ pend' = [pend EXCEPT ![s] = @ \ {thread}]
     /\ net' = n
     /\ UNCHANGED <<reported, decision>>
  \/ /\ pend[s] = {thread} /\ s # LastSub
     /\ reported' = [reported EXCEPT ![s] = TRUE]
     /\ net' = n \cup {[src |-> s, b |-> Aggregate(s)', tick |-> tick[s]]}
     /\ UNCHANGED <<pend, decision>>
  \/ /\ pend[s] = {thread} /\ s = LastSub
     /\ reported' = [reported EXCEPT ![s] = TRUE]
     /\ group_crit' = Aggregate(s)'
     /\ stp' = stop_link
     /\ advance' = TRUE
     /\ net' = n
     /\ UNCHANGED pend

\* tf_process of the last net
Process(s) ==
  /\ ~proc[s] /\ tick[s] < NumTicks
  /\ proc' = [proc EXCEPT ![s] = TRUE]
  /\ \E b \in BOOLEAN : met' = [met EXCEPT ![s] = b]
  /\ UNCHANGED <<tick, arrived, prev, fsgn>>
  /\ ThreadDone(s, "PROC", net)

\* t_criterion_packet
ReceiveCrit(p) ==
  LET s == Up(p.src)
  IN /\ p.tick = tick[s]
     /\ prev' = [prev EXCEPT ![s] = @ /\ p.b]
     /\ arrived' = [arrived EXCEPT ![s] = @ + 1]
     /\ UNCHANGED <<tick, proc, met, fsgn>>
     /\ \/ /\ arrived[s] + 1 = crit_expected(s)
           /\ ThreadDone(s, "CRIT", net \ {p})
        \/ /\ arrived[s] + 1 # crit_expected(s)
           /\ net' = net \ {p}
           /\ UNCHANGED <<pend, reported, decision>>

\* t_fsgn_packet
ReceiveFsgn ==
  /\ ~fsgn /\ tick[LastSub] < NumTicks
  /\ fsgn' = TRUE
  /\ UNCHANGED <<tick, board>>
  /\ ThreadDone(LastSub, "FSGN", net)

(***************************************************************************)
(* tf_advance_tick and tick_init, and what schedules them.                 *)
(***************************************************************************)
\* mutant: the scoreboard of the last tick is kept
AdvanceTick_keepsCount(s) ==
  /\ tick' = [tick EXCEPT ![s] = @ + 1]
  /\ proc' = [proc EXCEPT ![s] = FALSE]
  /\ met' = [met EXCEPT ![s] = TRUE]
  /\ prev' = [prev EXCEPT ![s] = TRUE]
  /\ pend' = [pend EXCEPT ![s] = tf_thrds_init(s)]
  /\ reported' = [reported EXCEPT ![s] = FALSE]
  /\ UNCHANGED arrived
\* mutant: the tick count wraps round before the last tick is over
AdvanceTick_wraps(s) ==
  /\ tick' = [tick EXCEPT ![s] = (@ + 1) % NumTicks]
  /\ proc' = [proc EXCEPT ![s] = FALSE]
  /\ met' = [met EXCEPT ![s] = TRUE]
  /\ arrived' = [arrived EXCEPT ![s] = 0]
  /\ prev' = [prev EXCEPT ![s] = TRUE]
  /\ pend' = [pend EXCEPT ![s] = tf_thrds_init(s)]
  /\ reported' = [reported EXCEPT ![s] = FALSE]
AdvanceTick(s) ==
  /\ tick' = [tick EXCEPT ![s] = @ + 1]
  /\ proc' = [proc EXCEPT ![s] = FALSE]
  /\ met' = [met EXCEPT ![s] = TRUE]
  /\ arrived' = [arrived EXCEPT ![s] = 0]
  /\ prev' = [prev EXCEPT ![s] = TRUE]
  /\ pend' = [pend EXCEPT ![s] = tf_thrds_init(s)]
  /\ reported' = [reported EXCEPT ![s] = FALSE]

\* t_stop_packet
ReceiveStop(s) ==
  /\ s \in stp
  /\ stp' = stp \ {s}
  /\ AdvanceTick(s)
  /\ UNCHANGED <<fsgn, advance, group_crit, net>>

\* the last T gets no stop packet
AdvanceLast ==
  /\ advance
  /\ advance' = FALSE /\ fsgn' = FALSE
  /\ AdvanceTick(LastSub)
  /\ UNCHANGED <<stp, group_crit, net>>

Over == \A s \in Sub : tick[s] = NumTicks
Terminated == Over /\ UNCHANGED vars

Next ==
  \/ \E s \in Sub : Process(s) \/ ReceiveStop(s)
  \/ \E p \in net : ReceiveCrit(p)
  \/ ReceiveFsgn \/ AdvanceLast
  \/ Terminated

Spec == Init /\ [][Next]_vars
FairSpec == Spec /\ WF_vars(Next)

(***************************************************************************)
(* Properties.                                                             *)
(***************************************************************************)
Thread == {"PROC", "CRIT", "FSGN"}
Packet == [src : Sub \ {LastSub}, b : BOOLEAN, tick : Nat]

TypeOK ==
  /\ tick \in [Sub -> Nat] /\ arrived \in [Sub -> Nat]
  /\ proc \in [Sub -> BOOLEAN] /\ met \in [Sub -> BOOLEAN]
  /\ prev \in [Sub -> BOOLEAN] /\ reported \in [Sub -> BOOLEAN]
  /\ pend \in [Sub -> SUBSET Thread]
  /\ fsgn \in BOOLEAN /\ advance \in BOOLEAN /\ group_crit \in BOOLEAN
  /\ \A p \in net : p \in Packet
  /\ stp \subseteq Sub \ {LastSub}

\* The tick that is being decided: a core that has had its stop packet, and
\* the last T once it has advanced, is in it; the others are a tick behind.
Current == IF advance THEN tick[LastSub] + 1 ELSE tick[LastSub]
Behind(s) == IF s = LastSub THEN advance ELSE s \in stp

\* The cores are in the same tick, or, while the stop packets of a tick are
\* delivered, some in this tick and some in the next one.
Lockstep == \A s \in Sub : tick[s] = IF Behind(s) THEN Current - 1 ELSE Current

\* A scoreboard is never over-counted, which would make the comparison for
\* equality in t_criterion_packet miss; and no packet is taken for one of
\* another tick.
ScoreboardSound ==
  /\ \A s \in Sub : arrived[s] <= crit_expected(s)
  /\ \A p \in net : p.tick = Current

\* When the last T decides, every core has processed its nets and is in the
\* same tick, and what it decides by is the verdict of all subgroups in this
\* tick: none is missing, none is counted twice, none is of another tick.
DecisionStep ==
  ~advance /\ advance' =>
    /\ \A s \in Sub : proc'[s] /\ tick[s] = tick[LastSub]
    /\ group_crit' = \A s \in Sub : met'[s]
DecisionComplete == [][DecisionStep]_vars

\* No core waits for ever: neither for a criterion, nor for the decision.
TicksEnd == <>Over
=============================================================================
