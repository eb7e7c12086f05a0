------------------------------- MODULE Fabric -------------------------------
(***************************************************************************)
(* The machine graph the host builds (mlp_network.py, sum_vertex.py,       *)
(* threshold_vertex.py) and the multicast fabric the four kinds of core    *)
(* talk over.                                                              *)
(*                                                                         *)
(* The subgroups of all groups are numbered through, 1, 2, ...  A subgroup *)
(* owns a sum core "S", an input core "I", a threshold core "T" and one    *)
(* weight core "W" for every subgroup it is fed from.  The sum tree of a   *)
(* subgroup is a single vertex here (a network of at most MAX_S_CORE_LINKS *)
(* subgroups).                                                             *)
(*                                                                         *)
(* Packets in flight, and packets waiting in a core's queue, are the set   *)
(* net.  A packet carries the stamp of the tick its payload belongs to,    *)
(* that of the packet that triggers it where there is one; the stamp is a  *)
(* ghost: no handler reads it, the machine has no such field.              *)
(***************************************************************************)
EXTENDS Integers, Sequences, FiniteSets

CONSTANTS
  Group,          \* the group of each subgroup, a sequence
  Units,          \* units of a subgroup (every subgroup has as many)
  OutGroups,      \* the output groups
  LastOutGroup,   \* the last group of the output chain
  Timely          \* the kinds of core the timing assumption holds of, see InTime

VARIABLE net      \* packets in flight or queued

Sub == DOMAIN Group
Groups == {Group[s] : s \in Sub}
Unit == 0 .. Units - 1

ASSUME GraphAssumption ==
  /\ Group \in Seq(Nat)
  /\ \A s, t \in Sub : s <= t => Group[s] <= Group[t]
  /\ Units \in Nat \ {0}
  /\ OutGroups \subseteq Groups /\ OutGroups # Groups  \* there is always a Bias group
  /\ LastOutGroup \in OutGroups
  /\ Timely \subseteq {"W", "S", "I", "T"}

(***************************************************************************)
(* Subgroups with special functions, and the cores.                        *)
(***************************************************************************)
Peers(s) == {t \in Sub : Group[t] = Group[s]}
GroupFirst(s) == CHOOSE t \in Peers(s) : \A x \in Peers(s) : t <= x
GroupLast(s) == CHOOSE t \in Peers(s) : \A x \in Peers(s) : x <= t
FirstSub == 1
LastSub == CHOOSE t \in Sub : Group[t] = LastOutGroup /\ t = GroupLast(t)

W(to, from) == <<"W", to, from>>
S(s) == <<"S", s>>
I(s) == <<"I", s>>
T(s) == <<"T", s>>
WCores == {W(to, from) : to \in Sub, from \in Sub}
Cores == WCores \cup {S(s) : s \in Sub} \cup {I(s) : s \in Sub} \cup {T(s) : s \in Sub}
LastT == T(LastSub)

(***************************************************************************)
(* Scoreboard targets written into the core configurations.                *)
(***************************************************************************)
fwd_expected == Cardinality(Sub)
bkp_expected == Cardinality(Sub)

\* packets a first-subgroup root gets from the other roots
FromRoots(s) ==
  IF s # GroupFirst(s) THEN 0
  ELSE Cardinality(Peers(s)) - 1 + (IF s = FirstSub THEN Cardinality(Groups) - 1 ELSE 0)

bsgn_expected(s) == FromRoots(s)
\* mutant: a first root does not wait for the other roots
fsgn_expected_own(s) == fwd_expected
fsgn_expected(s) == FromRoots(s) + fwd_expected

\* mutant: nor for the link delta sums of the other roots
lds_expected_own(s) == fwd_expected * Units
lds_expected(s) == FromRoots(s) + fwd_expected * Units

crit_expected(s) ==
  IF s # GroupLast(s) THEN 0
  ELSE Cardinality(Peers(s)) - 1 + (IF s = LastSub THEN Cardinality(Groups) - 1 ELSE 0)

(***************************************************************************)
(* Routes of the multicast links.                                          *)
(***************************************************************************)
\* forward (and backprop) sync generation: to the group's first root, then
\* to the first root of the network, then to the last T
FsgRoute(s) ==
  CASE s = FirstSub      -> {LastT}
    [] s = GroupFirst(s) /\ s # FirstSub -> {S(FirstSub)}
    [] OTHER             -> {S(GroupFirst(s))}

\* link delta sums follow the same tree of roots; the total goes to every W
LdsRoute(s) == IF s = FirstSub THEN WCores ELSE FsgRoute(s)

\* stop link: the last T multicasts, the other Ts form the criterion chain
StpRoute(s) ==
  CASE s = LastSub      -> Cores \ {LastT}
    [] s = GroupLast(s) /\ s # LastSub -> {LastT}
    [] OTHER            -> {T(GroupLast(s))}

(***************************************************************************)
(* Packets.  u is the unit of a data packet, b the boolean of a criterion, *)
(* stop or network-stop packet.                                            *)
(***************************************************************************)
Pkt(kind, src, dst, u, b, st) ==
  [kind |-> kind, src |-> src, dst |-> dst, u |-> u, b |-> b, st |-> st]

Multicast(kind, src, dsts, u, b, st) ==
  {Pkt(kind, src, d, u, b, st) : d \in dsts}

DataKinds == {"fwd", "bkp", "lds"}
ControlKinds == {"fsgn", "bsgn", "crit", "stop", "sync", "stpn"}

(***************************************************************************)
(* Ticks.  The stamp of a core is where it is in the stage.                *)
(***************************************************************************)
Stamp(r) == <<r.epoch, r.example_cnt, r.phase, r.tick>>

\* a is the stamp of a later tick than b: in a FORWARD phase the ticks count
\* up, in a BACKPROP phase down
LaterTick(a, b) ==
  \/ a[1] > b[1]
  \/ a[1] = b[1] /\ a[2] > b[2]
  \/ a[1] = b[1] /\ a[2] = b[2] /\ a[3] = "B" /\ b[3] = "F"
  \/ a[1] = b[1] /\ a[2] = b[2] /\ a[3] = b[3]
       /\ IF a[3] = "F" THEN a[4] > b[4] ELSE a[4] < b[4]

(***************************************************************************)
(* The timing assumption.  The cores do not check the tick of a packet:    *)
(* they rely on a STOP or SYNC packet, and the high-priority callback it   *)
(* schedules, to overtake the data of the next tick, and on the network    *)
(* stop packets to be all there when a weight core has computed its first  *)
(* dot products of the next epoch.  So no packet comes early: the core has *)
(* begun the tick of the packet.  A packet that comes late is handled, and *)
(* counted, in whatever tick the core is.  Cores of the kinds that are not *)
(* Timely handle packets in any order.                                     *)
(***************************************************************************)
InTime(r, p) == p.dst[1] \in Timely => ~LaterTick(p.st, Stamp(r))

\* by then every core has handled its network stop packet
EpochStarted == "W" \in Timely => \A p \in net : p.kind # "stpn"

\* Handlers of network stop packets, and of the link delta total, touch
\* nothing but their own core, so the order in which different cores handle
\* theirs is immaterial: they take turns.  (The order relative to everything
\* else a core does is left open.)
InTurn(p) ==
  LET waiting == {q.dst : q \in {x \in net : x.kind = p.kind /\ x.src = p.src}}
  IN p.dst = CHOOSE c \in waiting : TRUE
=============================================================================
