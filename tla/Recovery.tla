------------------------------ MODULE Recovery ------------------------------
(***************************************************************************)
(* Deadlock recovery: the machine of PDP2 over a fabric that loses         *)
(* packets.  The timer of the last T (threshold.c, timeout) looks from     *)
(* time to time whether the core has moved; if it has not, the tick is     *)
(* restarted in all the cores (tick_init with SPINN_RESTART), and if that  *)
(* does not help the stage is aborted.                                     *)
(***************************************************************************)
EXTENDS PDP2

CONSTANTS
  Lossy,          \* the kinds of packet the fabric may lose
  MaxLost,        \* how many it loses
  DLRV_MAX_CNT,   \* SPINN_DLRV_MAX_CNT
  Patient         \* see TimerFires

VARIABLES
  lost,           \* number of packets lost
  seen,           \* where the last T was when the timer last fired
  t_dlrv_cnt,     \* firings without progress
  aborted,        \* the cores that have left the stage with SPINN_TIMEOUT_EXIT
  restarts        \* a ghost: the ticks restarted, a bag of stamps

ASSUME RecoveryAssumption ==
  /\ Lossy \subseteq DataKinds \cup ControlKinds
  /\ MaxLost \in Nat
  /\ DLRV_MAX_CNT \in Nat \ {0}
  /\ Patient \in BOOLEAN

timer_vars == <<seen, t_dlrv_cnt, aborted, restarts>>
all_vars == <<vars, lost, timer_vars>>

\* to_epoch, to_example and to_tick are 0 to begin with
RInit ==
  /\ Init /\ lost = 0 /\ seen = <<0, 0, F, 0>> /\ t_dlrv_cnt = 0 /\ aborted = {}
  /\ restarts = EmptyBag

(***************************************************************************)
(* Restart of a tick, in each kind of core (the dlrv handlers and the      *)
(* tick_init they schedule).                                               *)
(***************************************************************************)
\* mutants: the outputs are taken from the other buffer; the tick is not
\* computed again; the outputs of the wrong tick are restored
WRestart_swaps(r) ==
  IF r.phase = F THEN [r EXCEPT !.wf_arrived = 0, !.wf_procs = 1 - @, !.wf_pending = TRUE]
                 ELSE [r EXCEPT !.wb_arrived = 0, !.w_errors = EmptyBag]
WRestart_idle(r) ==
  IF r.phase = F THEN [r EXCEPT !.wf_arrived = 0]
                 ELSE [r EXCEPT !.wb_arrived = 0, !.w_errors = EmptyBag]
WRestart_reloads(r) ==
  IF r.phase = F THEN [r EXCEPT !.wf_arrived = 0, !.wf_pending = TRUE]
                 ELSE restore_outputs([r EXCEPT !.wb_arrived = 0, !.w_errors = EmptyBag],
                                      r.tick)
WRestart(r) ==
  IF r.phase = F THEN [r EXCEPT !.wf_arrived = 0, !.wf_pending = TRUE]
                 ELSE [r EXCEPT !.wb_arrived = 0, !.w_errors = EmptyBag]

\* mutant: the sums of the first attempt are kept
SRestart_keeps(s, r) == r
SRestart(s, r) == STickInit(s, r)

\* mutant: the errors are taken from the other buffer
TRestart_swaps(s, r) ==
  IF r.phase = F THEN TFTickInit(s, r) ELSE [TBTickInit(s, r) EXCEPT !.tb_pending = TRUE]
TRestart(s, r) ==
  IF r.phase = F THEN TFTickInit(s, r)
  ELSE [r EXCEPT !.tb_thrds_pend = tb_thrds_init(s), !.tb_arrived = 0,
                 !.tb_bsgn_arrived = 0, !.tb_pending = TRUE]

\* w_dlrv_packet, s_dlrv_packet, i_dlrv_packet, t_dlrv_packet
Dlrv(p) ==
  /\ p.kind = "dlrv" /\ InTurn(p)
  /\ net' = net \ {p}
  /\ \/ /\ p.dst \in WCores
        /\ wc' = [wc EXCEPT ![p.dst] = WRestart(@)]
        /\ UNCHANGED <<sc, ic, tc>>
     \/ /\ p.dst[1] = "S"
        /\ sc' = [sc EXCEPT ![p.dst[2]] = SRestart(p.dst[2], @)]
        /\ UNCHANGED <<wc, ic, tc>>
     \/ /\ p.dst[1] = "I"
        /\ UNCHANGED <<wc, sc, ic, tc>>
     \/ /\ p.dst[1] = "T"
        /\ tc' = [tc EXCEPT ![p.dst[2]] = TRestart(p.dst[2], @)]
        /\ UNCHANGED <<wc, sc, ic>>
  /\ UNCHANGED <<lost, timer_vars>>

\* the same packet with SPINN_DLRV_ABRT: stage_done with SPINN_TIMEOUT_EXIT
Abort(p) ==
  /\ p.kind = "abrt" /\ InTurn(p)
  /\ net' = net \ {p}
  /\ aborted' = aborted \cup {p.dst}
  /\ UNCHANGED <<wc, sc, ic, tc, lost, seen, t_dlrv_cnt, restarts>>

(***************************************************************************)
(* The timer.  Its period is meant to be much longer than a tick: when the *)
(* last T is where it was, nothing is left in the machine that could still *)
(* happen.  The code does not compare the phase.  A Patient timer fires    *)
(* only then; any other also while the last T is moving.                   *)
(***************************************************************************)
\* no callback is scheduled
Idle ==
  /\ \A c \in WCores : ~wc[c].wf_pending
  /\ \A s \in Sub : ~tc[s].tb_pending /\ ~tc[s].advance
Quiet == net = {} /\ Idle

Here == Stamp(tc[LastSub])

TimerFires == ~tc[LastSub].done /\ aborted = {} /\ (Quiet \/ (~Patient /\ Here # seen))

\* to_epoch, to_example and to_tick are compared
Progress == <<seen[1], seen[2], seen[4]>> # <<Here[1], Here[2], Here[4]>>

GiveUp == t_dlrv_cnt + 1 >= DLRV_MAX_CNT

Timeout ==
  /\ TimerFires
  /\ seen' = Here
  /\ \/ /\ Progress
        /\ t_dlrv_cnt' = 0
        /\ UNCHANGED <<net, tc, aborted, restarts>>
     \/ /\ ~Progress /\ ~GiveUp
        /\ t_dlrv_cnt' = t_dlrv_cnt + 1
        /\ net' = net \cup Multicast("dlrv", LastT, StpRoute(LastSub), 0, FALSE, Here)
        /\ tc' = [tc EXCEPT ![LastSub] = TRestart(LastSub, @)]
        /\ restarts' = restarts (+) SetToBag({Here})
        /\ UNCHANGED aborted
     \/ /\ ~Progress /\ GiveUp
        /\ t_dlrv_cnt' = t_dlrv_cnt + 1
        /\ net' = net \cup Multicast("abrt", LastT, StpRoute(LastSub), 0, TRUE, Here)
        /\ aborted' = {LastT}
        /\ UNCHANGED <<tc, restarts>>
  /\ UNCHANGED <<wc, sc, ic, lost>>

(***************************************************************************)
(* The fabric loses packets.  A lost packet is one that never arrives, and *)
(* the others can overtake it: what is left in the end is lost.            *)
(***************************************************************************)
Lose ==
  /\ net # {} /\ Idle
  /\ \A p \in net : p.kind \in Lossy
  /\ lost + Cardinality(net) <= MaxLost
  /\ lost' = lost + Cardinality(net)
  /\ net' = {}
  /\ UNCHANGED <<wc, sc, ic, tc, timer_vars>>

(***************************************************************************)
(* The handlers of a restart are short, the computations it triggers are   *)
(* not: all cores have restarted, or left, before anything else happens.   *)
(***************************************************************************)
Urgent == \E p \in net : p.kind \in {"dlrv", "abrt"}

RNext ==
  \/ \E p \in net : Dlrv(p) \/ Abort(p)
  \/ ~Urgent /\ aborted = {} /\ Next /\ UNCHANGED <<lost, timer_vars>>
  \/ ~Urgent /\ Timeout
  \/ ~Urgent /\ Lose
  \/ aborted = Cores /\ UNCHANGED all_vars

RSpec == RInit /\ [][RNext]_all_vars
RFairSpec == RSpec /\ WF_all_vars(RNext)

(***************************************************************************)
(* Properties.                                                             *)
(***************************************************************************)
\* A stage that loses fewer packets than the timer is willing to count ends
\* as if it had lost none; if it is aborted, every core is.
Recovers == <>(AllDone \/ (aborted = Cores /\ lost >= DLRV_MAX_CNT))

\* When an example is over, the link deltas hold the products of all its
\* ticks, and no others: once each, but those of a restarted tick as often as
\* it was begun at the most (a restart takes nothing back, so what the first
\* attempt has added is added again).
GradientWhole ==
  [][\A c \in WCores : ExampleOver(c) =>
       LET deltas == wc[c].w_link_deltas
       IN /\ BagToSet(deltas) = GradientOf(c)
          /\ \A x \in DOMAIN deltas : deltas[x] <= 1 + CopiesIn(x[4], restarts)]_vars

\* Stated of timeout in its comment: it acts if no progress has been made
\* since it was last called.
StuckStep == t_dlrv_cnt' > t_dlrv_cnt => Here = seen
RestartIfStuck == [][StuckStep]_all_vars

\* Stated of Doug's momentum in init_s.c: a sum core waits for partial link
\* delta sums when it is about to move on to the last tick of the epoch, the
\* one in which the weight cores send them; in any other it would wait for
\* ever.
LdsAwaited ==
  \A s \in Sub : "LDSA" \in sc[s].sb_thrds_pend => LastTickOfEpoch(sc[s])
=============================================================================
