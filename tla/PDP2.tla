-------------------------------- MODULE PDP2 --------------------------------
(***************************************************************************)
(* One stage of a simulation on the machine: all the weight, sum, input    *)
(* and threshold cores of a network, exchanging packets over the fabric.   *)
(***************************************************************************)
EXTENDS WeightCore, SumCore, InputCore, ThresholdCore

vars == <<wc, sc, ic, tc, net>>

Init == WInit /\ SInit /\ IInit /\ TInit /\ net = {}

AllDone ==
  /\ \A c \in WCores : wc[c].done
  /\ \A s \in Sub : sc[s].done /\ ic[s].done /\ tc[s].done

\* the stage is over, the cores wait for the host
Terminated == AllDone /\ UNCHANGED vars

Next ==
  \/ WNext /\ UNCHANGED <<sc, ic, tc>>
  \/ SNext /\ UNCHANGED <<wc, ic, tc>>
  \/ INext /\ UNCHANGED <<wc, sc, tc>>
  \/ TNext /\ UNCHANGED <<wc, sc, ic>>
  \/ Terminated

Spec == Init /\ [][Next]_vars

Rec(c) == CASE c[1] = "W" -> wc[c]
            [] c[1] = "S" -> sc[c[2]]
            [] c[1] = "I" -> ic[c[2]]
            [] c[1] = "T" -> tc[c[2]]

(***************************************************************************)
(* Type invariant.                                                         *)
(***************************************************************************)
CommonOK(r) ==
  /\ r.phase \in {F, B}
  /\ r.tick \in Tick
  /\ r.evt \in 0 .. NumEvents
  /\ r.example_cnt \in 0 .. NumExamples - 1
  /\ r.epoch \in 0 .. NumEpochs
  /\ {r.net_stop, r.net_stop_rdy, r.done} \subseteq BOOLEAN

\* Every core is in a position of the stage, and every packet is addressed
\* to a core of the network.
TypeOK ==
  /\ \A c \in Cores : CommonOK(Rec(c))
  /\ \A c \in WCores : wc[c].wf_procs \in 0 .. 1 /\ wc[c].epoch_rdy \in BOOLEAN
  /\ \A s \in Sub : /\ sc[s].sb_thrds_pend \subseteq sb_thrds_init(s) \cup {"LDSA"}
                    /\ tc[s].tf_thrds_pend \subseteq tf_thrds_init(s)
                    /\ tc[s].tb_thrds_pend \subseteq tb_thrds_init(s)
                    /\ tc[s].tb_procs \in 0 .. 1
  /\ \A p \in net : /\ p.kind \in DataKinds \cup ControlKinds
                    /\ p.src \in Cores /\ p.dst \in Cores
                    /\ p.u \in Unit /\ p.b \in BOOLEAN

(***************************************************************************)
(* Safety.                                                                 *)
(***************************************************************************)
\* The stamp n ticks before st in the same FORWARD phase, or Initial for the
\* outputs units have before the first tick.
TickBefore(st) ==
  IF st[4] = INIT_TICK THEN Initial ELSE <<st[1], st[2], F, st[4] - 1>>

\* A sum core sends a net (error) on when its scoreboard is full; it is then
\* the sum of exactly one partial product of each weight core, all of this
\* tick (sf_process, sb_process).
SumsExact ==
  \A s \in Sub, u \in Unit :
    LET r == sc[s] IN
    /\ r.sf_arrived[u] = fwd_expected =>
         r.s_nets[u] = SetToBag({<<W(s, from), Stamp(r)>> : from \in Sub})
    /\ r.sb_arrived[u] = bkp_expected =>
         r.s_errors[u] = SetToBag({<<W(to, s), Stamp(r)>> : to \in Sub})

\* A weight core computes with the outputs of the previous tick, in FORWARD
\* from the buffer just filled (double buffering of w_outputs), in BACKPROP
\* from the history; the history of tick 0 holds zeroes (w_switch_to_bp).
OutputsCurrent ==
  \A c \in WCores :
    LET r == wc[c] IN
    /\ r.wf_pending =>
         \A i \in Unit : r.w_outputs[r.wf_procs][i] = TickBefore(Stamp(r))
    /\ r.phase = B =>
         \A i \in Unit : r.w_outputs[0][i] =
            IF r.tick = INIT_TICK THEN Zero ELSE TickBefore(Stamp(r))

\* A threshold core computes deltas from the errors of the tick above it
\* (none in the first BACKPROP tick of an example, which is the tick the
\* FORWARD phase ended with) and from the outputs of the tick itself.
DeltasCurrent ==
  \A s \in Sub :
    LET r == tc[s]
        above == <<r.epoch, r.example_cnt, B, r.tick + 1>>
    IN r.tb_pending =>
         /\ \A u \in Unit : r.t_outputs[u] = <<r.epoch, r.example_cnt, F, r.tick>>
         /\ \/ \A u \in Unit : r.t_errors[r.tb_procs][u] = above
            \/ /\ \A u \in Unit : r.t_errors[r.tb_procs][u] = Zero
               /\ r.tick < GlobalMaxTicks - 1 =>
                    \A u \in Unit : r.t_output_history[r.tick + 1][u]
                                      # <<r.epoch, r.example_cnt, F, r.tick + 1>>

\* When the tick is declared over, nothing of the tick is left in the fabric
\* or in a queue: no data packet that a core has yet to account for (the
\* broadcast of the link delta sum is not waited for) and no packet of the
\* sync generation or criterion trees.
TickQuiet ==
  \A p \in {x \in net : x.kind \in {"stop", "sync"}}, q \in net :
    q.st = p.st =>
      \/ q.kind = p.kind
      \/ q.kind = "lds" /\ q.dst[1] = "W"

\* At the end of a stage no packet is left behind, to be taken for one of the
\* next stage, and no callback is pending (again, the broadcast of the link
\* delta sum is not waited for).
StageEndsClean ==
  AllDone => /\ \A p \in net : p.kind = "lds" /\ p.dst[1] = "W"
             /\ \A c \in WCores : ~wc[c].wf_pending
             /\ \A s \in Sub : ~tc[s].tb_pending /\ ~tc[s].advance

\* Handlers that run in the packet interrupt send their control packets with
\* a user event, and wait for it while another one is pending.  A core never
\* has two different ones under way, so they never wait (w_forward_packet,
\* send_stop_crit, send_sync, s_fsgn_packet, s_bsgn_packet).
UserEventFree ==
  \A p, q \in {x \in net : x.kind \in ControlKinds \ {"stpn"}} :
    p.src = q.src => p.kind = q.kind /\ p.st = q.st

\* Doug's momentum: a sum core passes its link delta sum on when it has got
\* every partial sum of its weight cores, and those of the roots below it,
\* once and all of this tick (s_lds_packet, and the LDSA thread that keeps
\* the tick from ending before).  The last FORWARD phase of the epoch lasts
\* two ticks or more: after a phase of one tick the LDSA thread is not added
\* (the TODO in sf_advance_event), the tick may end before the sums have come,
\* and they are counted in a later one.
Feeders(s) ==
  {W(s, from) : from \in Sub} \cup {S(t) : t \in {x \in Sub : FsgRoute(x) = {S(s)}}}

LdsExact ==
  \A s \in Sub :
    LET r == sc[s] IN
    r.s_lds_arrived = lds_expected(s) =>
      r.s_lds_part = SetToBag({x \in Feeders(s) \X Unit \X {Stamp(r)} :
                                 x[1][1] = "W" \/ x[2] = 0})

(***************************************************************************)
(* Action properties.                                                      *)
(***************************************************************************)
\* The last T stops the event if it must, or if every unit of every output
\* group has met its criterion in this tick: the criteria collected along
\* the chain are complete, and of this tick, when it decides.  In the first
\* tick of the stage the cores of the other groups hold the decision back
\* (see TInitRecord).
Decides == tc[LastSub].phase = F /\ ~tc[LastSub].advance /\ tc'[LastSub].advance
Forced(r) == r.ev_tick >= MaxTicks \/ r.tick = GlobalMaxTicks - 1
CriteriaMet == \A s \in Sub : IsOutput(s) => \A u \in Unit : tc'[s].tf_met[u]
FirstTick(r) == Stamp(r) = <<0, 0, F, INIT_TICK>>

DecisionStep ==
  Decides =>
    LET r == tc'[LastSub] IN
    r.tick_stop = \/ Forced(r)
                  \/ CriteriaMet /\ r.ev_tick >= MinTicks /\ ~FirstTick(r)
DecisionSound == [][DecisionStep]_vars

\* When an example is over, a weight core has added to its link deltas, for
\* every tick of the example's FORWARD phase and every one of its weights,
\* exactly one product of the output of the tick before and the delta of the
\* tick; every earlier example of the epoch is in the sum, too, and nothing
\* of another epoch (wb_process, w_advance_example).
GradientOf(c) ==
  LET r == wc[c]
      Ran == {k \in Tick : \A i \in Unit :
                r.w_output_history[k][i] = <<r.epoch, r.example_cnt, F, k>>}
      Out(k) == IF k = INIT_TICK THEN Zero ELSE <<r.epoch, r.example_cnt, F, k - 1>>
  IN {<<i, u, Out(k), <<r.epoch, r.example_cnt, B, k>>>> : i \in Unit, u \in Unit, k \in Ran}

ExampleOver(c) == wc[c].phase = B /\ wc'[c].phase = F

GradientStep ==
  \A c \in WCores :
    ExampleOver(c) =>
      LET added == {x \in DOMAIN wc[c].w_link_deltas : x[4][2] = wc[c].example_cnt}
      IN /\ added = GradientOf(c)
         /\ \A x \in DOMAIN wc[c].w_link_deltas :
              wc[c].w_link_deltas[x] = 1 /\ x[4][1] = wc[c].epoch
         /\ {x[4][2] : x \in DOMAIN wc[c].w_link_deltas} = 0 .. wc[c].example_cnt
GradientExact == [][GradientStep]_vars

(***************************************************************************)
(* The machine implements the tick barrier: a step that changes the        *)
(* position of a core, or ends its stage, is a step of TickBarrier by that *)
(* core, and any other step a stuttering step of it.                       *)
(***************************************************************************)
Where(c) == <<Stamp(Rec(c)), Rec(c).done>>

Barrier == INSTANCE TickBarrier WITH
             Procs    <- Cores,
             NumTicks <- GlobalMaxTicks - 1,
             pos      <- [c \in Cores |-> Stamp(Rec(c))],
             fin      <- {c \in Cores : Rec(c).done}

\* All the cores go through the ticks of the stage in lockstep (the stop and
\* sync packets, the advance callbacks and the end-of-epoch rendezvous).
BarrierStep ==
  \A c \in Cores : Where(c)' # Where(c) => Barrier!Move(c) \/ Barrier!Finish(c)
BarrierSpec == Barrier!Init /\ [][BarrierStep]_vars

\* Of the timing assumption, lockstep needs the part about threshold cores:
\* if the others handle packets in any order, sums may be wrong or never be
\* complete, and sum and input cores, which compute nothing in between, may
\* fall behind; but the weight and threshold cores, which have to be heard
\* from in every tick, do not leave each other, and the machine stops.
Counted == WCores \cup {T(s) : s \in Sub}

CountedTogether ==
  LET places == {Stamp(Rec(c)) : c \in Counted}
      After(p) == Barrier!Succ(p)
  IN /\ \E p \in places, q \in places : places = {p, q} /\ (q = p \/ q \in After(p))
     /\ \A c \in Counted : Rec(c).done =>
          \A p \in places : p = Stamp(Rec(c)) \/ Stamp(Rec(c)) \in After(p)

=============================================================================
