----------------------------- MODULE WeightCore -----------------------------
(***************************************************************************)
(* A weight core W(to, from): partial dot products of the outputs of       *)
(* subgroup "from" for the nets of subgroup "to", and, in BACKPROP, of the *)
(* deltas of "to" for the errors of "from", together with the accumulated  *)
(* link deltas that update the weights at the end of an epoch.             *)
(* (weight.c, comms_w.c, process_w.c, init_w.c)                            *)
(*                                                                         *)
(* Unit outputs, errors and link deltas are modelled by their origin: an   *)
(* output by the stamp of its tick, a sum by the bag of what was added.    *)
(***************************************************************************)
EXTENDS Stage

VARIABLE wc     \* state of the weight cores

WInitRecord ==
  Starting(
   [wf_procs |-> 0, wf_arrived |-> 0, wb_arrived |-> 0,
    w_outputs |-> [b \in 0 .. 1 |-> [i \in Unit |-> Initial]],
    w_output_history |-> [k \in 0 .. GlobalMaxTicks - 1 |-> [i \in Unit |-> Zero]],
    w_errors |-> EmptyBag, w_link_deltas |-> EmptyBag, w_lds_final |-> Zero,
    epoch_rdy |-> FALSE, wf_pending |-> TRUE])

\* wf_pending: wf_process is scheduled; stage_start schedules the first one
WInit == wc = [c \in WCores |-> WInitRecord]

wf_comms(r) == 1 - r.wf_procs

restore_outputs(r, k) == [r EXCEPT !.w_outputs[0] = r.w_output_history[k]]

(***************************************************************************)
(* Start of a tick.                                                        *)
(***************************************************************************)
\* mutant: the buffers of w_outputs are not swapped
WTickInit_oneBuffer(r) ==
  IF r.phase = F THEN [r EXCEPT !.wf_arrived = 0]
                 ELSE [r EXCEPT !.wb_arrived = 0, !.w_errors = EmptyBag]

WTickInit(r) ==
  IF r.phase = F
    THEN [r EXCEPT !.wf_arrived = 0, !.wf_procs = 1 - @]
    ELSE [r EXCEPT !.wb_arrived = 0, !.w_errors = EmptyBag]

(***************************************************************************)
(* Advancing ticks, events and examples.                                   *)
(***************************************************************************)
\* mutant: the link deltas are not cleared after the update
WNextExample_keepsDeltas(r) ==
  IF EndOfEpoch(r)
    THEN [r EXCEPT !.epoch = @ + 1, !.example_cnt = 0]
    ELSE [r EXCEPT !.example_cnt = @ + 1, !.net_stop_rdy = TRUE]

\* mutant: the link deltas are cleared after every example
WNextExample_clearsDeltas(r) ==
  IF EndOfEpoch(r)
    THEN [r EXCEPT !.epoch = @ + 1, !.example_cnt = 0, !.w_link_deltas = EmptyBag]
    ELSE [r EXCEPT !.example_cnt = @ + 1, !.net_stop_rdy = TRUE,
                   !.w_link_deltas = EmptyBag]

\* at the end of an epoch the weights are updated from the link deltas
WNextExample(r) ==
  IF EndOfEpoch(r)
    THEN [r EXCEPT !.epoch = @ + 1, !.example_cnt = 0,
                   !.w_link_deltas = IF Training THEN EmptyBag ELSE @]
    ELSE [r EXCEPT !.example_cnt = @ + 1, !.net_stop_rdy = TRUE]

\* mutant: the core computes in any case
WGoOn_always(r) == [r EXCEPT !.done = r.net_stop, !.wf_pending = TRUE]

\* the network stop decision is there: end the stage or compute
WGoOn(r) == IF r.net_stop THEN [r EXCEPT !.done = TRUE] ELSE [r EXCEPT !.wf_pending = TRUE]

w_advance_example(r) ==
  LET r1 == [WNextExample(r) EXCEPT !.evt = 0,
                !.w_outputs[r.wf_procs] = [i \in Unit |-> Initial]]
  IN IF r1.net_stop_rdy THEN WGoOn([r1 EXCEPT !.net_stop_rdy = FALSE])
                        ELSE [r1 EXCEPT !.epoch_rdy = TRUE]

\* mutant: the outputs of the tick before are not restored
w_switch_to_bp_plain(r) == [r EXCEPT !.phase = B]
w_switch_to_bp(r) == restore_outputs([r EXCEPT !.phase = B], r.tick - 1)

wf_advance_event(r) ==
  CASE ~EndOfForward(r) ->
         [r EXCEPT !.evt = @ + 1, !.tick = @ + 1, !.wf_pending = TRUE]
    [] EndOfForward(r) /\ Training  -> w_switch_to_bp([r EXCEPT !.evt = @ + 1])
    [] EndOfForward(r) /\ ~Training -> w_advance_example([r EXCEPT !.tick = INIT_TICK])

wf_advance_tick(r, tick_stop) ==
  LET r1 == WTickInit(r)
  IN IF tick_stop THEN wf_advance_event(r1)
                  ELSE [r1 EXCEPT !.tick = @ + 1, !.wf_pending = TRUE]

wb_advance_tick(r) ==
  LET r1 == WTickInit(r)
  IN IF r.tick = END_TICK
       THEN w_advance_example([r1 EXCEPT !.tick = INIT_TICK, !.phase = F])
       ELSE restore_outputs([r1 EXCEPT !.tick = @ - 1], r.tick - 2)

(***************************************************************************)
(* wf_process: one dot product per column goes to the sum core.            *)
(***************************************************************************)
WProcess(c) ==
  /\ wc[c].wf_pending /\ EpochStarted
  /\ net' = net \cup {Pkt("fwd", c, S(c[2]), u, FALSE, Stamp(wc[c])) : u \in Unit}
  /\ wc' = [wc EXCEPT ![c].wf_pending = FALSE]

(***************************************************************************)
(* Packets.                                                                *)
(***************************************************************************)
\* w_forward_packet, in the packet interrupt
WForward(p) ==
  LET r == wc[p.dst]
      r1 == [r EXCEPT !.w_outputs[wf_comms(r)][p.u] = p.st,
                      !.w_output_history[r.tick][p.u] = p.st,
                      !.wf_arrived = @ + 1]
  IN /\ p.kind = "fwd" /\ p.dst \in WCores
     /\ InTime(r, p)
     /\ wc' = [wc EXCEPT ![p.dst] = r1]
     /\ net' = (net \ {p}) \cup
          IF r1.wf_arrived = Units
            THEN {Pkt("fsgn", p.dst, S(p.dst[2]), 0, FALSE, p.st)}
            ELSE {}

\* wb_process, from the BACKPROP queue.  The queue is left alone until the
\* core has switched to BACKPROP, so deltas may come early by a phase.
WBackprop(p) ==
  LET c  == p.dst
      r  == wc[c]
      r1 == [r EXCEPT
               !.wb_arrived = @ + 1,
               !.w_link_deltas = @ (+)
                 SetToBag({<<i, p.u, r.w_outputs[0][i], p.st>> : i \in Unit}),
               !.w_errors = @ (+) SetToBag({<<p.u, p.st>>})]
  IN /\ p.kind = "bkp" /\ c \in WCores
     /\ r.phase = B
     /\ r.phase = p.st[3] => InTime(r, p)
     /\ wc' = [wc EXCEPT ![c] = r1]
     /\ net' = (net \ {p})
          \cup (IF r1.wb_arrived = Units
                  THEN {Pkt("bkp", c, S(c[3]), i, FALSE, Stamp(r)) : i \in Unit}
                  ELSE {})
          \cup (IF Dougs /\ LastTickOfEpoch(r)
                  THEN {Pkt("lds", c, S(c[2]), p.u, FALSE, Stamp(r))}
                  ELSE {})

\* w_ldsa_packet, from the BACKPROP queue.  The total is not waited for: it is
\* handled while the queue's thread goes on, or with the deltas of a later tick
WLdsa(p) ==
  /\ p.kind = "lds" /\ p.dst \in WCores /\ InTurn(p)
  /\ wc' = [wc EXCEPT ![p.dst].w_lds_final = p.st]
  /\ net' = net \ {p}

WStop(p) ==
  /\ p.kind = "stop" /\ p.dst \in WCores
  /\ wc' = [wc EXCEPT ![p.dst] = wf_advance_tick(@, p.b)]
  /\ net' = net \ {p}

WSync(p) ==
  /\ p.kind = "sync" /\ p.dst \in WCores
  /\ wc' = [wc EXCEPT ![p.dst] = wb_advance_tick(@)]
  /\ net' = net \ {p}

\* w_net_stop_packet
WNetStop(p) ==
  LET r == [wc[p.dst] EXCEPT !.net_stop = p.b]
  IN /\ p.kind = "stpn" /\ p.dst \in WCores /\ InTurn(p)
     /\ wc' = [wc EXCEPT ![p.dst] =
                 IF r.epoch_rdy THEN WGoOn([r EXCEPT !.epoch_rdy = FALSE])
                                ELSE [r EXCEPT !.net_stop_rdy = TRUE]]
     /\ net' = net \ {p}

WPacket(p) ==
  \/ WForward(p) \/ WBackprop(p) \/ WLdsa(p)
  \/ WStop(p) \/ WSync(p) \/ WNetStop(p)

WNext ==
  \/ \E c \in WCores : WProcess(c)
  \/ \E p \in net : WPacket(p)
=============================================================================
