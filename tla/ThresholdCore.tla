--------------------------- MODULE ThresholdCore ---------------------------
(***************************************************************************)
(* The threshold core T(s) of a subgroup: computes unit outputs from nets  *)
(* (FORWARD) and deltas from errors (BACKPROP).  The T cores also run the  *)
(* protocol that ends a tick: criterion packets travel along a chain to    *)
(* the last T, which alone decides to stop the event and multicasts it.    *)
(* (threshold.c, comms_t.c, process_t.c, init_t.c)                         *)
(***************************************************************************)
EXTENDS Stage

VARIABLE tc     \* state of the threshold cores

IsLast(s) == s = LastSub
IsOutput(s) == Group[s] \in OutGroups

tb_bsgn_expected(s) == crit_expected(s) + (IF IsLast(s) THEN 1 ELSE 0)

\* what has to happen in a tick before the core reports it done
\* mutants: the last T does not wait for forward sync generation; no T waits
\* for the criteria of the others
tf_thrds_init_noFsgn(s) == {"PROC"} \cup (IF crit_expected(s) = 0 THEN {} ELSE {"CRIT"})
tf_thrds_init_noCrit(s) == {"PROC"} \cup (IF IsLast(s) THEN {"FSGN"} ELSE {})
tf_thrds_init(s) ==
  {"PROC"} \cup (IF crit_expected(s) = 0 THEN {} ELSE {"CRIT"})
           \cup (IF IsLast(s) THEN {"FSGN"} ELSE {})

tb_thrds_init(s) ==
  {"COMS"} \cup (IF tb_bsgn_expected(s) = 0 THEN {} ELSE {"BSGN"})

\* advance: the last T has scheduled its own tf_ or tb_advance_tick;
\* tb_pending: tb_process is scheduled.
\* tf_met is a ghost: the verdict of the stop criterion on each output.
\* var_init leaves the criterion of a non-output group alone: it is FALSE
\* (zeroed memory) in the first stage the core runs
TInitRecord(s) ==
  Starting(
   [ev_tick |-> INIT_TICK, max_evt |-> 0,
    tf_arrived |-> 0, tf_crit_arrived |-> 0, tf_thrds_pend |-> tf_thrds_init(s),
    tf_met |-> [u \in Unit |-> TRUE],
    tf_crit_prev |-> TRUE, tf_stop_crit |-> IsOutput(s), tf_group_crit |-> IsOutput(s),
    tf_event_crit |-> IsOutput(s), tf_example_crit |-> IsOutput(s),
    tb_arrived |-> 0, tb_bsgn_arrived |-> 0, tb_thrds_pend |-> tb_thrds_init(s),
    tb_procs |-> 0, t_errors |-> [b \in 0 .. 1 |-> [u \in Unit |-> Zero]],
    t_outputs |-> [u \in Unit |-> Initial],
    t_output_history |-> [k \in Tick |-> [u \in Unit |-> Zero]],
    tick_stop |-> FALSE, advance |-> FALSE, tb_pending |-> FALSE])

TInit == tc = [s \in Sub |-> TInitRecord(s)]

tb_comms(r) == 1 - r.tb_procs

(***************************************************************************)
(* Start of a tick.                                                        *)
(***************************************************************************)
\* mutant: the thread semaphore stays as the last tick has left it
TFTickInit_keepsPend(s, r) ==
  [r EXCEPT !.tf_arrived = 0, !.tf_crit_arrived = 0, !.tf_crit_prev = TRUE,
            !.tf_stop_crit = TRUE, !.tf_met = [u \in Unit |-> TRUE]]
TFTickInit(s, r) ==
  [r EXCEPT !.tf_thrds_pend = tf_thrds_init(s), !.tf_arrived = 0,
            !.tf_crit_arrived = 0, !.tf_crit_prev = TRUE, !.tf_stop_crit = TRUE,
            !.tf_met = [u \in Unit |-> TRUE]]

\* mutant: the buffers of t_errors are not swapped
TBTickInit_oneBuffer(s, r) ==
  [r EXCEPT !.tb_thrds_pend = tb_thrds_init(s), !.tb_arrived = 0, !.tb_bsgn_arrived = 0]
TBTickInit(s, r) ==
  [r EXCEPT !.tb_thrds_pend = tb_thrds_init(s), !.tb_arrived = 0,
            !.tb_bsgn_arrived = 0, !.tb_procs = 1 - @]

TTickInit(s, r) == IF r.phase = F THEN TFTickInit(s, r) ELSE TBTickInit(s, r)

(***************************************************************************)
(* Advancing ticks, events and examples.                                   *)
(***************************************************************************)
\* the last T decides whether the epoch that just ended is the last one
EndOfStage(r) == ~Training \/ r.epoch + 1 >= NumEpochs \/ r.tf_example_crit

t_advance_example(s, r) ==
  LET last == [r EXCEPT !.epoch = @ + 1, !.example_cnt = 0, !.evt = 0,
                        !.done = EndOfStage(r)]
      r1   == IF IsLast(s) /\ EndOfEpoch(r) THEN last ELSE AdvanceExample(r)
  IN [r1 EXCEPT !.tf_event_crit = TRUE,
                !.tf_example_crit = IF EndOfEpoch(r) THEN TRUE ELSE @]

\* the network stop packets sent on the way
StopNotice(s, r) ==
  IF IsLast(s) /\ EndOfEpoch(r)
    THEN Multicast("stpn", T(s), StpRoute(s), 0, EndOfStage(r),
                   <<r.epoch + 1, 0, F, INIT_TICK>>)
    ELSE {}

t_switch_to_bp(r) ==
  [r EXCEPT !.phase = B, !.tb_pending = TRUE,
            !.t_errors[r.tb_procs] = [u \in Unit |-> Zero]]

\* tf_advance_tick.  The last T gets no STOP packet: it has scheduled the
\* callback itself
TFAdvance(s, t, tick_stop) ==
  LET r == TTickInit(s, t)
      e == IF ~IsLast(s) THEN r
           ELSE [r EXCEPT !.tf_event_crit = @ /\ r.tf_group_crit /\ r.ev_tick >= MinTicks,
                          !.max_evt = r.evt]
      x == [e EXCEPT !.tick = INIT_TICK, !.ev_tick = INIT_TICK]
  IN \/ /\ ~tick_stop
        /\ tc' = [tc EXCEPT ![s] = [r EXCEPT !.tick = @ + 1, !.ev_tick = @ + 1]]
     \/ /\ tick_stop /\ ~EndOfForward(r)
        /\ tc' = [tc EXCEPT ![s] = [e EXCEPT !.evt = @ + 1, !.tick = @ + 1,
                                             !.ev_tick = INIT_TICK]]
     \/ /\ tick_stop /\ EndOfForward(r) /\ Training
        /\ tc' = [tc EXCEPT ![s] = t_switch_to_bp([e EXCEPT !.evt = @ + 1])]
     \/ /\ tick_stop /\ EndOfForward(r) /\ ~Training
        /\ tc' = [tc EXCEPT ![s] = t_advance_example(s, x)]

\* tb_advance_tick
AfterBackprop(s, r) ==
  [r EXCEPT !.tick = INIT_TICK, !.ev_tick = INIT_TICK, !.phase = F,
            !.tf_example_crit = IF IsLast(s)
               THEN @ /\ r.tf_event_crit /\ r.max_evt >= NumEvents - 1 ELSE @]

TBAdvance(s, t) ==
  LET r == TTickInit(s, t)
  IN tc' = [tc EXCEPT ![s] =
              IF r.tick = END_TICK THEN t_advance_example(s, AfterBackprop(s, r))
              ELSE [r EXCEPT !.tick = @ - 1, !.tb_pending = TRUE,
                             !.t_outputs = r.t_output_history[r.tick - 1]]]

\* The callback of the last T.  It sends the network stop packets if this is
\* the end of an epoch
TAdvance ==
  LET s == LastSub
      r == [tc[s] EXCEPT !.advance = FALSE]
  IN /\ tc[s].advance
     /\ \/ /\ r.phase = F
           /\ TFAdvance(s, r, r.tick_stop)
           /\ net' = net \cup IF r.tick_stop /\ EndOfForward(r) /\ ~Training
                               THEN StopNotice(s, r) ELSE {}
        \/ /\ r.phase = B
           /\ TBAdvance(s, r)
           /\ net' = net \cup IF r.tick = END_TICK
                               THEN StopNotice(s, AfterBackprop(s, r)) ELSE {}

\* tb_process: a delta per unit goes to the input core
TProcess(s) ==
  /\ tc[s].tb_pending
  /\ tc' = [tc EXCEPT ![s].tb_pending = FALSE]
  /\ net' = net \cup {Pkt("bkp", T(s), I(s), u, FALSE, Stamp(tc[s])) : u \in Unit}

(***************************************************************************)
(* Threads of a FORWARD tick: the last one to finish sends the criterion,  *)
(* or, in the last T, the decision to stop (send_stop_crit).               *)
(***************************************************************************)
Aggregate(r) == r.tf_stop_crit /\ r.tf_crit_prev

StopDecision(r) ==
  \/ r.ev_tick >= MaxTicks
  \/ r.tick = GlobalMaxTicks - 1
  \/ Aggregate(r) /\ r.ev_tick >= MinTicks

TFDone(s, r, thread) ==
  CASE r.tf_thrds_pend # {thread} -> [r EXCEPT !.tf_thrds_pend = @ \ {thread}]
    [] r.tf_thrds_pend = {thread} /\ ~IsLast(s) -> [r EXCEPT !.tf_stop_crit = Aggregate(r)]
    [] r.tf_thrds_pend = {thread} /\ IsLast(s) ->
         [r EXCEPT !.tf_group_crit = Aggregate(r), !.tf_stop_crit = StopDecision(r),
                   !.tick_stop = StopDecision(r), !.advance = TRUE]

TFReport(s, r, thread) ==
  IF r.tf_thrds_pend # {thread} THEN {}
  ELSE Multicast(IF IsLast(s) THEN "stop" ELSE "crit", T(s), StpRoute(s), 0,
                 TFDone(s, r, thread).tf_stop_crit, Stamp(r))

(***************************************************************************)
(* Threads of a BACKPROP tick: sync generation, or, in the last T, the     *)
(* sync that ends the tick (send_sync).                                    *)
(***************************************************************************)
TBDone(s, r, thread) ==
  CASE r.tb_thrds_pend # {thread} -> [r EXCEPT !.tb_thrds_pend = @ \ {thread}]
    [] r.tb_thrds_pend = {thread} /\ ~IsLast(s) -> r
    [] r.tb_thrds_pend = {thread} /\ IsLast(s) -> [r EXCEPT !.advance = TRUE]

TBReport(s, r, thread) ==
  IF r.tb_thrds_pend # {thread} THEN {}
  ELSE Multicast(IF IsLast(s) THEN "sync" ELSE "bsgn", T(s), StpRoute(s), 0,
                 FALSE, Stamp(r))

(***************************************************************************)
(* Packets.                                                                *)
(***************************************************************************)
\* mutant: the last unit decides for its subgroup
std_stop_crit_last(r, u, crit) == [r EXCEPT !.tf_stop_crit = crit, !.tf_met[u] = crit]
\* crit is whether the unit meets the criterion of its output group
std_stop_crit(r, u, crit) == [r EXCEPT !.tf_stop_crit = @ /\ crit, !.tf_met[u] = crit]

\* tf_process, from the FORWARD queue
TForward(p) ==
  /\ p.kind = "fwd" /\ p.dst[1] = "T"
  /\ InTime(tc[p.dst[2]], p)
  /\ \E crit \in IF IsOutput(p.dst[2]) THEN BOOLEAN ELSE {TRUE} :
       LET s  == p.dst[2]
           r  == tc[s]
           r0 == [r EXCEPT !.t_outputs[p.u] = p.st,
                           !.t_output_history[r.tick][p.u] = IF Training THEN p.st ELSE @,
                           !.tf_arrived = @ + 1]
           r1 == std_stop_crit(r0, p.u, crit)
           all == r1.tf_arrived = Units
       IN /\ tc' = [tc EXCEPT ![s] = IF all THEN TFDone(s, r1, "PROC") ELSE r1]
          /\ net' = (net \ {p})
               \cup Multicast("fwd", T(s), {W(to, s) : to \in Sub}, p.u, FALSE, p.st)
               \cup (IF all THEN TFReport(s, r1, "PROC") ELSE {})

\* t_criterion_packet
TCrit(p) ==
  LET s  == p.dst[2]
      r1 == [tc[s] EXCEPT !.tf_crit_prev = @ /\ p.b, !.tf_crit_arrived = @ + 1]
      all == r1.tf_crit_arrived = crit_expected(s)
  IN /\ p.kind = "crit" /\ p.dst[1] = "T"
     /\ InTime(tc[s], p)
     /\ tc' = [tc EXCEPT ![s] = IF all THEN TFDone(s, r1, "CRIT") ELSE r1]
     /\ net' = (net \ {p}) \cup IF all THEN TFReport(s, r1, "CRIT") ELSE {}

\* t_fsgn_packet
TFsgn(p) ==
  LET s == p.dst[2]
  IN /\ p.kind = "fsgn" /\ p.dst[1] = "T"
     /\ InTime(tc[s], p)
     /\ tc' = [tc EXCEPT ![s] = TFDone(s, @, "FSGN")]
     /\ net' = (net \ {p}) \cup TFReport(s, tc[s], "FSGN")

\* t_backprop_packet, in the packet interrupt
TError(p) ==
  LET s  == p.dst[2]
      r  == tc[s]
      r1 == [r EXCEPT !.t_errors[tb_comms(r)][p.u] = p.st, !.tb_arrived = @ + 1]
      all == r1.tb_arrived = Units
  IN /\ p.kind = "bkp" /\ p.dst[1] = "T"
     /\ InTime(r, p)
     /\ tc' = [tc EXCEPT ![s] = IF all THEN TBDone(s, r1, "COMS") ELSE r1]
     /\ net' = (net \ {p}) \cup IF all THEN TBReport(s, r1, "COMS") ELSE {}

\* t_bsgn_packet
TBsgn(p) ==
  LET s  == p.dst[2]
      r1 == [tc[s] EXCEPT !.tb_bsgn_arrived = @ + 1]
      all == r1.tb_bsgn_arrived = tb_bsgn_expected(s)
  IN /\ p.kind = "bsgn" /\ p.dst[1] = "T"
     /\ InTime(tc[s], p)
     /\ tc' = [tc EXCEPT ![s] = IF all THEN TBDone(s, r1, "BSGN") ELSE r1]
     /\ net' = (net \ {p}) \cup IF all THEN TBReport(s, r1, "BSGN") ELSE {}

TStop(p) ==
  /\ p.kind = "stop" /\ p.dst[1] = "T"
  /\ TFAdvance(p.dst[2], tc[p.dst[2]], p.b)
  /\ net' = net \ {p}

TSync(p) ==
  /\ p.kind = "sync" /\ p.dst[1] = "T"
  /\ TBAdvance(p.dst[2], tc[p.dst[2]])
  /\ net' = net \ {p}

TNetStop(p) ==
  /\ p.kind = "stpn" /\ p.dst[1] = "T" /\ InTurn(p)
  /\ tc' = [tc EXCEPT ![p.dst[2]] = NetStop(@, p.b)]
  /\ net' = net \ {p}

TPacket(p) ==
  \/ TForward(p) \/ TCrit(p) \/ TFsgn(p) \/ TError(p) \/ TBsgn(p)
  \/ TStop(p) \/ TSync(p) \/ TNetStop(p)

TNext ==
  \/ TAdvance
  \/ \E s \in Sub : TProcess(s)
  \/ \E p \in net : TPacket(p)
=============================================================================
