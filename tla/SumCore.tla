------------------------------ MODULE SumCore ------------------------------
(***************************************************************************)
(* The sum core S(s) of a subgroup: accumulates the partial dot products   *)
(* of its weight cores into nets (FORWARD) and errors (BACKPROP), and      *)
(* counts the sync generation packets that tell the tick is over.          *)
(* (sum.c, comms_s.c, process_s.c, init_s.c)                               *)
(***************************************************************************)
EXTENDS Stage

VARIABLE sc     \* state of the sum cores

Nothing == [u \in Unit |-> EmptyBag]
NoneArrived == [u \in Unit |-> 0]

\* not all S cores take part in backprop sync generation
sb_thrds_init(s) == {"PROC"} \cup IF bsgn_expected(s) = 0 THEN {} ELSE {"BSGN"}

SInitRecord(s) ==
  Starting(
   [s_nets |-> Nothing, sf_arrived |-> NoneArrived, s_fsgn_arrived |-> 0,
    s_errors |-> Nothing, sb_arrived |-> NoneArrived, sb_done |-> 0,
    s_bsgn_arrived |-> 0, sb_thrds_pend |-> sb_thrds_init(s),
    s_lds_part |-> EmptyBag, s_lds_arrived |-> 0])

SInit == sc = [s \in Sub |-> SInitRecord(s)]

(***************************************************************************)
(* Start of a tick.  The core is about to move to the tick before this     *)
(* one, hence END_TICK + 1 for the last tick of an epoch.                  *)
(***************************************************************************)
\* mutant: the thread is added when the last tick is over
LdsaThread_late(r) ==
  IF Dougs /\ r.example_cnt = NumExamples - 1 /\ r.tick = END_TICK
    THEN {"LDSA"} ELSE {}
LdsaThread(r) ==
  IF Dougs /\ r.example_cnt = NumExamples - 1 /\ r.tick = END_TICK + 1
    THEN {"LDSA"} ELSE {}

\* mutants: the nets, or the errors, of the last tick are kept
SFTickInit_keepsNets(r) == [r EXCEPT !.sf_arrived = NoneArrived, !.s_fsgn_arrived = 0]
SFTickInit(r) ==
  [r EXCEPT !.s_nets = Nothing, !.sf_arrived = NoneArrived, !.s_fsgn_arrived = 0]

SBTickInit_keepsErrors(r) ==
  [r EXCEPT !.s_lds_part = EmptyBag, !.s_lds_arrived = 0,
            !.sb_arrived = NoneArrived, !.sb_done = 0, !.s_bsgn_arrived = 0]
SBTickInit(r) ==
  [r EXCEPT !.s_lds_part = EmptyBag, !.s_lds_arrived = 0,
            !.s_errors = Nothing, !.sb_arrived = NoneArrived,
            !.sb_done = 0, !.s_bsgn_arrived = 0]

STickInit(s, r) ==
  IF r.phase = F
    THEN SFTickInit(r)
    ELSE SBTickInit([r EXCEPT !.sb_thrds_pend = sb_thrds_init(s) \cup LdsaThread(r)])

sf_advance_event(r) ==
  CASE ~EndOfForward(r)             -> [r EXCEPT !.evt = @ + 1, !.tick = @ + 1]
    [] EndOfForward(r) /\ Training  -> [r EXCEPT !.evt = @ + 1, !.phase = B]
    [] EndOfForward(r) /\ ~Training -> AdvanceExample([r EXCEPT !.tick = INIT_TICK])

sf_advance_tick(s, r, tick_stop) ==
  LET r1 == STickInit(s, r)
  IN IF tick_stop THEN sf_advance_event(r1) ELSE [r1 EXCEPT !.tick = @ + 1]

sb_advance_tick(s, r) ==
  LET r1 == STickInit(s, r)
  IN IF r.tick = END_TICK
       THEN AdvanceExample([r1 EXCEPT !.tick = INIT_TICK, !.phase = F])
       ELSE [r1 EXCEPT !.tick = @ - 1]

(***************************************************************************)
(* Threads of a BACKPROP tick: the last one to finish reports the tick     *)
(* done towards the last T.                                                *)
(***************************************************************************)
SBDone(r, thread) ==
  IF r.sb_thrds_pend = {thread} THEN r
  ELSE [r EXCEPT !.sb_thrds_pend = @ \ {thread}]

SBReport(s, r, thread, st) ==
  IF r.sb_thrds_pend = {thread}
    THEN Multicast("bsgn", S(s), FsgRoute(s), 0, FALSE, st)
    ELSE {}

(***************************************************************************)
(* Packets, from the queue.                                                *)
(***************************************************************************)
\* sf_process
SForward(p) ==
  LET s  == p.dst[2]
      r  == sc[s]
      r1 == [r EXCEPT !.s_nets[p.u] = @ (+) SetToBag({<<p.src, p.st>>}),
                      !.sf_arrived[p.u] = @ + 1]
  IN /\ p.kind = "fwd" /\ p.dst[1] = "S"
     /\ InTime(r, p)
     /\ sc' = [sc EXCEPT ![s] = r1]
     /\ net' = (net \ {p}) \cup
          IF r1.sf_arrived[p.u] = fwd_expected
            THEN {Pkt("fwd", p.dst, I(s), p.u, FALSE, p.st)} ELSE {}

\* sb_process
SBackprop(p) ==
  LET s  == p.dst[2]
      r  == sc[s]
      r1 == [r EXCEPT !.s_errors[p.u] = @ (+) SetToBag({<<p.src, p.st>>}),
                      !.sb_arrived[p.u] = @ + 1]
      r2 == [r1 EXCEPT !.sb_done = @ + 1]
  IN /\ p.kind = "bkp" /\ p.dst[1] = "S"
     /\ InTime(r, p)
     /\ IF r1.sb_arrived[p.u] # bkp_expected
          THEN /\ sc' = [sc EXCEPT ![s] = r1]
               /\ net' = net \ {p}
          ELSE /\ sc' = [sc EXCEPT ![s] =
                           IF r2.sb_done = Units THEN SBDone(r2, "PROC") ELSE r2]
               /\ net' = (net \ {p})
                    \cup {Pkt("bkp", p.dst, T(s), p.u, FALSE, p.st)}
                    \cup (IF r2.sb_done = Units THEN SBReport(s, r2, "PROC", p.st) ELSE {})

\* s_lds_packet
SLds(p) ==
  LET s  == p.dst[2]
      r  == sc[s]
      r1 == [r EXCEPT !.s_lds_part = @ (+) SetToBag({<<p.src, p.u, p.st>>}),
                      !.s_lds_arrived = @ + 1]
  IN /\ p.kind = "lds" /\ p.dst[1] = "S"
     /\ InTime(r, p)
     /\ IF r1.s_lds_arrived # lds_expected(s)
          THEN /\ sc' = [sc EXCEPT ![s] = r1]
               /\ net' = net \ {p}
          ELSE /\ sc' = [sc EXCEPT ![s] = SBDone(r1, "LDSA")]
               /\ net' = (net \ {p})
                    \cup Multicast("lds", p.dst, LdsRoute(s), 0, FALSE, p.st)
                    \cup SBReport(s, r1, "LDSA", p.st)

(***************************************************************************)
(* Packets, in the packet interrupt.                                       *)
(***************************************************************************)
\* s_fsgn_packet
SFsgn(p) ==
  LET s  == p.dst[2]
      r1 == [sc[s] EXCEPT !.s_fsgn_arrived = @ + 1]
  IN /\ p.kind = "fsgn" /\ p.dst[1] = "S"
     /\ InTime(sc[s], p)
     /\ sc' = [sc EXCEPT ![s] = r1]
     /\ net' = (net \ {p}) \cup
          IF r1.s_fsgn_arrived = fsgn_expected(s)
            THEN Multicast("fsgn", p.dst, FsgRoute(s), 0, FALSE, p.st) ELSE {}

\* s_bsgn_packet
SBsgn(p) ==
  LET s  == p.dst[2]
      r1 == [sc[s] EXCEPT !.s_bsgn_arrived = @ + 1]
      all == r1.s_bsgn_arrived = bsgn_expected(s)
  IN /\ p.kind = "bsgn" /\ p.dst[1] = "S"
     /\ InTime(sc[s], p)
     /\ sc' = [sc EXCEPT ![s] = IF all THEN SBDone(r1, "BSGN") ELSE r1]
     /\ net' = (net \ {p}) \cup IF all THEN SBReport(s, r1, "BSGN", p.st) ELSE {}

SStop(p) ==
  /\ p.kind = "stop" /\ p.dst[1] = "S"
  /\ sc' = [sc EXCEPT ![p.dst[2]] = sf_advance_tick(p.dst[2], @, p.b)]
  /\ net' = net \ {p}

SSync(p) ==
  /\ p.kind = "sync" /\ p.dst[1] = "S"
  /\ sc' = [sc EXCEPT ![p.dst[2]] = sb_advance_tick(p.dst[2], @)]
  /\ net' = net \ {p}

SNetStop(p) ==
  /\ p.kind = "stpn" /\ p.dst[1] = "S" /\ InTurn(p)
  /\ sc' = [sc EXCEPT ![p.dst[2]] = NetStop(@, p.b)]
  /\ net' = net \ {p}

SPacket(p) ==
  \/ SForward(p) \/ SBackprop(p) \/ SLds(p) \/ SFsgn(p) \/ SBsgn(p)
  \/ SStop(p) \/ SSync(p) \/ SNetStop(p)

SNext == \E p \in net : SPacket(p)
=============================================================================
