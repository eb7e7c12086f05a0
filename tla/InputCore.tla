----------------------------- MODULE InputCore -----------------------------
(***************************************************************************)
(* The input core I(s) of a subgroup: applies the input pipeline to each   *)
(* net on its way to T(s), and its inverse to each delta on its way back   *)
(* to the weight cores.  It takes no part in sync generation.              *)
(* (input.c, comms_i.c, process_i.c, init_i.c)                             *)
(***************************************************************************)
EXTENDS Stage

VARIABLE ic     \* state of the input cores

\* which input or target of the example is current, an index of events
IInitRecord == Starting([i_it_idx |-> 0])

IInit == ic = [s \in Sub |-> IInitRecord]

i_advance_example(r) == AdvanceExample([r EXCEPT !.i_it_idx = 0])

if_advance_event(r) ==
  CASE ~EndOfForward(r) ->
         [r EXCEPT !.evt = @ + 1, !.tick = @ + 1, !.i_it_idx = @ + 1]
    [] EndOfForward(r) /\ Training  -> [r EXCEPT !.evt = @ + 1, !.phase = B]
    [] EndOfForward(r) /\ ~Training -> i_advance_example([r EXCEPT !.tick = INIT_TICK])

if_advance_tick(r, tick_stop) ==
  IF tick_stop THEN if_advance_event(r) ELSE [r EXCEPT !.tick = @ + 1]

\* mutant: the core stays in BACKPROP
ib_advance_tick_stays(r) ==
  IF r.tick = END_TICK THEN i_advance_example([r EXCEPT !.tick = INIT_TICK])
                       ELSE [r EXCEPT !.tick = @ - 1]

ib_advance_tick(r) ==
  IF r.tick = END_TICK
    THEN i_advance_example([r EXCEPT !.tick = INIT_TICK, !.phase = F])
    ELSE [r EXCEPT !.tick = @ - 1]

\* if_process
IForward(p) ==
  LET s == p.dst[2]
  IN /\ p.kind = "fwd" /\ p.dst[1] = "I"
     /\ InTime(ic[s], p)
     /\ net' = (net \ {p}) \cup {Pkt("fwd", p.dst, T(s), p.u, FALSE, p.st)}
     /\ UNCHANGED ic

\* ib_process
IBackprop(p) ==
  LET s == p.dst[2]
  IN /\ p.kind = "bkp" /\ p.dst[1] = "I"
     /\ InTime(ic[s], p)
     /\ net' = (net \ {p}) \cup
          Multicast("bkp", p.dst, {W(s, from) : from \in Sub}, p.u, FALSE, p.st)
     /\ UNCHANGED ic

IStop(p) ==
  /\ p.kind = "stop" /\ p.dst[1] = "I"
  /\ ic' = [ic EXCEPT ![p.dst[2]] = if_advance_tick(@, p.b)]
  /\ net' = net \ {p}

ISync(p) ==
  /\ p.kind = "sync" /\ p.dst[1] = "I"
  /\ ic' = [ic EXCEPT ![p.dst[2]] = ib_advance_tick(@)]
  /\ net' = net \ {p}

INetStop(p) ==
  /\ p.kind = "stpn" /\ p.dst[1] = "I" /\ InTurn(p)
  /\ ic' = [ic EXCEPT ![p.dst[2]] = NetStop(@, p.b)]
  /\ net' = net \ {p}

IPacket(p) == IForward(p) \/ IBackprop(p) \/ IStop(p) \/ ISync(p) \/ INetStop(p)

INext == \E p \in net : IPacket(p)
=============================================================================
