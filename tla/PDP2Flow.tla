------------------------------ MODULE PDP2Flow ------------------------------
(***************************************************************************)
(* The ticks of the machine as a flow of packets over the links of the     *)
(* machine graph: PDP2 implements TickFlow.  Every link carries one packet *)
(* per tick (of its phase); what has been sent is read off the scoreboards *)
(* of the cores, what has been handled is what was sent and is not in net. *)
(*                                                                         *)
(* The second half is the invariant that makes this true: scoreboards      *)
(* count what has been handled, and nothing else.                          *)
(***************************************************************************)
EXTENDS PDP2

(***************************************************************************)
(* Links.                                                                  *)
(***************************************************************************)
Link(kind, src, dst, u) == <<kind, src, dst, u>>
LinkOf(p) == Link(p.kind, p.src, p.dst, p.u)

FwdWS(to, from, u) == Link("fwd", W(to, from), S(to), u)
FwdSI(s, u)        == Link("fwd", S(s), I(s), u)
FwdIT(s, u)        == Link("fwd", I(s), T(s), u)
FwdTW(to, from, u) == Link("fwd", T(from), W(to, from), u)
FsgnW(to, from)    == Link("fsgn", W(to, from), S(to), 0)
FsgnS(s, d)        == Link("fsgn", S(s), d, 0)
CritT(s, d)        == Link("crit", T(s), d, 0)

BkpTI(s, u)        == Link("bkp", T(s), I(s), u)
BkpIW(to, from, u) == Link("bkp", I(to), W(to, from), u)
BkpWS(to, from, u) == Link("bkp", W(to, from), S(from), u)
BkpST(s, u)        == Link("bkp", S(s), T(s), u)
BsgnS(s, d)        == Link("bsgn", S(s), d, 0)
BsgnT(s, d)        == Link("bsgn", T(s), d, 0)
LdsW(to, from, u)  == Link("lds", W(to, from), S(to), u)
LdsS(s, d)         == Link("lds", S(s), d, 0)

\* sync generation, and the criterion chain
TreeLinks(kind, roots) == UNION {{Link(kind, S(s), d, 0) : d \in FsgRoute(s)} : s \in roots}
ChainLinks(kind) == UNION {{Link(kind, T(s), d, 0) : d \in StpRoute(s)} : s \in Sub \ {LastSub}}

ForwardLinks ==
  {FwdWS(to, from, u) : to \in Sub, from \in Sub, u \in Unit}
    \cup {FwdSI(s, u) : s \in Sub, u \in Unit}
    \cup {FwdIT(s, u) : s \in Sub, u \in Unit}
    \cup {FwdTW(to, from, u) : to \in Sub, from \in Sub, u \in Unit}
    \cup {FsgnW(to, from) : to \in Sub, from \in Sub}
    \cup TreeLinks("fsgn", Sub)
    \cup ChainLinks("crit")

BackpropLinks ==
  {BkpTI(s, u) : s \in Sub, u \in Unit}
    \cup {BkpIW(to, from, u) : to \in Sub, from \in Sub, u \in Unit}
    \cup {BkpWS(to, from, u) : to \in Sub, from \in Sub, u \in Unit}
    \cup {BkpST(s, u) : s \in Sub, u \in Unit}
    \cup TreeLinks("bsgn", Sub)
    \cup ChainLinks("bsgn")

\* Doug's momentum, in the last tick of an epoch; the broadcast of the total
\* is not waited for and is left out
DeltaSumLinks ==
  {LdsW(to, from, u) : to \in Sub, from \in Sub, u \in Unit}
    \cup TreeLinks("lds", Sub \ {FirstSub})

AllLinks == ForwardLinks \cup BackpropLinks \cup DeltaSumLinks

\* the place of a core; of a packet, the stamp
Place(r) == <<r.epoch, r.example_cnt, r.phase, r.tick, r.evt>>
DeltasSummed(p) == Dougs /\ p[2] = NumExamples - 1 /\ p[4] = END_TICK

LinksOf(p) ==
  IF p[3] = F THEN ForwardLinks
  ELSE BackpropLinks \cup IF DeltasSummed(p) THEN DeltaSumLinks ELSE {}

\* links into a core
Into(kinds, c) == {l \in AllLinks : l[1] \in kinds /\ l[3] = c}
IntoUnit(kind, c, u) == {l \in AllLinks : l[1] = kind /\ l[3] = c /\ l[4] = u}

\* what its source has to have handled before a packet goes over link l
Before(x, l) ==
  \/ l[1] = "fwd" /\ l[2][1] # "W" /\ x[1] = "fwd" /\ x[4] = l[4]
  \/ l[1] = "fsgn" /\ l[2][1] = "W" /\ x[1] = "fwd"
  \/ l[1] = "fsgn" /\ l[2][1] = "S" /\ x[1] = "fsgn"
  \/ l[1] = "crit" /\ x[1] \in {"fwd", "crit"}
  \/ l[1] = "bkp" /\ l[2][1] \in {"S", "I"} /\ x[1] = "bkp" /\ x[4] = l[4]
  \/ l[1] = "bkp" /\ l[2][1] = "W" /\ x[1] = "bkp"
  \/ l[1] = "bsgn" /\ x[1] \in {"bkp", "bsgn", "lds"}
  \/ l[1] = "lds" /\ l[2][1] = "W" /\ x[1] = "bkp" /\ x[4] = l[4]
  \/ l[1] = "lds" /\ l[2][1] = "S" /\ x[1] = "lds"

LinkDeps(l) == {x \in AllLinks : x[3] = l[2] /\ Before(x, l)}

\* what the last T waits for
Awaited(p) ==
  Into(IF p[3] = F THEN {"fwd", "fsgn", "crit"} ELSE {"bkp", "bsgn"}, LastT)

(***************************************************************************)
(* The mapping.                                                            *)
(***************************************************************************)
Heading(kinds) == {p.dst : p \in {q \in net : q.kind \in kinds}}
Behind == Heading({"stop", "sync"}) \cup (IF tc[LastSub].advance THEN {LastT} ELSE {})
In(c, ph) == c \notin Behind /\ Rec(c).phase = ph

OnLink(l) == \E p \in net : LinkOf(p) = l

\* What a core has sent in this tick, FORWARD
Products(c) == In(c, F) /\ ~wc[c].wf_pending /\ ~wc[c].epoch_rdy /\ ~wc[c].done
OutputsIn(c) == In(c, F) /\ wc[c].wf_arrived = Units
NetWhole(s, u) == In(S(s), F) /\ sc[s].sf_arrived[u] = fwd_expected
NetPassed(s, u) == NetWhole(s, u) /\ ~OnLink(FwdSI(s, u))
NetUsed(s, u) == NetPassed(s, u) /\ ~OnLink(FwdIT(s, u))
FsgnIn(s) == In(S(s), F) /\ sc[s].s_fsgn_arrived = fsgn_expected(s)
CritWhole(s) ==
  /\ In(T(s), F)
  /\ tc[s].tf_arrived = Units /\ tc[s].tf_crit_arrived = crit_expected(s)

\* BACKPROP
Deltas(s) == In(T(s), B) /\ ~tc[s].tb_pending
DeltaPassed(s, u) == Deltas(s) /\ ~OnLink(BkpTI(s, u))
DeltaUsed(to, from, u) == DeltaPassed(to, u) /\ ~OnLink(BkpIW(to, from, u))
DeltasIn(c) == In(c, B) /\ wc[c].wb_arrived = Units
ErrorWhole(s, u) == In(S(s), B) /\ sc[s].sb_arrived[u] = bkp_expected
LdsIn(s) == In(S(s), B) /\ sc[s].s_lds_arrived = lds_expected(s)
SBReported(s) ==
  /\ In(S(s), B)
  /\ sc[s].sb_done = Units /\ sc[s].s_bsgn_arrived = bsgn_expected(s)
  /\ DeltasSummed(Place(sc[s])) => LdsIn(s)
TBReported(s) ==
  /\ In(T(s), B)
  /\ tc[s].tb_arrived = Units /\ tc[s].tb_bsgn_arrived = tb_bsgn_expected(s)

\* for a packet over link l
Due(l) ==
  LET c == l[2]
      u == l[4]
  IN \/ l[1] = "fwd" /\ c[1] = "W" /\ Products(c)
     \/ l[1] = "fwd" /\ c[1] = "S" /\ NetWhole(c[2], u)
     \/ l[1] = "fwd" /\ c[1] = "I" /\ NetPassed(c[2], u)
     \/ l[1] = "fwd" /\ c[1] = "T" /\ NetUsed(c[2], u)
     \/ l[1] = "fsgn" /\ c[1] = "W" /\ OutputsIn(c)
     \/ l[1] = "fsgn" /\ c[1] = "S" /\ FsgnIn(c[2])
     \/ l[1] = "crit" /\ c[1] = "T" /\ CritWhole(c[2])
     \/ l[1] = "bkp" /\ c[1] = "T" /\ Deltas(c[2])
     \/ l[1] = "bkp" /\ c[1] = "I" /\ DeltaPassed(c[2], u)
     \/ l[1] = "bkp" /\ c[1] = "W" /\ DeltasIn(c)
     \/ l[1] = "bkp" /\ c[1] = "S" /\ ErrorWhole(c[2], u)
     \/ l[1] = "bsgn" /\ c[1] = "S" /\ SBReported(c[2])
     \/ l[1] = "bsgn" /\ c[1] = "T" /\ TBReported(c[2])
     \/ l[1] = "lds" /\ c[1] = "W" /\ DeltaUsed(c[2], c[3], u) /\ DeltasSummed(Place(wc[c]))
     \/ l[1] = "lds" /\ c[1] = "S" /\ LdsIn(c[2]) /\ DeltasSummed(Place(sc[c[2]]))

Sent == {l \in AllLinks : Due(l)}
Got == {l \in Sent : ~OnLink(l)}

FlowPlaces == (0 .. NumEpochs) \X (0 .. NumExamples - 1) \X {F, B}
                \X Tick \X (0 .. NumEvents)

TickLinks == [p \in FlowPlaces |-> LinksOf(p)]
TickDeps == [l \in AllLinks |-> LinkDeps(l)]
TickFinal == [p \in FlowPlaces |-> Awaited(p)]

Flow == INSTANCE TickFlowProofs WITH
          Links    <- TickLinks,
          Deps     <- TickDeps,
          Final    <- TickFinal,
          NumTicks <- GlobalMaxTicks - 1,
          place    <- [c \in Cores |-> Place(Rec(c))],
          behind   <- Behind,
          stop     <- tc[LastSub].tick_stop,
          sent     <- Sent,
          got      <- Got,
          notices  <- Heading({"stpn"}),
          over     <- tc[LastSub].done,
          fin      <- {c \in Cores : Rec(c).done}

\* The packets of a tick go over the links of the machine graph, each when
\* what it depends on has been handled, and a tick ends when all have been.
FlowSpec == Flow!Init /\ [][Flow!Next]_(Flow!vars)

(***************************************************************************)
(* The invariant.  Packets in net.                                         *)
(***************************************************************************)
\* the packets that a tick waits for
Awaits(p) ==
  \/ p.kind \in {"fwd", "bkp", "fsgn", "bsgn", "crit"}
  \/ p.kind = "lds" /\ p.dst[1] = "S"

CurStamp == <<Flow!cur[1], Flow!cur[2], Flow!cur[3], Flow!cur[4]>>

PacketOK(p) ==
  /\ p.kind \in DataKinds \cup ControlKinds
  /\ p = Pkt(p.kind, p.src, p.dst, p.u, p.b, p.st)
  /\ p.src \in Cores /\ p.dst \in Cores /\ p.u \in Unit /\ p.b \in BOOLEAN
  /\ Awaits(p) => LinkOf(p) \in Sent /\ p.st = CurStamp
  /\ p.kind \in {"stop", "sync"} =>
       /\ p.src = LastT /\ p.dst # LastT /\ p.u = 0
       /\ p.st = Stamp(Rec(p.dst))
       /\ IF Rec(p.dst).phase = F THEN p.kind = "stop" /\ p.b = tc[LastSub].tick_stop
                                  ELSE p.kind = "sync" /\ p.b = FALSE
  /\ p.kind = "stpn" =>
       /\ p.src = LastT /\ p.dst # LastT /\ p.u = 0
       /\ p.b = tc[LastSub].done /\ p.st = CurStamp
  /\ p.kind = "lds" => Dougs /\ p.dst[1] \in {"W", "S"}

NetOK == \A p \in net : PacketOK(p)

\* the broadcast of the link delta sum
Loose(p) == p.kind = "lds" /\ p.dst[1] = "W"

\* one packet per link
OnePacket ==
  \A p, q \in net : ~Loose(p) /\ LinkOf(p) = LinkOf(q) => p = q

(***************************************************************************)
(* The end of an epoch.                                                    *)
(***************************************************************************)
Opened(c) == Flow!EpochOver(Flow!cur) /\ c \notin Behind
Told(c) == Opened(LastT) /\ c \notin Heading({"stpn"})

RendezvousOK(c) ==
  LET r == Rec(c) IN
  /\ Told(c) => r.net_stop = tc[LastSub].done
  /\ c[1] # "W" => (r.net_stop_rdy <=> Opened(c) # Told(c))
  /\ c[1] = "W" =>
       /\ r.net_stop_rdy <=> Told(c) /\ ~Opened(c)
       /\ r.epoch_rdy <=> Opened(c) /\ ~Told(c)
       /\ ~Told(c) => ~r.net_stop

EpochOK == \A c \in Cores \ {LastT} : RendezvousOK(c)

(***************************************************************************)
(* Scoreboards.                                                            *)
(***************************************************************************)
GotInto(kind, c) == Cardinality(Into({kind}, c) \cap Got)
GotUnit(kind, c, u) == Cardinality(IntoUnit(kind, c, u) \cap Got)

\* what is to be done in a tick, init, before it is reported done, when those
\* of done are: nothing that is done is pending but the last of them
ThreadsOK(pend, init, done) ==
  IF init \subseteq done THEN \E x \in init : pend = {x}
                         ELSE pend = init \ done

WCoreOK(c) ==
  LET r == wc[c] IN
  /\ r.wf_pending => In(c, F) /\ ~r.epoch_rdy /\ ~r.done
  /\ r.phase = F => r.wb_arrived = 0
  /\ r.phase = B => r.wf_arrived = 0
  /\ In(c, F) => r.wf_arrived = GotInto("fwd", c)
  /\ In(c, B) => r.wb_arrived = GotInto("bkp", c)

SBThreads(s) ==
  sb_thrds_init(s) \cup (IF DeltasSummed(Place(sc[s])) THEN {"LDSA"} ELSE {})
SBThreadsDone(s) ==
  (IF sc[s].sb_done = Units THEN {"PROC"} ELSE {})
    \cup (IF sc[s].s_bsgn_arrived = bsgn_expected(s) THEN {"BSGN"} ELSE {})
    \cup (IF sc[s].s_lds_arrived = lds_expected(s) THEN {"LDSA"} ELSE {})

SCoreOK(s) ==
  LET r == sc[s] IN
  /\ r.sb_thrds_pend \subseteq sb_thrds_init(s) \cup {"LDSA"}
  /\ r.phase = F => /\ r.sb_arrived = NoneArrived /\ r.s_bsgn_arrived = 0
                    /\ r.sb_done = 0 /\ r.s_lds_arrived = 0
                    /\ r.sb_thrds_pend = sb_thrds_init(s)
  /\ r.phase = B => r.sf_arrived = NoneArrived /\ r.s_fsgn_arrived = 0
  /\ In(S(s), F) =>
       /\ \A u \in Unit : r.sf_arrived[u] = GotUnit("fwd", S(s), u)
       /\ r.s_fsgn_arrived = GotInto("fsgn", S(s))
  /\ In(S(s), B) =>
       /\ \A u \in Unit : r.sb_arrived[u] = GotUnit("bkp", S(s), u)
       /\ r.sb_done = Cardinality({u \in Unit : r.sb_arrived[u] = bkp_expected})
       /\ r.s_bsgn_arrived = GotInto("bsgn", S(s))
       /\ r.s_lds_arrived = GotInto("lds", S(s))
       /\ ThreadsOK(r.sb_thrds_pend, SBThreads(s), SBThreadsDone(s))

TFThreadsDone(s) ==
  (IF tc[s].tf_arrived = Units THEN {"PROC"} ELSE {})
    \cup (IF tc[s].tf_crit_arrived = crit_expected(s) THEN {"CRIT"} ELSE {})
    \cup (IF Into({"fsgn"}, T(s)) \subseteq Got THEN {"FSGN"} ELSE {})

TBThreadsDone(s) ==
  (IF tc[s].tb_arrived = Units THEN {"COMS"} ELSE {})
    \cup (IF tc[s].tb_bsgn_arrived = tb_bsgn_expected(s) THEN {"BSGN"} ELSE {})

TCoreOK(s) ==
  LET r == tc[s] IN
  /\ r.tf_thrds_pend \subseteq tf_thrds_init(s)
  /\ r.tb_thrds_pend \subseteq tb_thrds_init(s)
  /\ r.advance => s = LastSub
  /\ r.tb_pending => In(T(s), B)
  /\ r.phase = F => /\ r.tb_arrived = 0 /\ r.tb_bsgn_arrived = 0
                    /\ r.tb_thrds_pend = tb_thrds_init(s)
  /\ r.phase = B => /\ r.tf_arrived = 0 /\ r.tf_crit_arrived = 0
                    /\ r.tf_thrds_pend = tf_thrds_init(s)
  /\ In(T(s), F) =>
       /\ r.tf_arrived = GotInto("fwd", T(s))
       /\ r.tf_crit_arrived = GotInto("crit", T(s))
       /\ ThreadsOK(r.tf_thrds_pend, tf_thrds_init(s), TFThreadsDone(s))
       /\ s = LastSub => ~(tf_thrds_init(s) \subseteq TFThreadsDone(s))
  /\ In(T(s), B) =>
       /\ r.tb_arrived = GotInto("bkp", T(s))
       /\ r.tb_bsgn_arrived = GotInto("bsgn", T(s))
       /\ ThreadsOK(r.tb_thrds_pend, tb_thrds_init(s), TBThreadsDone(s))
       /\ s = LastSub => ~(tb_thrds_init(s) \subseteq TBThreadsDone(s))

CoresOK ==
  /\ \A c \in WCores : WCoreOK(c)
  /\ \A s \in Sub : SCoreOK(s) /\ TCoreOK(s)

(***************************************************************************)
(* With Doug's momentum, a FORWARD phase has more than one tick: the TODO  *)
(* of sf_advance_event is about the case that it has not.                  *)
(***************************************************************************)
LongPhases == Dougs => MinTicks > 1 /\ MaxTicks > 1 /\ GlobalMaxTicks > 2

PacedOK ==
  Dougs =>
    /\ tc[LastSub].phase = F /\ tc[LastSub].tick = INIT_TICK =>
         tc[LastSub].ev_tick = INIT_TICK
    /\ \A c \in Behind :
         Rec(c).phase = F /\ Rec(c).tick = INIT_TICK => ~tc[LastSub].tick_stop

(***************************************************************************)
(* Records.                                                                *)
(***************************************************************************)
StartFields ==
  {"phase", "tick", "evt", "example_cnt", "epoch", "net_stop", "net_stop_rdy", "done"}
StartShape(r) == r.net_stop \in BOOLEAN /\ r.net_stop_rdy \in BOOLEAN /\ r.done \in BOOLEAN

WShape(r) ==
  /\ DOMAIN r = StartFields \cup
       {"wf_procs", "wf_arrived", "wb_arrived", "w_outputs", "w_output_history",
        "w_errors", "w_link_deltas", "w_lds_final", "epoch_rdy", "wf_pending"}
  /\ StartShape(r)
  /\ r.wf_procs \in 0 .. 1 /\ r.epoch_rdy \in BOOLEAN /\ r.wf_pending \in BOOLEAN

SShape(r) ==
  /\ DOMAIN r = StartFields \cup
       {"s_nets", "sf_arrived", "s_fsgn_arrived", "s_errors", "sb_arrived", "sb_done",
        "s_bsgn_arrived", "sb_thrds_pend", "s_lds_part", "s_lds_arrived"}
  /\ StartShape(r)
  /\ DOMAIN r.sf_arrived = Unit /\ DOMAIN r.sb_arrived = Unit

IShape(r) == DOMAIN r = StartFields \cup {"i_it_idx"} /\ StartShape(r)

TShape(r) ==
  /\ DOMAIN r = StartFields \cup
       {"ev_tick", "max_evt", "tf_arrived", "tf_crit_arrived", "tf_thrds_pend", "tf_met",
        "tf_crit_prev", "tf_stop_crit", "tf_group_crit", "tf_event_crit",
        "tf_example_crit", "tb_arrived", "tb_bsgn_arrived", "tb_thrds_pend", "tb_procs",
        "t_errors", "t_outputs", "t_output_history", "tick_stop", "advance", "tb_pending"}
  /\ StartShape(r)
  /\ r.tb_procs \in 0 .. 1
  /\ r.tick_stop \in BOOLEAN /\ r.advance \in BOOLEAN /\ r.tb_pending \in BOOLEAN

ShapeOK ==
  /\ DOMAIN wc = WCores /\ \A c \in WCores : WShape(wc[c])
  /\ DOMAIN sc = Sub /\ \A s \in Sub : SShape(sc[s])
  /\ DOMAIN ic = Sub /\ \A s \in Sub : IShape(ic[s])
  /\ DOMAIN tc = Sub /\ \A s \in Sub : TShape(tc[s])

MachineInv == NetOK /\ OnePacket /\ EpochOK /\ CoresOK /\ PacedOK /\ ShapeOK

(***************************************************************************)
(* Sums.  What a sum core has added up is what it has handled in the tick  *)
(* it is in: of every link, the packet of this tick, once.                 *)
(***************************************************************************)
HandledUnit(kind, c, u) == {l \in Flow!Handled(c) : l[1] = kind /\ l[4] = u}
HandledKind(kind, c) == {l \in Flow!Handled(c) : l[1] = kind}

Parts(X, st) == SetToBag({<<l[2], st>> : l \in X})
UnitParts(X, st) == SetToBag({<<l[2], l[4], st>> : l \in X})

SumsOK(s) ==
  LET r == sc[s] IN
  /\ DOMAIN r.s_nets = Unit /\ DOMAIN r.s_errors = Unit
  /\ \A u \in Unit :
       /\ r.s_nets[u] = Parts(HandledUnit("fwd", S(s), u), Stamp(r))
       /\ r.s_errors[u] = Parts(HandledUnit("bkp", S(s), u), Stamp(r))
  /\ r.s_lds_part = UnitParts(HandledKind("lds", S(s)), Stamp(r))
  /\ r.s_lds_arrived = Cardinality(HandledKind("lds", S(s)))

SumsInv == \A s \in Sub : SumsOK(s)

(***************************************************************************)
(* What a core computes with.  came: the units whose output (in BACKPROP,  *)
(* whose delta) of the tick it is in it has handled.                       *)
(***************************************************************************)
Came(kind, c) == {l[4] : l \in HandledKind(kind, c)}

OutputOf(r, k) == <<r.epoch, r.example_cnt, F, k>>

\* A weight core computes with the outputs of the tick before; those of this
\* tick are in the other buffer, and in the history, as far as they have come.
OutputsOK(r, came) ==
  /\ DOMAIN r.w_outputs = 0 .. 1 /\ \A b \in 0 .. 1 : DOMAIN r.w_outputs[b] = Unit
  /\ DOMAIN r.w_output_history = 0 .. GlobalMaxTicks - 1
  /\ \A k \in 0 .. GlobalMaxTicks - 1 : DOMAIN r.w_output_history[k] = Unit
  /\ \A i \in Unit : r.w_output_history[0][i] = Zero
  /\ r.phase = F => \A i \in Unit :
       /\ r.w_outputs[r.wf_procs][i] = TickBefore(Stamp(r))
       /\ \A k \in INIT_TICK .. r.tick - 1 : r.w_output_history[k][i] = OutputOf(r, k)
       /\ i \in came => /\ r.w_outputs[wf_comms(r)][i] = Stamp(r)
                        /\ r.w_output_history[r.tick][i] = Stamp(r)
  /\ r.phase = B => \A i \in Unit :
       /\ r.w_outputs[0][i] = IF r.tick = INIT_TICK THEN Zero ELSE TickBefore(Stamp(r))
       /\ \A k \in INIT_TICK .. r.tick : r.w_output_history[k][i] = OutputOf(r, k)

OutputsInv == \A c \in WCores : OutputsOK(wc[c], Came("fwd", c))

\* Entries of a history at tick k: of this example or an earlier one, or of
\* an earlier one.
NotLater(x, k, r) ==
  x = Zero \/ \E e \in 0 .. NumEpochs, n \in 0 .. NumExamples - 1 :
                x = <<e, n, F, k>> /\ (e < r.epoch \/ (e = r.epoch /\ n <= r.example_cnt))
Earlier(x, k, r) == NotLater(x, k, r) /\ x # OutputOf(r, k)

\* the ticks from k on
From(k) == k .. GlobalMaxTicks - 1

\* A threshold core computes deltas with the outputs of the tick,
TOutputsOK(r, came) ==
  /\ DOMAIN r.t_outputs = Unit
  /\ DOMAIN r.t_output_history = Tick /\ \A k \in Tick : DOMAIN r.t_output_history[k] = Unit
  /\ \A k \in Tick, u \in Unit : NotLater(r.t_output_history[k][u], k, r)
  /\ r.phase = F => \A u \in Unit :
       /\ IF u \in came
            THEN /\ r.t_outputs[u] = Stamp(r)
                 /\ Training => r.t_output_history[r.tick][u] = Stamp(r)
            ELSE Earlier(r.t_output_history[r.tick][u], r.tick, r)
       /\ Training => \A k \in INIT_TICK .. r.tick - 1 : r.t_output_history[k][u] = OutputOf(r, k)
       /\ \A k \in From(r.tick + 1) : Earlier(r.t_output_history[k][u], k, r)
  /\ r.phase = B => \A u \in Unit :
       /\ r.t_outputs[u] = OutputOf(r, r.tick)
       /\ \A k \in INIT_TICK .. r.tick : r.t_output_history[k][u] = OutputOf(r, k)

\* and with the errors of the tick above, or with none in the tick the FORWARD
\* phase ended with.
TErrorsOK(r, came) ==
  /\ DOMAIN r.t_errors = 0 .. 1 /\ \A b \in 0 .. 1 : DOMAIN r.t_errors[b] = Unit
  /\ r.phase = B =>
       /\ \/ \A u \in Unit : r.t_errors[r.tb_procs][u] = <<r.epoch, r.example_cnt, B, r.tick + 1>>
          \/ \A u \in Unit :
               /\ r.t_errors[r.tb_procs][u] = Zero
               /\ \A k \in From(r.tick + 1) : Earlier(r.t_output_history[k][u], k, r)
       /\ \A u \in Unit : u \in came => r.t_errors[tb_comms(r)][u] = Stamp(r)

DeltasInv ==
  \A s \in Sub : TOutputsOK(tc[s], Came("fwd", T(s))) /\ TErrorsOK(tc[s], Came("bkp", T(s)))

\* In the BACKPROP phase of an example that went FORWARD to tick last, a weight
\* core has added up the products of the ticks above, and of the deltas of
\* this tick that have come; of every earlier example of the epoch, some.
Product(r, i, u, k) ==
  <<i, u, IF k = INIT_TICK THEN Zero ELSE OutputOf(r, k - 1), <<r.epoch, r.example_cnt, B, k>>>>

Added(r, came, last) ==
  {Product(r, i, u, k) : i \in Unit, u \in Unit, k \in r.tick + 1 .. last}
    \cup {Product(r, i, u, r.tick) : i \in Unit, u \in came}

\* the ticks of the example's FORWARD phase, 1 to last, are those in the history
WentTo(r, last) ==
  \A i \in Unit :
    /\ \A k \in INIT_TICK .. last : r.w_output_history[k][i] = OutputOf(r, k)
    /\ \A k \in From(last + 1) : Earlier(r.w_output_history[k][i], k, r)

LinkDeltasOK(r, outputs, deltas) ==
  LET D == DOMAIN r.w_link_deltas
      added == {x \in D : x[4][2] = r.example_cnt}
  IN /\ \A k \in Tick, i \in Unit : NotLater(r.w_output_history[k][i], k, r)
     /\ r.phase = F =>
          /\ \A i \in Unit :
               /\ i \notin outputs => Earlier(r.w_output_history[r.tick][i], r.tick, r)
               /\ \A k \in From(r.tick + 1) : Earlier(r.w_output_history[k][i], k, r)
          /\ added = {}
     /\ r.phase = B =>
          \E last \in From(r.tick) : WentTo(r, last) /\ added = Added(r, deltas, last)
     /\ r.phase = B => Training
     /\ ~Training => D = {}
     /\ r.w_link_deltas = SetToBag(D)
     /\ \A x \in D : x[4][1] = r.epoch /\ x[4][2] \in 0 .. r.example_cnt
     /\ Training => \A n \in 0 .. r.example_cnt - 1 : \E x \in D : x[4][2] = n

LinkDeltasInv == \A c \in WCores : LinkDeltasOK(wc[c], Came("fwd", c), Came("bkp", c))

(***************************************************************************)
(* Stop criteria.  heard: the cores of the criterion chain whose packets   *)
(* of the tick it is in a threshold core has handled.                      *)
(***************************************************************************)
Heard(s) == {l[2][2] : l \in HandledKind("crit", T(s))}

\* the verdict of a core on its own outputs
OwnVerdict(s, r) == (\A u \in Unit : r.tf_met[u]) /\ (IsOutput(s) \/ ~FirstTick(r))

\* a core reports when it has found and heard all; not so the last one
Reported(s) == CritWhole(s) /\ ~IsLast(s)

FreshCriteria(r) == (\A u \in Unit : r.tf_met[u]) /\ r.tf_crit_prev /\ r.tf_stop_crit

\* In a FORWARD tick a threshold core holds its own verdict and that of the
\* cores it has heard from; when it has reported, the conjunction of both.
CriteriaOK(s) ==
  LET r == tc[s] IN
  /\ r.tf_met \in [Unit -> BOOLEAN]
  /\ r.tf_stop_crit \in BOOLEAN /\ r.tf_crit_prev \in BOOLEAN
  /\ ~IsOutput(s) => \A u \in Unit : r.tf_met[u]
  /\ r.phase = B => FreshCriteria(r)
  /\ In(T(s), F) =>
       /\ \A u \in Unit : u \notin Came("fwd", T(s)) => r.tf_met[u]
       /\ r.tf_crit_prev <=> \A t \in Heard(s) : tc[t].tf_stop_crit
       /\ r.tf_stop_crit <=> OwnVerdict(s, r) /\ (Reported(s) => r.tf_crit_prev)

\* a criterion packet holds what its sender has found
VerdictOK(p) == p.kind = "crit" => p.b = tc[p.src[2]].tf_stop_crit

CriteriaInv == (\A s \in Sub : CriteriaOK(s)) /\ \A p \in net : VerdictOK(p)
=============================================================================
