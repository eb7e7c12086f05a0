------------------------------ MODULE PDP2Proofs ------------------------------
(***************************************************************************)
(* Spec => []FlowAndMachine, and what follows from it: the machine         *)
(* implements TickFlow and the tick barrier, and the invariants of PDP2    *)
(* about ticks and stages hold.  The steps inside a tick are those of      *)
(* PDP2StepProofs; here come the steps between ticks.  At the end, what    *)
(* a core has handled of its tick, and the sums of the sum cores: they are *)
(* the packets handled, one of each link (SumsInv of PDP2Flow), and of all *)
(* links when a scoreboard is full.                                        *)
(***************************************************************************)
EXTENDS PDP2StepProofs

(***************************************************************************)
(* Steps between the ticks: a core leaves a tick, is told of the end of an *)
(* epoch, or handles the link delta total, which no tick waits for.  No    *)
(* packet of a tick is sent or taken.                                      *)
(***************************************************************************)
Quiet(a, D, E) ==
  /\ a \in Cores /\ Others(a)
  /\ net' = (net \ D) \cup E /\ D \subseteq net
  /\ \A p \in D : p.dst = a /\ (p.kind \in {"stop", "sync", "stpn"} \/ Loose(p))
  /\ \A e \in E : e.kind = "stpn"
  /\ Behind' \in {Behind, Behind \ {a}}

\* of the scoreboards of core a, what is due shows no difference
OwnSame(a) ==
  /\ a \in WCores =>
       /\ Products(a)' <=> Products(a)
       /\ OutputsIn(a)' <=> OutputsIn(a)
       /\ DeltasIn(a)' <=> DeltasIn(a)
       /\ a \in Behind \/ Place(wc'[a]) = Place(wc[a])
  /\ \A s \in Sub :
       /\ a = S(s) =>
            /\ \A u \in Unit : /\ NetWhole(s, u)' <=> NetWhole(s, u)
                               /\ ErrorWhole(s, u)' <=> ErrorWhole(s, u)
            /\ FsgnIn(s)' <=> FsgnIn(s)
            /\ SBReported(s)' <=> SBReported(s)
            /\ LdsIn(s)' /\ DeltasSummed(Place(sc'[s])) <=> LdsIn(s) /\ DeltasSummed(Place(sc[s]))
       /\ a = T(s) =>
            /\ CritWhole(s)' <=> CritWhole(s)
            /\ Deltas(s)' <=> Deltas(s)
            /\ TBReported(s)' <=> TBReported(s)

\* No link gets or loses a packet,
LEMMA QuietLinks ==
  ASSUME NEW a, NEW D, NEW E, Quiet(a, D, E), NEW x \in AllLinks
  PROVE  OnLink(x)' <=> OnLink(x)
<1>1. ASSUME NEW p, p.kind \in {"stop", "sync", "stpn"} \/ Loose(p)
      PROVE  LinkOf(p) # x
  <2>1. LinkOf(p)[1] = p.kind
    BY LinkApart DEF LinkOf
  <2>2. x[1] \notin {"stop", "sync", "stpn"}
    BY LinkClass DEF AllLinks
  <2> QED BY <1>1, <2>1, <2>2, NotLoose
<1> QED BY <1>1 DEF OnLink, Quiet

\* the other cores stay as they are,
LEMMA QuietFrame ==
  ASSUME NEW a, NEW D, NEW E, Quiet(a, D, E)
  PROVE  /\ \A c \in Cores : c # a => /\ Rec(c)' = Rec(c)
                                      /\ \A ph : In(c, ph)' <=> In(c, ph)
         /\ \A c \in WCores : c # a => wc'[c] = wc[c]
         /\ \A s \in Sub : /\ S(s) # a => sc'[s] = sc[s]
                           /\ I(s) # a => ic'[s] = ic[s]
                           /\ T(s) # a => tc'[s] = tc[s]
<1>1. Others(a) /\ Behind' \in {Behind, Behind \ {a}}
  BY DEF Quiet
<1>2. \A c \in Cores : c # a => Rec(c)' = Rec(c)
  BY <1>1, CoreKinds, RecFacts DEF Others
<1>3. \A c \in Cores : c # a => \A ph : In(c, ph)' <=> In(c, ph)
  BY <1>1, <1>2 DEF In
<1> QED BY <1>1, <1>2, <1>3 DEF Others

\* the boards and places that Due looks at
QuietBoards(s, t) ==
  /\ Products(W(s, t))' <=> Products(W(s, t))
  /\ OutputsIn(W(s, t))' <=> OutputsIn(W(s, t))
  /\ DeltasIn(W(s, t))' <=> DeltasIn(W(s, t))
  /\ W(s, t) \in Behind \/ Place(wc'[W(s, t)]) = Place(wc[W(s, t)])
  /\ \A u \in Unit : /\ NetWhole(s, u)' <=> NetWhole(s, u)
                     /\ ErrorWhole(s, u)' <=> ErrorWhole(s, u)
  /\ FsgnIn(s)' <=> FsgnIn(s)
  /\ SBReported(s)' <=> SBReported(s)
  /\ LdsIn(s)' /\ DeltasSummed(Place(sc'[s])) <=> LdsIn(s) /\ DeltasSummed(Place(sc[s]))
  /\ CritWhole(s)' <=> CritWhole(s)
  /\ Deltas(s)' <=> Deltas(s)
  /\ TBReported(s)' <=> TBReported(s)

\* what the core itself has sent is as before,
LEMMA QuietBoardsFact ==
  ASSUME NEW a, NEW D, NEW E, Quiet(a, D, E), OwnSame(a), NEW s \in Sub, NEW t \in Sub
  PROVE  QuietBoards(s, t)
<1>1. W(s, t) \in WCores /\ W(s, t) \in Cores /\ S(s) \in Cores /\ T(s) \in Cores
  BY CoreFacts
<1>2. /\ W(s, t) # a => wc'[W(s, t)] = wc[W(s, t)] /\ \A ph : In(W(s, t), ph)' <=> In(W(s, t), ph)
      /\ S(s) # a => sc'[s] = sc[s] /\ \A ph : In(S(s), ph)' <=> In(S(s), ph)
      /\ T(s) # a => tc'[s] = tc[s] /\ \A ph : In(T(s), ph)' <=> In(T(s), ph)
  BY <1>1, QuietFrame
<1>3. /\ Products(W(s, t))' <=> Products(W(s, t))
      /\ OutputsIn(W(s, t))' <=> OutputsIn(W(s, t))
      /\ DeltasIn(W(s, t))' <=> DeltasIn(W(s, t))
      /\ W(s, t) \in Behind \/ Place(wc'[W(s, t)]) = Place(wc[W(s, t)])
  <2>1. CASE W(s, t) = a
    BY <1>1, <2>1 DEF OwnSame
  <2>2. CASE W(s, t) # a
    BY <1>2, <2>2 DEF Products, OutputsIn, DeltasIn
  <2> QED BY <2>1, <2>2
<1>4. /\ \A u \in Unit : /\ NetWhole(s, u)' <=> NetWhole(s, u)
                         /\ ErrorWhole(s, u)' <=> ErrorWhole(s, u)
      /\ FsgnIn(s)' <=> FsgnIn(s)
      /\ SBReported(s)' <=> SBReported(s)
      /\ LdsIn(s)' /\ DeltasSummed(Place(sc'[s])) <=> LdsIn(s) /\ DeltasSummed(Place(sc[s]))
  <2>1. CASE S(s) = a
    BY <2>1 DEF OwnSame
  <2>2. CASE S(s) # a
    BY <1>2, <2>2 DEF NetWhole, ErrorWhole, FsgnIn, SBReported, LdsIn
  <2> QED BY <2>1, <2>2
<1>5. /\ CritWhole(s)' <=> CritWhole(s)
      /\ Deltas(s)' <=> Deltas(s)
      /\ TBReported(s)' <=> TBReported(s)
  <2>1. CASE T(s) = a
    BY <2>1 DEF OwnSame
  <2>2. CASE T(s) # a
    BY <1>2, <2>2 DEF CritWhole, Deltas, TBReported
  <2> QED BY <2>1, <2>2
<1> QED BY <1>3, <1>4, <1>5 DEF QuietBoards

\* so nothing is sent or handled.
LEMMA QuietSent ==
  ASSUME FlowAndMachine, NEW a, NEW D, NEW E, Quiet(a, D, E), OwnSame(a)
  PROVE  Sent' = Sent /\ Got' = Got
<1>1. \A x \in AllLinks : OnLink(x)' <=> OnLink(x)
  BY QuietLinks
<1>2. \A s, t \in Sub : QuietBoards(s, t)
  BY QuietBoardsFact
<1>3. DueTable /\ DueTable' /\ ByGot /\ ByGot'
  BY DueByLink, ChainsByGot, PTL
<1>4. ASSUME NEW s \in Sub, NEW u \in Unit
      PROVE  /\ NetPassed(s, u)' <=> NetPassed(s, u)
             /\ NetUsed(s, u)' <=> NetUsed(s, u)
             /\ DeltaPassed(s, u)' <=> DeltaPassed(s, u)
             /\ \A t \in Sub : DeltaUsed(s, t, u)' <=> DeltaUsed(s, t, u)
  <2>1. /\ FwdSI(s, u) \in AllLinks /\ BkpTI(s, u) \in AllLinks /\ FwdIT(s, u) \in AllLinks
        /\ \A t \in Sub : BkpIW(s, t, u) \in AllLinks
    BY ForwardIntro, BackpropIntro DEF AllLinks
  <2>2. (NetWhole(s, u)' <=> NetWhole(s, u)) /\ (Deltas(s)' <=> Deltas(s))
    BY <1>2 DEF QuietBoards
  <2>3. NetPassed(s, u)' <=> NetPassed(s, u)
    BY <1>1, <2>1, <2>2 DEF NetPassed
  <2>4. DeltaPassed(s, u)' <=> DeltaPassed(s, u)
    BY <1>1, <2>1, <2>2 DEF DeltaPassed
  <2> QED BY <1>1, <2>1, <2>3, <2>4 DEF NetUsed, DeltaUsed
<1>5. ASSUME NEW s \in Sub, NEW t \in Sub, NEW u \in Unit
      PROVE  Due(LdsW(s, t, u))' <=> Due(LdsW(s, t, u))
  <2>1. CASE Place(wc'[W(s, t)]) = Place(wc[W(s, t)])
    BY <1>3, <1>4, <2>1 DEF DueTable
  <2>2. CASE W(s, t) \in Behind
    <3>1. BkpIW(s, t, u) \notin Got
      BY <2>2, FlowFacts, LinkTable DEF FlowAndMachine
    <3>2. ~DeltaUsed(s, t, u)
      BY <1>3, <3>1 DEF ByGot
    <3> QED BY <1>3, <1>4, <3>2 DEF DueTable
  <2> QED BY <1>2, <2>1, <2>2 DEF QuietBoards
<1>6. \A x \in AllLinks : Due(x)' <=> Due(x)
  <2> SUFFICES ASSUME NEW x \in AllLinks PROVE Due(x)' <=> Due(x)
    OBVIOUS
  <2>1. CASE x \in ForwardLinks
    <3>1. ForwardKind(x)
      BY <2>1, ForwardElim
    <3> QED BY <1>2, <1>3, <1>4, <3>1, UnitFacts DEF ForwardKind, DueTable, QuietBoards
  <2>2. CASE x \in BackpropLinks
    <3>1. BackpropKind(x)
      BY <2>2, BackpropElim
    <3> QED BY <1>2, <1>3, <1>4, <3>1, UnitFacts DEF BackpropKind, DueTable, QuietBoards
  <2>3. CASE x \in DeltaSumLinks
    <3>1. DeltaSumKind(x)
      BY <2>3, DeltaSumElim
    <3> QED BY <1>2, <1>3, <1>5, <3>1, UnitFacts DEF DeltaSumKind, DueTable, QuietBoards
  <2> QED BY <2>1, <2>2, <2>3 DEF AllLinks
<1> QED BY <1>1, <1>6 DEF Sent, Got

\* The scoreboards of all cores,
LEMMA QuietOthers ==
  ASSUME FlowAndMachine, NEW a, NEW D, NEW E, Quiet(a, D, E), OwnSame(a), CoreOK(a)'
  PROVE  CoresOK' /\ ShapeOK'
<1>1. Got' = Got
  BY QuietSent
<1>2. \A k, c, u : GotInto(k, c)' = GotInto(k, c) /\ GotUnit(k, c, u)' = GotUnit(k, c, u)
  BY <1>1 DEF GotInto, GotUnit
<1>3. CoresOK /\ ShapeOK
  BY DEF FlowAndMachine, MachineInv
<1>4. Others(a) /\ a \in Cores
  BY DEF Quiet
<1>5. ASSUME NEW c \in WCores
      PROVE  WCoreOK(c)' /\ WShape(wc'[c])
  <2>1. CASE c = a
    BY <2>1 DEF CoreOK
  <2>2. CASE c # a
    <3>1. wc'[c] = wc[c] /\ \A ph : In(c, ph)' <=> In(c, ph)
      BY <2>2, QuietFrame, RecFacts
    <3>2. WCoreOK(c) /\ WShape(wc[c])
      BY <1>3 DEF CoresOK, ShapeOK
    <3> QED BY <1>2, <3>1, <3>2 DEF WCoreOK
  <2> QED BY <2>1, <2>2
<1>6. ASSUME NEW s \in Sub
      PROVE  SCoreOK(s)' /\ SShape(sc'[s])
  <2>1. CASE S(s) = a
    BY <2>1 DEF CoreOK
  <2>2. CASE S(s) # a
    <3>1. sc'[s] = sc[s] /\ \A ph : In(S(s), ph)' <=> In(S(s), ph)
      BY <2>2, QuietFrame, CoreFacts
    <3>2. SCoreOK(s) /\ SShape(sc[s])
      BY <1>3 DEF CoresOK, ShapeOK
    <3>3. SBThreads(s)' = SBThreads(s) /\ SBThreadsDone(s)' = SBThreadsDone(s)
      BY <3>1 DEF SBThreads, SBThreadsDone
    <3> QED BY <1>2, <3>1, <3>2, <3>3 DEF SCoreOK
  <2> QED BY <2>1, <2>2
<1>7. ASSUME NEW s \in Sub
      PROVE  IShape(ic'[s])
  <2>1. IShape(ic[s])
    BY <1>3 DEF ShapeOK
  <2> QED BY <1>4, <2>1 DEF CoreOK, Others
<1>8. ASSUME NEW s \in Sub
      PROVE  TCoreOK(s)' /\ TShape(tc'[s])
  <2>1. CASE T(s) = a
    BY <2>1 DEF CoreOK
  <2>2. CASE T(s) # a
    <3>1. tc'[s] = tc[s] /\ \A ph : In(T(s), ph)' <=> In(T(s), ph)
      BY <2>2, QuietFrame, CoreFacts
    <3>2. TCoreOK(s) /\ TShape(tc[s])
      BY <1>3 DEF CoresOK, ShapeOK
    <3>3. TFThreadsDone(s)' = TFThreadsDone(s) /\ TBThreadsDone(s)' = TBThreadsDone(s)
      BY <1>1, <3>1 DEF TFThreadsDone, TBThreadsDone
    <3> QED BY <1>2, <3>1, <3>2, <3>3 DEF TCoreOK
  <2> QED BY <2>1, <2>2
<1>9. /\ DOMAIN wc' = WCores /\ DOMAIN sc' = Sub /\ DOMAIN ic' = Sub /\ DOMAIN tc' = Sub
  BY <1>3, <1>4 DEF Others, ShapeOK
<1>10. CoresOK'
  BY <1>5, <1>6, <1>8 DEF CoresOK
<1>11. ShapeOK'
  BY <1>5, <1>6, <1>7, <1>8, <1>9 DEF ShapeOK
<1> QED BY <1>10, <1>11

\* the network stop packets of E
Notices(E) ==
  /\ \A e, f \in E : e.dst = f.dst => e = f
  /\ E # {} => Heading({"stpn"}) = {}

\* the packets in the fabric,
LEMMA QuietNet ==
  ASSUME FlowAndMachine, NEW a, NEW D, NEW E, Quiet(a, D, E), OwnSame(a),
         CurStamp' = CurStamp, tc'[LastSub].tick_stop = tc[LastSub].tick_stop,
         tc'[LastSub].done = tc[LastSub].done \/ Heading({"stpn"}) = {},
         a \in Behind' => Place(Rec(a)') = Place(Rec(a)),
         \A e \in E : PacketOK(e)', Notices(E)
  PROVE  NetOK' /\ OnePacket'
<1>1. Sent' = Sent
  BY QuietSent
<1>2. net' = (net \ D) \cup E /\ \A e \in E : e.kind = "stpn"
  BY DEF Quiet
<1>3. ASSUME NEW p \in net \ D
      PROVE  PacketOK(p)'
  <2>1. PacketOK(p)
    BY DEF FlowAndMachine, MachineInv, NetOK
  <2>2. p.kind \in {"stop", "sync"} =>
          Stamp(Rec(p.dst))' = Stamp(Rec(p.dst)) /\ Rec(p.dst)'.phase = Rec(p.dst).phase
    <3> SUFFICES ASSUME p.kind \in {"stop", "sync"}
                 PROVE  Stamp(Rec(p.dst))' = Stamp(Rec(p.dst)) /\ Rec(p.dst)'.phase = Rec(p.dst).phase
      OBVIOUS
    <3>1. p.dst \in Cores
      BY <2>1 DEF PacketOK
    <3>2. p.dst \in Behind'
      BY <1>2 DEF Behind, Heading
    <3>3. Place(Rec(p.dst)') = Place(Rec(p.dst))
      BY <3>1, <3>2, QuietFrame
    <3> QED BY <3>3 DEF Place, Stamp
  <2>3. p.kind = "stpn" => tc'[LastSub].done = tc[LastSub].done
    BY DEF Heading
  <2> QED BY <1>1, <2>1, <2>2, <2>3 DEF PacketOK
<1>4. NetOK'
  BY <1>2, <1>3 DEF NetOK
<1>5. OnePacket'
  <2> SUFFICES ASSUME NEW p \in net', NEW q \in net', ~Loose(p), LinkOf(p) = LinkOf(q)
               PROVE  p = q
    BY DEF OnePacket
  <2>1. p.kind = q.kind /\ p.dst = q.dst
    BY LinkApart DEF LinkOf
  <2>2. CASE p \in net /\ q \in net
    BY <2>2 DEF FlowAndMachine, MachineInv, OnePacket
  <2>3. CASE p \in E /\ q \in E
    BY <2>1, <2>3 DEF Notices
  <2>4. CASE (p \in E /\ q \in net) \/ (p \in net /\ q \in E)
    BY <1>2, <2>1, <2>4 DEF Notices, Heading
  <2> QED BY <1>2, <2>2, <2>3, <2>4
<1> QED BY <1>4, <1>5

\* the packet that tells a core to go on, or of the end of an epoch, is the
\* only one it has
LEMMA HeadingTaken ==
  ASSUME FlowAndMachine, NEW p \in net, net' = net \ {p}
  PROVE  /\ p.kind \in {"stop", "sync"} =>
              /\ Heading({"stop", "sync"})' = Heading({"stop", "sync"}) \ {p.dst}
              /\ Heading({"stpn"})' = Heading({"stpn"})
         /\ p.kind = "stpn" =>
              /\ Heading({"stpn"})' = Heading({"stpn"}) \ {p.dst}
              /\ Heading({"stop", "sync"})' = Heading({"stop", "sync"})
         /\ p.kind \notin {"stop", "sync", "stpn"} =>
              /\ Heading({"stpn"})' = Heading({"stpn"})
              /\ Heading({"stop", "sync"})' = Heading({"stop", "sync"})
<1>1. ASSUME NEW q \in net, q.dst = p.dst,
             \/ q.kind \in {"stop", "sync"} /\ p.kind \in {"stop", "sync"}
             \/ q.kind = "stpn" /\ p.kind = "stpn"
      PROVE  q = p
  <2>1. PacketOK(p) /\ PacketOK(q)
    BY DEF FlowAndMachine, MachineInv, NetOK
  <2>2. p.src = LastT /\ q.src = LastT /\ p.u = 0 /\ q.u = 0
    BY <1>1, <2>1 DEF PacketOK
  <2>3. p.kind = q.kind
    BY <1>1, <2>1 DEF PacketOK
  <2>4. LinkOf(p) = LinkOf(q)
    BY <1>1, <2>2, <2>3 DEF LinkOf
  <2>5. ~Loose(p)
    BY <1>1 DEF Loose
  <2> QED BY <2>4, <2>5 DEF FlowAndMachine, MachineInv, OnePacket
<1> QED BY <1>1 DEF Heading

\* the current tick,
LEMMA CurKept ==
  ASSUME NEW a, NEW D, NEW E, Quiet(a, D, E), a # LastT,
         tc'[LastSub].tick_stop = tc[LastSub].tick_stop
  PROVE  cur' = cur /\ CurStamp' = CurStamp
<1>1. LastT \in Cores
  BY CoreFacts, LastSubFacts
<1>2. Rec(LastT)' = Rec(LastT)
  BY <1>1, QuietFrame
<1>3. LastT \in Behind' <=> LastT \in Behind
  BY DEF Quiet
<1>4. cur' = cur
  BY <1>1, <1>2, <1>3 DEF cur, Flow!cur, Flow!NextPlace, Flow!NextExample, Flow!EndOfForward
<1> QED BY <1>4 DEF CurStamp, cur

\* the end of the epoch,
LEMMA EpochKept ==
  ASSUME FlowAndMachine, NEW a, NEW D, Quiet(a, D, {}), a # LastT, RendezvousOK(a)',
         tc'[LastSub].tick_stop = tc[LastSub].tick_stop,
         Heading({"stpn"})' \in {Heading({"stpn"}), Heading({"stpn"}) \ {a}}
  PROVE  EpochOK' /\ tc'[LastSub].done = tc[LastSub].done
<1>1. LastT \in Cores /\ LastSub \in Sub /\ LastT = T(LastSub)
  BY CoreFacts, LastSubFacts DEF LastT
<1>2. tc'[LastSub] = tc[LastSub]
  BY <1>1, QuietFrame
<1>3. cur' = cur
  BY CurKept
<1>4. ASSUME NEW c \in Cores, c # a
      PROVE  Opened(c)' = Opened(c) /\ Told(c)' = Told(c)
  <2>1. c \in Behind' <=> c \in Behind
    BY <1>4 DEF Quiet
  <2>2. LastT \in Behind' <=> LastT \in Behind
    BY DEF Quiet
  <2>3. c \in Heading({"stpn"})' <=> c \in Heading({"stpn"})
    BY <1>4
  <2>4. Opened(c)' = Opened(c)
    BY <1>3, <2>1 DEF Opened, cur
  <2>5. Opened(LastT)' = Opened(LastT)
    BY <1>3, <2>2 DEF Opened, cur
  <2> QED BY <2>3, <2>4, <2>5 DEF Told
<1>5. ASSUME NEW c \in Cores \ {LastT}, c # a
      PROVE  RendezvousOK(c)'
  <2>1. RendezvousOK(c)
    BY DEF FlowAndMachine, MachineInv, EpochOK
  <2>2. Rec(c)' = Rec(c)
    BY <1>5, QuietFrame
  <2> QED BY <1>2, <1>4, <1>5, <2>1, <2>2 DEF RendezvousOK
<1> QED BY <1>2, <1>5 DEF EpochOK

\* and the length of a phase with Doug's momentum.
LEMMA PacedKept ==
  ASSUME FlowAndMachine, NEW a, NEW D, NEW E, Quiet(a, D, E),
         tc'[LastSub].tick_stop = tc[LastSub].tick_stop,
         a \in Behind' => Place(Rec(a)') = Place(Rec(a)),
         a = LastT => (tc'[LastSub].phase = F /\ tc'[LastSub].tick = INIT_TICK =>
                         tc'[LastSub].ev_tick = INIT_TICK)
  PROVE  PacedOK'
<1>1. LastT \in Cores /\ LastSub \in Sub /\ LastT = T(LastSub)
  BY CoreFacts, LastSubFacts DEF LastT
<1>2. PacedOK /\ Behind \subseteq Cores
  BY FlowFacts DEF FlowAndMachine, MachineInv
<1>3. a # LastT => tc'[LastSub] = tc[LastSub]
  BY <1>1, QuietFrame
<1>4. Behind' \subseteq Behind
  BY DEF Quiet
<1>5. \A c \in Behind' : Rec(c)'.phase = Rec(c).phase /\ Rec(c)'.tick = Rec(c).tick
  <2>1. \A c \in Behind' : Place(Rec(c)') = Place(Rec(c))
    BY <1>2, <1>4, QuietFrame
  <2> QED BY <2>1 DEF Place
<1> QED BY <1>2, <1>3, <1>4, <1>5 DEF PacedOK

\* The invariant after the step of a core that is not the last T, which takes
\* a packet: what is left to show is about this core.
LEMMA QuietInv ==
  ASSUME FlowAndMachine, NEW a, NEW p \in net, Quiet(a, {p}, {}), OwnSame(a), a # LastT,
         a \in Behind' => Place(Rec(a)') = Place(Rec(a)),
         CoreOK(a)', RendezvousOK(a)'
  PROVE  MachineInv'
<1>1. tc'[LastSub] = tc[LastSub]
  BY QuietFrame, LastSubFacts DEF LastT
<1>2. CurStamp' = CurStamp
  BY <1>1, CurKept
<1>3. NetOK' /\ OnePacket'
  BY <1>1, <1>2, QuietNet DEF Notices
<1>4. Heading({"stpn"})' \in {Heading({"stpn"}), Heading({"stpn"}) \ {a}}
  <2>1. net' = net \ {p} /\ p.dst = a
    BY DEF Quiet
  <2> QED BY <2>1, HeadingTaken
<1> QED BY <1>1, <1>3, <1>4, EpochKept, PacedKept, QuietOthers DEF MachineInv

(***************************************************************************)
(* Where a core goes.                                                      *)
(***************************************************************************)
\* the tick is the last one of an example
Leaves(r, b) ==
  \/ r.phase = B /\ r.tick = END_TICK
  \/ r.phase = F /\ b /\ EndOfForward(r) /\ ~Training

ExampleAfter(r) ==
  IF EndOfEpoch(r) THEN <<r.epoch + 1, 0, F, INIT_TICK, 0>>
                   ELSE <<r.epoch, r.example_cnt + 1, F, INIT_TICK, 0>>

\* The next place, by the record of a core.
LEMMA NextPlaceOf ==
  ASSUME NEW r, NEW b, Flow!MayLeave(Place(r), b)
  PROVE  /\ r.phase \in {F, B} /\ b \in BOOLEAN
         /\ r.tick \in INIT_TICK .. GlobalMaxTicks - 1
         /\ Leaves(r, b) => Flow!NextPlace(Place(r), b) = ExampleAfter(r)
         /\ r.phase = B /\ r.tick # END_TICK =>
              Flow!NextPlace(Place(r), b) = <<r.epoch, r.example_cnt, B, r.tick - 1, r.evt>>
         /\ r.phase = F /\ ~b =>
              Flow!NextPlace(Place(r), b) = <<r.epoch, r.example_cnt, F, r.tick + 1, r.evt>>
         /\ r.phase = F /\ b /\ ~EndOfForward(r) =>
              Flow!NextPlace(Place(r), b) = <<r.epoch, r.example_cnt, F, r.tick + 1, r.evt + 1>>
         /\ r.phase = F /\ b /\ EndOfForward(r) /\ Training =>
              Flow!NextPlace(Place(r), b) = <<r.epoch, r.example_cnt, B, r.tick, r.evt + 1>>
         /\ Flow!EpochOver(Flow!NextPlace(Place(r), b)) <=> Leaves(r, b) /\ EndOfEpoch(r)
<1> DEFINE n == Flow!NextPlace(Place(r), b)
<1>1. /\ r.epoch \in 0 .. NumEpochs /\ r.example_cnt \in 0 .. NumExamples - 1
      /\ r.phase \in {F, B} /\ r.tick \in 1 .. GlobalMaxTicks - 1 /\ r.evt \in 0 .. NumEvents
      /\ b \in BOOLEAN
  BY DEF Flow!MayLeave, Flow!Places, Flow!Phases, Place, F, B
<1>2. /\ NumEpochs \in Nat \ {0} /\ NumExamples \in Nat \ {0} /\ NumEvents \in Nat \ {0}
      /\ GlobalMaxTicks \in Nat \ {0, 1} /\ Training \in BOOLEAN
  BY StageAssumption
<1>3. Flow!EndOfForward(Place(r)) <=> EndOfForward(r)
  BY DEF Flow!EndOfForward, EndOfForward, Place
<1>4. Flow!NextExample(Place(r)) = ExampleAfter(r)
  BY <1>1, <1>2 DEF Flow!NextExample, ExampleAfter, EndOfEpoch, Place, F, INIT_TICK
<1>5. Leaves(r, b) => n = ExampleAfter(r)
  BY <1>1, <1>2, <1>3, <1>4 DEF Leaves, Flow!NextPlace, Place, F, B, END_TICK
<1>6. r.phase = B /\ r.tick # END_TICK => n = <<r.epoch, r.example_cnt, B, r.tick - 1, r.evt>>
  BY <1>1 DEF Flow!NextPlace, Place, F, B, END_TICK
<1>7. r.phase = F /\ ~b => n = <<r.epoch, r.example_cnt, F, r.tick + 1, r.evt>>
  BY <1>1 DEF Flow!NextPlace, Place, F, B
<1>8. r.phase = F /\ b /\ ~EndOfForward(r) => n = <<r.epoch, r.example_cnt, F, r.tick + 1, r.evt + 1>>
  BY <1>1, <1>3 DEF Flow!NextPlace, Place, F, B
<1>9. r.phase = F /\ b /\ EndOfForward(r) /\ Training => n = <<r.epoch, r.example_cnt, B, r.tick, r.evt + 1>>
  BY <1>1, <1>3 DEF Flow!NextPlace, Place, F, B
<1> HIDE DEF n
<1>10. Flow!EpochOver(n) <=> Leaves(r, b) /\ EndOfEpoch(r)
  <2>1. CASE Leaves(r, b)
    BY <1>1, <1>2, <1>5, <2>1 DEF ExampleAfter, Flow!EpochOver, F, INIT_TICK
  <2>2. CASE r.phase = B /\ r.tick # END_TICK
    BY <1>1, <1>6, <2>2 DEF Flow!EpochOver, Leaves, F, B
  <2>3. CASE r.phase = F /\ ~b
    BY <1>1, <1>2, <1>7, <2>3 DEF Flow!EpochOver, Leaves, F, B
  <2>4. CASE r.phase = F /\ b /\ ~EndOfForward(r)
    BY <1>1, <1>2, <1>8, <2>4 DEF Flow!EpochOver, Leaves, F, B
  <2>5. CASE r.phase = F /\ b /\ EndOfForward(r) /\ Training
    BY <1>1, <1>2, <1>9, <2>5 DEF Flow!EpochOver, Leaves, F, B
  <2> QED BY <1>1, <1>2, <2>1, <2>2, <2>3, <2>4, <2>5 DEF Leaves
<1> QED BY <1>1, <1>5, <1>6, <1>7, <1>8, <1>9, <1>10 DEF n, INIT_TICK

(***************************************************************************)
(* The end-of-epoch rendezvous of a record.                                *)
(***************************************************************************)
Frame(r, q, fs) == DOMAIN q = DOMAIN r /\ \A f \in DOMAIN r \ fs : q[f] = r[f]

\* the core has opened the next epoch, or not
Rdv(r, q, over) ==
  /\ q.net_stop = r.net_stop
  /\ over /\ r.net_stop_rdy => q.net_stop_rdy = FALSE /\ q.done = r.net_stop
  /\ over /\ ~r.net_stop_rdy => q.net_stop_rdy = TRUE /\ q.done = r.done
  /\ ~over => q.net_stop_rdy = r.net_stop_rdy /\ q.done = r.done

\* What the rendezvous does to a record,
LEMMA RendezvousFacts ==
  ASSUME NEW r, StartFields \subseteq DOMAIN r
  PROVE  Frame(r, Rendezvous(r), {"net_stop_rdy", "done"}) /\ Rdv(r, Rendezvous(r), TRUE)
<1>1. {"net_stop_rdy", "done", "net_stop"} \subseteq DOMAIN r
  BY DEF StartFields
<1> QED BY <1>1 DEF Rendezvous, Frame, Rdv

ExampleFields == {"evt", "epoch", "example_cnt", "net_stop_rdy", "done"}

\* and the end of an example.
LEMMA AdvanceExampleFacts ==
  ASSUME NEW r, StartFields \subseteq DOMAIN r, NEW q, q = AdvanceExample(r)
  PROVE  /\ Frame(r, q, ExampleFields) /\ Rdv(r, q, EndOfEpoch(r)) /\ q.evt = 0
         /\ IF EndOfEpoch(r) THEN q.epoch = r.epoch + 1 /\ q.example_cnt = 0
                             ELSE q.epoch = r.epoch /\ q.example_cnt = r.example_cnt + 1
<1>1. CASE EndOfEpoch(r)
  <2> DEFINE r1 == [r EXCEPT !.evt = 0, !.epoch = @ + 1, !.example_cnt = 0]
  <2>1. /\ Frame(r, r1, {"evt", "epoch", "example_cnt"}) /\ StartFields \subseteq DOMAIN r1
        /\ r1.evt = 0 /\ r1.epoch = r.epoch + 1 /\ r1.example_cnt = 0
    BY DEF Frame, StartFields
  <2>2. q = Rendezvous(r1)
    BY <1>1 DEF AdvanceExample
  <2> HIDE DEF r1
  <2>3. Frame(r1, q, {"net_stop_rdy", "done"}) /\ Rdv(r1, q, TRUE)
    BY <2>1, <2>2, RendezvousFacts
  <2>4. r1.net_stop = r.net_stop /\ r1.net_stop_rdy = r.net_stop_rdy /\ r1.done = r.done
    BY <2>1 DEF Frame, StartFields
  <2> QED BY <1>1, <2>1, <2>3, <2>4 DEF Frame, Rdv, ExampleFields, StartFields
<1>2. CASE ~EndOfEpoch(r)
  <2>1. q = [r EXCEPT !.evt = 0, !.example_cnt = @ + 1]
    BY <1>2 DEF AdvanceExample
  <2> QED BY <1>2, <2>1 DEF Frame, Rdv, ExampleFields, StartFields
<1> QED BY <1>1, <1>2

(***************************************************************************)
(* A core that is behind.                                                  *)
(***************************************************************************)
LEMMA BehindFacts ==
  ASSUME FlowAndMachine, NEW a \in Behind
  PROVE  /\ a \in Cores /\ ~Opened(a) /\ (\A ph : ~In(a, ph))
         /\ Flow!MayLeave(Place(Rec(a)), tc[LastSub].tick_stop)
         /\ Flow!NextPlace(Place(Rec(a)), tc[LastSub].tick_stop) = cur
         /\ ~Rec(a).done
         /\ tc[LastSub].done /\ a \notin Heading({"stpn"}) => Told(a)
         /\ Told(a) => Flow!EpochOver(cur) /\ a \notin Heading({"stpn"}) /\ a # LastT
         /\ \A k : Into({k}, a) \cap Got = {}
         /\ \A k, u : IntoUnit(k, a, u) \cap Got = {}
<1>1. Behind \subseteq Cores
  BY FlowFacts DEF FlowAndMachine
<1>2. /\ Flow!MayLeave(Place(Rec(a)), tc[LastSub].tick_stop)
      /\ Flow!NextPlace(Place(Rec(a)), tc[LastSub].tick_stop) = cur
      /\ \A l \in Got : l[3] # a
  BY FlowFacts DEF FlowAndMachine
<1>3. Flow!StageOK
  BY DEF FlowAndMachine, Flow!FlowInv
<1>4. a \notin {c \in Cores : Rec(c).done}
  BY <1>3 DEF Flow!StageOK
<1>5. tc[LastSub].done => Flow!EpochOver(Flow!cur) /\ LastT \notin Behind
  BY <1>3 DEF Flow!StageOK
<1>6. ~Opened(a)
  BY DEF Opened
<1>7. \A ph : ~In(a, ph)
  BY DEF In
<1>8. (\A k : Into({k}, a) \cap Got = {}) /\ \A k, u : IntoUnit(k, a, u) \cap Got = {}
  BY <1>2 DEF Into, IntoUnit
<1>9. tc[LastSub].done /\ a \notin Heading({"stpn"}) => Told(a)
  BY <1>5 DEF Told, Opened
<1>10. Told(a) => Flow!EpochOver(cur) /\ a \notin Heading({"stpn"}) /\ a # LastT
  BY <1>6 DEF Told, Opened, cur
<1> QED BY <1>1, <1>2, <1>4, <1>6, <1>7, <1>8, <1>9, <1>10

\* what is due at a core that has nothing yet in this tick
Fresh(a) ==
  /\ a \in WCores => ~Products(a) /\ ~OutputsIn(a) /\ ~DeltasIn(a)
  /\ \A s \in Sub :
       /\ a = S(s) => /\ \A u \in Unit : ~NetWhole(s, u) /\ ~ErrorWhole(s, u)
                      /\ ~FsgnIn(s) /\ ~SBReported(s) /\ ~LdsIn(s)
       /\ a = T(s) => ~CritWhole(s) /\ ~Deltas(s) /\ ~TBReported(s)

\* A core that is behind has sent nothing in the current tick,
LEMMA BehindFresh ==
  ASSUME NEW a \in Behind
  PROVE  Fresh(a)
<1>1. \A ph : ~In(a, ph)
  BY DEF In
<1> QED BY <1>1 DEF Fresh, Products, OutputsIn, DeltasIn, NetWhole, ErrorWhole, FsgnIn,
          SBReported, LdsIn, CritWhole, Deltas, TBReported

\* nor has it when it has just caught up.
LEMMA FreshSame ==
  ASSUME NEW a \in Behind, Fresh(a)'
  PROVE  OwnSame(a)
<1>1. Fresh(a)
  BY BehindFresh
<1> QED BY <1>1 DEF Fresh, OwnSame

(***************************************************************************)
(* The stop or sync packet.                                                *)
(***************************************************************************)
Going(p) ==
  /\ p \in net /\ p.kind \in {"stop", "sync"}
  /\ net' = net \ {p} /\ Others(p.dst)

\* A core takes its stop or sync packet,
LEMMA GoingFacts ==
  ASSUME FlowAndMachine, NEW p, Going(p)
  PROVE  /\ p.dst \in Behind /\ p.dst # LastT /\ Quiet(p.dst, {p}, {})
         /\ tc'[LastSub] = tc[LastSub] /\ cur' = cur
         /\ Behind' = Behind \ {p.dst} /\ Heading({"stpn"})' = Heading({"stpn"})
         /\ (Opened(p.dst)' <=> Flow!EpochOver(cur)) /\ (Told(p.dst)' <=> Told(p.dst))
         /\ IF Rec(p.dst).phase = F THEN p.kind = "stop" /\ p.b = tc[LastSub].tick_stop
                                    ELSE p.kind = "sync"
<1> DEFINE a == p.dst
<1>1. PacketOK(p)
  BY DEF Going, FlowAndMachine, MachineInv, NetOK
<1>2. a \in Cores /\ a # LastT /\ IF Rec(a).phase = F THEN p.kind = "stop" /\ p.b = tc[LastSub].tick_stop
                                                      ELSE p.kind = "sync"
  BY <1>1 DEF Going, PacketOK
<1>3. a \in Behind
  BY DEF Going, Behind, Heading
<1>4. LastSub \in Sub /\ LastT = T(LastSub) /\ LastT \in Cores
  BY LastSubFacts, CoreFacts DEF LastT
<1> HIDE DEF a
<1>5. Others(a)
  BY DEF a, Going
<1>6. tc'[LastSub] = tc[LastSub]
  BY <1>2, <1>4, <1>5 DEF Others
<1>7. /\ Heading({"stop", "sync"})' = Heading({"stop", "sync"}) \ {a}
      /\ Heading({"stpn"})' = Heading({"stpn"})
  BY HeadingTaken DEF Going, a
<1>8. Behind' = Behind \ {a}
  BY <1>2, <1>6, <1>7 DEF Behind
<1>9. Quiet(a, {p}, {})
  BY <1>2, <1>5, <1>8 DEF Quiet, Going, a
<1>10. cur' = cur
  BY <1>2, <1>6, <1>9, CurKept
<1>11. Opened(a)' <=> Flow!EpochOver(cur)
  BY <1>8, <1>10 DEF Opened, cur
<1>12. Told(a)' <=> Told(a)
  <2>1. LastT \in Behind' <=> LastT \in Behind
    BY <1>2, <1>8
  <2>2. Opened(LastT)' <=> Opened(LastT)
    BY <1>10, <2>1 DEF Opened, cur
  <2> QED BY <1>7, <2>2 DEF Told
<1> QED BY <1>2, <1>3, <1>6, <1>7, <1>8, <1>9, <1>10, <1>11, <1>12 DEF a

\* has handled nothing of the tick it enters,
LEMMA GoingGot ==
  ASSUME FlowAndMachine, NEW p, Going(p), Fresh(p.dst)'
  PROVE  /\ Sent' = Sent /\ Got' = Got
         /\ \A k : GotInto(k, p.dst)' = 0
         /\ \A k, u : GotUnit(k, p.dst, u)' = 0
         /\ \A k : Into({k}, p.dst) \subseteq Got' => Into({k}, p.dst) = {}
<1> DEFINE a == p.dst
<1>1. a \in Behind /\ Quiet(a, {p}, {})
  BY GoingFacts
<1> HIDE DEF a
<1>2. Sent' = Sent /\ Got' = Got
  BY <1>1, FreshSame, QuietSent DEF a
<1>3. (\A k : Into({k}, a) \cap Got = {}) /\ \A k, u : IntoUnit(k, a, u) \cap Got = {}
  BY <1>1, BehindFacts
<1>4. Cardinality({}) = 0
  BY FS_EmptySet
<1> QED BY <1>2, <1>3, <1>4 DEF GotInto, GotUnit, a

\* the core has ended the stage, when it knows that this is the end
DoneRight(a) == Rec(a)'.done <=> tc[LastSub].done /\ a \notin Heading({"stpn"})

\* and the invariant holds if its record is right.
LEMMA GoingInv ==
  ASSUME FlowAndMachine, NEW p, Going(p), Fresh(p.dst)',
         Place(Rec(p.dst)') = cur, DoneRight(p.dst), CoreOK(p.dst)', RendezvousOK(p.dst)'
  PROVE  FlowAndMachine' /\ Flow!Next
<1> DEFINE a == p.dst
<1>1. /\ a \in Behind /\ a # LastT /\ Quiet(a, {p}, {})
      /\ tc'[LastSub] = tc[LastSub] /\ cur' = cur
      /\ Behind' = Behind \ {a} /\ Heading({"stpn"})' = Heading({"stpn"})
  BY GoingFacts
<1>2. OwnSame(a)
  BY <1>1, FreshSame
<1>3. MachineInv'
  BY <1>1, <1>2, QuietInv DEF Going
<1>4. Sent' = Sent /\ Got' = Got
  BY <1>2, <1>1, QuietSent
<1>5. Flow!NextPlace(Place(Rec(a)), tc[LastSub].tick_stop) = cur /\ a \in Cores /\ ~Rec(a).done
  BY <1>1, BehindFacts
<1> HIDE DEF a
<1>6. [c \in Cores |-> Place(Rec(c))]' = [[c \in Cores |-> Place(Rec(c))] EXCEPT ![a] = Flow!NextPlace(@, tc[LastSub].tick_stop)]
  <2>1. \A c \in Cores : c # a => Place(Rec(c))' = Place(Rec(c))
    BY <1>1, QuietFrame
  <2>2. Place(Rec(a))' = cur
    BY DEF a
  <2> QED BY <1>5, <2>1, <2>2
<1>7. {c \in Cores : Rec(c).done}' = IF tc[LastSub].done /\ a \notin Heading({"stpn"})
                                       THEN {c \in Cores : Rec(c).done} \cup {a}
                                       ELSE {c \in Cores : Rec(c).done}
  <2>1. \A c \in Cores : c # a => Rec(c)'.done = Rec(c).done
    BY <1>1, QuietFrame
  <2>2. Rec(a)'.done <=> tc[LastSub].done /\ a \notin Heading({"stpn"})
    BY DEF a, DoneRight
  <2> QED BY <1>5, <2>1, <2>2
<1>8. Flow!Advance(a)
  BY <1>1, <1>4, <1>6, <1>7 DEF Flow!Advance, Flow!packets
<1>9. Flow!Next
  BY <1>5, <1>8 DEF Flow!Next
<1>10. Flow!FlowInv'
  <2>1. Flow!FlowInv
    BY DEF FlowAndMachine
  <2> QED BY <1>9, <2>1, MachineGraph, Flow!StepInv
<1> QED BY <1>3, <1>9, <1>10 DEF FlowAndMachine

\* sum, input and threshold cores at the end of an epoch
LEMMA GoingEpoch ==
  ASSUME FlowAndMachine, NEW p, Going(p), p.dst[1] # "W", StartShape(Rec(p.dst)),
         Rdv(Rec(p.dst), Rec(p.dst)', Flow!EpochOver(cur))
  PROVE  DoneRight(p.dst) /\ RendezvousOK(p.dst)'
<1> DEFINE a == p.dst
           r == Rec(a)
           q == Rec(a)'
<1>1. /\ a \in Behind /\ a # LastT /\ tc'[LastSub] = tc[LastSub] /\ cur' = cur
      /\ (Opened(a)' <=> Flow!EpochOver(cur)) /\ (Told(a)' <=> Told(a))
  BY GoingFacts
<1>2. /\ ~Opened(a) /\ ~r.done /\ a \in Cores
      /\ tc[LastSub].done /\ a \notin Heading({"stpn"}) => Told(a)
      /\ Told(a) => Flow!EpochOver(cur) /\ a \notin Heading({"stpn"})
  BY <1>1, BehindFacts
<1>3. RendezvousOK(a)
  BY <1>1, <1>2 DEF FlowAndMachine, MachineInv, EpochOK
<1> HIDE DEF a
<1>4. Told(a) => r.net_stop = tc[LastSub].done
  BY <1>3 DEF RendezvousOK
<1>5. r.net_stop_rdy <=> Told(a)
  <2>1. r.net_stop_rdy <=> (Opened(a) # Told(a))
    BY <1>3 DEF RendezvousOK, a
  <2>2. Opened(a) \in BOOLEAN /\ Told(a) \in BOOLEAN
    BY DEF Opened, Told
  <2> QED BY <1>2, <2>1, <2>2
<1>6. Rdv(r, q, Flow!EpochOver(cur))
  BY DEF a
<1>7. q.net_stop = r.net_stop
  BY <1>6 DEF Rdv
<1>8. CASE Flow!EpochOver(cur) /\ Told(a)
  <2>1. q.net_stop_rdy = FALSE /\ q.done = r.net_stop
    BY <1>5, <1>6, <1>8 DEF Rdv
  <2>2. DoneRight(a)
    BY <1>2, <1>4, <1>8, <2>1 DEF DoneRight
  <2>3. Opened(a)' = Told(a)'
    BY <1>1, <1>8 DEF Opened, Told
  <2> QED BY <1>1, <1>4, <1>7, <1>8, <2>1, <2>2, <2>3 DEF RendezvousOK, a
<1>9. CASE Flow!EpochOver(cur) /\ ~Told(a)
  <2>1. q.net_stop_rdy = TRUE /\ q.done = r.done
    BY <1>5, <1>6, <1>9 DEF Rdv
  <2>2. DoneRight(a)
    BY <1>2, <1>9, <2>1 DEF DoneRight
  <2>3. Opened(a)' # Told(a)'
    BY <1>1, <1>9 DEF Opened, Told
  <2> QED BY <1>1, <1>9, <2>1, <2>2, <2>3 DEF RendezvousOK, a
<1>10. CASE ~Flow!EpochOver(cur)
  <2>1. q.net_stop_rdy = r.net_stop_rdy /\ q.done = r.done
    BY <1>6, <1>10 DEF Rdv
  <2>2. DoneRight(a)
    BY <1>2, <1>10, <2>1 DEF DoneRight
  <2>3. Opened(a)' = Told(a)'
    BY <1>1, <1>2, <1>10 DEF Opened, Told
  <2>4. ~r.net_stop_rdy
    BY <1>2, <1>5, <1>10
  <2> QED BY <1>1, <1>2, <1>10, <2>1, <2>2, <2>3, <2>4 DEF RendezvousOK, a
<1> QED BY <1>8, <1>9, <1>10 DEF a

\* a record at the start of the next example
SameStage(r, r1) ==
  /\ StartFields \subseteq DOMAIN r1
  /\ r1.epoch = r.epoch /\ r1.example_cnt = r.example_cnt
  /\ r1.net_stop = r.net_stop /\ r1.net_stop_rdy = r.net_stop_rdy /\ r1.done = r.done

\* A record at the end of an example.
LEMMA LeaveExample ==
  ASSUME NEW r, NEW b, Flow!MayLeave(Place(r), b), Leaves(r, b),
         NEW r1, SameStage(r, r1), r1.tick = INIT_TICK, r1.phase = F,
         NEW q, q = AdvanceExample(r1)
  PROVE  /\ Place(q) = Flow!NextPlace(Place(r), b)
         /\ Rdv(r, q, Flow!EpochOver(Flow!NextPlace(Place(r), b)))
         /\ Frame(r1, q, ExampleFields)
<1>1. /\ Flow!NextPlace(Place(r), b) = ExampleAfter(r)
      /\ Flow!EpochOver(Flow!NextPlace(Place(r), b)) <=> EndOfEpoch(r)
  BY NextPlaceOf
<1>2. EndOfEpoch(r1) <=> EndOfEpoch(r)
  BY DEF EndOfEpoch, SameStage
<1>3. /\ Frame(r1, q, ExampleFields) /\ Rdv(r1, q, EndOfEpoch(r1)) /\ q.evt = 0
      /\ IF EndOfEpoch(r1) THEN q.epoch = r1.epoch + 1 /\ q.example_cnt = 0
                           ELSE q.epoch = r1.epoch /\ q.example_cnt = r1.example_cnt + 1
  BY AdvanceExampleFacts DEF SameStage
<1>4. q.tick = INIT_TICK /\ q.phase = F
  BY <1>3 DEF Frame, ExampleFields, SameStage, StartFields
<1>5. Place(q) = ExampleAfter(r)
  BY <1>2, <1>3, <1>4 DEF Place, ExampleAfter, SameStage
<1>6. Rdv(r, q, Flow!EpochOver(Flow!NextPlace(Place(r), b)))
  BY <1>1, <1>2, <1>3 DEF Rdv, SameStage
<1> QED BY <1>1, <1>3, <1>5, <1>6

\* ... or in the same example
LEMMA StayInExample ==
  ASSUME NEW r, NEW b, Flow!MayLeave(Place(r), b), ~Leaves(r, b), NEW q, SameStage(r, q)
  PROVE  Rdv(r, q, Flow!EpochOver(Flow!NextPlace(Place(r), b)))
  BY NextPlaceOf DEF Rdv, SameStage

(***************************************************************************)
(* Input cores.                                                            *)
(***************************************************************************)
IAdvance(r, b) == IF r.phase = F THEN if_advance_tick(r, b) ELSE ib_advance_tick(r)

\* An input core's record after the advance.
LEMMA IAdvanceRecord ==
  ASSUME NEW r, IShape(r), NEW b, Flow!MayLeave(Place(r), b), NEW q, q = IAdvance(r, b)
  PROVE  /\ IShape(q) /\ Place(q) = Flow!NextPlace(Place(r), b)
         /\ Rdv(r, q, Flow!EpochOver(Flow!NextPlace(Place(r), b)))
<1> DEFINE n == Flow!NextPlace(Place(r), b)
<1>1. DOMAIN r = StartFields \cup {"i_it_idx"} /\ StartShape(r)
  BY DEF IShape
<1>2. r.phase \in {F, B} /\ F # B /\ Training \in BOOLEAN
  BY NextPlaceOf, StageAssumption DEF F, B
<1>3. CASE Leaves(r, b)
  <2>1. PICK r1 : /\ q = AdvanceExample(r1) /\ DOMAIN r1 = DOMAIN r /\ r1.tick = INIT_TICK /\ r1.phase = F
                  /\ SameStage(r, r1)
    <3>1. CASE r.phase = F
      <4> DEFINE r1 == [[r EXCEPT !.tick = INIT_TICK] EXCEPT !.i_it_idx = 0]
      <4>1. q = AdvanceExample(r1)
        BY <1>2, <1>3, <3>1, Zenon
           DEF IAdvance, if_advance_tick, if_advance_event, i_advance_example, Leaves
      <4>2. DOMAIN r1 = DOMAIN r /\ r1.tick = INIT_TICK /\ r1.phase = F
        BY <1>1, <3>1 DEF StartFields
      <4>3. SameStage(r, r1)
        BY <1>1 DEF SameStage, StartFields
      <4> QED BY <4>1, <4>2, <4>3
    <3>2. CASE r.phase # F
      <4> DEFINE r1 == [[r EXCEPT !.tick = INIT_TICK, !.phase = F] EXCEPT !.i_it_idx = 0]
      <4>1. q = AdvanceExample(r1)
        BY <1>2, <1>3, <3>2 DEF IAdvance, ib_advance_tick, i_advance_example, Leaves
      <4>2. DOMAIN r1 = DOMAIN r /\ r1.tick = INIT_TICK /\ r1.phase = F
        BY <1>1 DEF StartFields
      <4>3. SameStage(r, r1)
        BY <1>1 DEF SameStage, StartFields
      <4> QED BY <4>1, <4>2, <4>3
    <3> QED BY <3>1, <3>2
  <2>2. Place(q) = n /\ Rdv(r, q, Flow!EpochOver(n)) /\ Frame(r1, q, ExampleFields)
    BY <1>3, <2>1, LeaveExample
  <2>3. DOMAIN q = DOMAIN r
    BY <2>1, <2>2 DEF Frame
  <2>4. StartShape(q)
    BY <1>1, <2>2 DEF StartShape, Rdv
  <2> QED BY <1>1, <2>2, <2>3, <2>4 DEF IShape
<1>4. CASE ~Leaves(r, b)
  <2>1. DOMAIN q = DOMAIN r /\ Place(q) = n /\ SameStage(r, q)
    <3>1. CASE r.phase = F /\ ~b
      <4>1. q = [r EXCEPT !.tick = @ + 1]
        BY <3>1 DEF IAdvance, if_advance_tick
      <4>2. n = <<r.epoch, r.example_cnt, F, r.tick + 1, r.evt>>
        BY <3>1, NextPlaceOf
      <4> QED BY <1>1, <3>1, <4>1, <4>2 DEF Place, SameStage, StartFields
    <3>2. CASE r.phase = F /\ b /\ ~EndOfForward(r)
      <4>1. q = [r EXCEPT !.evt = @ + 1, !.tick = @ + 1, !.i_it_idx = @ + 1]
        BY <3>2, Zenon DEF IAdvance, if_advance_tick, if_advance_event
      <4>2. n = <<r.epoch, r.example_cnt, F, r.tick + 1, r.evt + 1>>
        BY <3>2, NextPlaceOf
      <4> QED BY <1>1, <3>2, <4>1, <4>2 DEF Place, SameStage, StartFields
    <3>3. CASE r.phase = F /\ b /\ EndOfForward(r) /\ Training
      <4>1. q = [r EXCEPT !.evt = @ + 1, !.phase = B]
        BY <3>3, Zenon DEF IAdvance, if_advance_tick, if_advance_event
      <4>2. n = <<r.epoch, r.example_cnt, B, r.tick, r.evt + 1>>
        BY <3>3, NextPlaceOf
      <4> QED BY <1>1, <3>3, <4>1, <4>2 DEF Place, SameStage, StartFields
    <3>4. CASE r.phase = B /\ r.tick # END_TICK
      <4>1. q = [r EXCEPT !.tick = @ - 1]
        BY <1>2, <3>4 DEF IAdvance, ib_advance_tick
      <4>2. n = <<r.epoch, r.example_cnt, B, r.tick - 1, r.evt>>
        BY <3>4, NextPlaceOf
      <4> QED BY <1>1, <3>4, <4>1, <4>2 DEF Place, SameStage, StartFields
    <3> QED BY <1>2, <1>4, <3>1, <3>2, <3>3, <3>4 DEF Leaves
  <2>2. Rdv(r, q, Flow!EpochOver(n))
    BY <1>4, <2>1, StayInExample
  <2>3. StartShape(q)
    BY <1>1, <2>1 DEF StartShape, SameStage
  <2> QED BY <1>1, <2>1, <2>2, <2>3 DEF IShape
<1> QED BY <1>3, <1>4

\* An input core advances (if_advance_tick, ib_advance_tick).
LEMMA IGoInv ==
  ASSUME FlowAndMachine, NEW p \in net, IStop(p) \/ ISync(p), UNCHANGED <<wc, sc, tc>>
  PROVE  FlowAndMachine' /\ Flow!Next
<1> DEFINE s == p.dst[2]
           a == p.dst
           r == ic[s]
           q == ic'[s]
<1>1. /\ p.kind \in {"stop", "sync"} /\ a[1] = "I" /\ net' = net \ {p}
      /\ p.kind = "stop" => ic' = [ic EXCEPT ![s] = if_advance_tick(r, p.b)]
      /\ p.kind = "sync" => ic' = [ic EXCEPT ![s] = ib_advance_tick(r)]
  BY DEF IStop, ISync
<1>2. a \in Cores /\ s \in Sub /\ a = I(s) /\ DOMAIN ic = Sub /\ IShape(r)
  <2>1. a \in Cores
    BY DEF FlowAndMachine, MachineInv, NetOK, PacketOK
  <2> QED BY <1>1, <2>1, CoreKinds DEF FlowAndMachine, MachineInv, ShapeOK
<1>3. Rec(a) = r /\ Rec(a)' = q
  BY <1>2, RecFacts
<1>4. Others(a)
  BY <1>1, <1>2, CoresApart DEF Others
<1>5. Going(p)
  BY <1>1, <1>4 DEF Going
<1>6. /\ a \in Behind /\ a # LastT
      /\ IF Rec(a).phase = F THEN p.kind = "stop" /\ p.b = tc[LastSub].tick_stop ELSE p.kind = "sync"
  BY <1>5, GoingFacts
<1>7. Flow!MayLeave(Place(r), tc[LastSub].tick_stop) /\ Flow!NextPlace(Place(r), tc[LastSub].tick_stop) = cur
  BY <1>3, <1>6, BehindFacts
<1>8. q = IAdvance(r, tc[LastSub].tick_stop)
  BY <1>1, <1>2, <1>3, <1>6 DEF IAdvance
<1> HIDE DEF r, q
<1>9. IShape(q) /\ Place(q) = cur /\ Rdv(r, q, Flow!EpochOver(cur))
  BY <1>2, <1>7, <1>8, IAdvanceRecord
<1>10. DoneRight(a) /\ RendezvousOK(a)'
  <2>1. StartShape(Rec(a)) /\ Rdv(Rec(a), Rec(a)', Flow!EpochOver(cur))
    BY <1>2, <1>3, <1>9 DEF IShape
  <2> QED BY <1>1, <1>5, <2>1, GoingEpoch
<1>11. Fresh(a)'
  BY <1>2, CoresApart DEF Fresh, WCores
<1>12. CoreOK(a)'
  <2>1. IShape(ic'[s])
    BY <1>9 DEF q
  <2> QED BY <1>2, <2>1, CoresApart DEF CoreOK, WCores
<1>13. Place(Rec(a)') = cur
  BY <1>3, <1>9
<1> QED BY <1>5, <1>10, <1>11, <1>12, <1>13, GoingInv

(***************************************************************************)
(* Sum cores.                                                              *)
(***************************************************************************)
SAdvance(s, r, b) == IF r.phase = F THEN sf_advance_tick(s, r, b) ELSE sb_advance_tick(s, r)

\* the boards at the start of a tick
SBoardFields ==
  {"sf_arrived", "s_fsgn_arrived", "sb_arrived", "sb_done", "s_bsgn_arrived",
   "s_lds_arrived", "sb_thrds_pend"}

SStarted(s, r, q) ==
  /\ r.phase = F => /\ q.sf_arrived = NoneArrived /\ q.s_fsgn_arrived = 0
                    /\ q.sb_arrived = r.sb_arrived /\ q.sb_done = r.sb_done
                    /\ q.s_bsgn_arrived = r.s_bsgn_arrived /\ q.s_lds_arrived = r.s_lds_arrived
                    /\ q.sb_thrds_pend = r.sb_thrds_pend
  /\ r.phase # F => /\ q.sf_arrived = r.sf_arrived /\ q.s_fsgn_arrived = r.s_fsgn_arrived
                    /\ q.sb_arrived = NoneArrived /\ q.sb_done = 0
                    /\ q.s_bsgn_arrived = 0 /\ q.s_lds_arrived = 0
                    /\ q.sb_thrds_pend = sb_thrds_init(s) \cup LdsaThread(r)

\* A sum core's tick_init clears its scoreboards.
LEMMA STickInitFacts ==
  ASSUME NEW s, NEW r, SShape(r), NEW q, q = STickInit(s, r)
  PROVE  /\ DOMAIN q = DOMAIN r /\ SStarted(s, r, q)
         /\ \A f \in StartFields : q[f] = r[f]
<1>1. DOMAIN r = StartFields \cup
       {"s_nets", "sf_arrived", "s_fsgn_arrived", "s_errors", "sb_arrived", "sb_done",
        "s_bsgn_arrived", "sb_thrds_pend", "s_lds_part", "s_lds_arrived"}
  BY DEF SShape
<1>2. CASE r.phase = F
  <2>1. q = [r EXCEPT !.s_nets = Nothing, !.sf_arrived = NoneArrived, !.s_fsgn_arrived = 0]
    BY <1>2 DEF STickInit, SFTickInit
  <2> QED BY <1>1, <1>2, <2>1 DEF SStarted, StartFields
<1>3. CASE r.phase # F
  <2> DEFINE t == [r EXCEPT !.sb_thrds_pend = sb_thrds_init(s) \cup LdsaThread(r)]
  <2>1. q = [t EXCEPT !.s_lds_part = EmptyBag, !.s_lds_arrived = 0,
            !.s_errors = Nothing, !.sb_arrived = NoneArrived,
            !.sb_done = 0, !.s_bsgn_arrived = 0]
    BY <1>3 DEF STickInit, SBTickInit
  <2>2. /\ DOMAIN t = DOMAIN r /\ t.sb_thrds_pend = sb_thrds_init(s) \cup LdsaThread(r)
        /\ \A f \in DOMAIN r \ {"sb_thrds_pend"} : t[f] = r[f]
    BY <1>1
  <2> HIDE DEF t
  <2>3. /\ DOMAIN q = DOMAIN r /\ q.sb_thrds_pend = t.sb_thrds_pend
        /\ q.s_lds_arrived = 0 /\ q.sb_arrived = NoneArrived /\ q.sb_done = 0 /\ q.s_bsgn_arrived = 0
        /\ \A f \in DOMAIN r \ {"sb_thrds_pend", "s_lds_part", "s_lds_arrived", "s_errors",
                                "sb_arrived", "sb_done", "s_bsgn_arrived"} : q[f] = r[f]
    BY <1>1, <2>1, <2>2
  <2>4. q.sf_arrived = r.sf_arrived /\ q.s_fsgn_arrived = r.s_fsgn_arrived
    BY <1>1, <2>3
  <2>5. \A f \in StartFields : q[f] = r[f]
    BY <1>1, <2>3 DEF StartFields
  <2> QED BY <1>3, <2>2, <2>3, <2>4, <2>5 DEF SStarted
<1> QED BY <1>2, <1>3

\* A sum core's record after the advance.
LEMMA SAdvanceRecord ==
  ASSUME NEW s, NEW r, SShape(r), NEW b, Flow!MayLeave(Place(r), b), NEW q, q = SAdvance(s, r, b)
  PROVE  /\ SShape(q) /\ Place(q) = Flow!NextPlace(Place(r), b) /\ SStarted(s, r, q)
         /\ Rdv(r, q, Flow!EpochOver(Flow!NextPlace(Place(r), b)))
<1> DEFINE n == Flow!NextPlace(Place(r), b)
<1>1. PICK t : t = STickInit(s, r)
  OBVIOUS
<1>2. DOMAIN t = DOMAIN r /\ SStarted(s, r, t) /\ \A f \in StartFields : t[f] = r[f]
  BY <1>1, STickInitFacts
<1>3. r.phase \in {F, B} /\ F # B /\ Training \in BOOLEAN
  BY NextPlaceOf, StageAssumption DEF F, B
<1>4. /\ DOMAIN r = StartFields \cup
           {"s_nets", "sf_arrived", "s_fsgn_arrived", "s_errors", "sb_arrived", "sb_done",
            "s_bsgn_arrived", "sb_thrds_pend", "s_lds_part", "s_lds_arrived"}
      /\ StartShape(r) /\ DOMAIN r.sf_arrived = Unit /\ DOMAIN r.sb_arrived = Unit
  BY DEF SShape
<1>5. /\ t.phase = r.phase /\ t.tick = r.tick /\ t.evt = r.evt /\ t.epoch = r.epoch
      /\ t.example_cnt = r.example_cnt /\ t.net_stop = r.net_stop
      /\ t.net_stop_rdy = r.net_stop_rdy /\ t.done = r.done
  BY <1>2 DEF StartFields
<1>6. EndOfForward(t) <=> EndOfForward(r)
  BY <1>5 DEF EndOfForward
<1>7. SBoardFields \cap StartFields = {} /\ SBoardFields \subseteq DOMAIN t
  BY <1>2, <1>4 DEF SBoardFields, StartFields
<1>8. ASSUME NEW x, DOMAIN x = DOMAIN t, \A f \in SBoardFields : x[f] = t[f], StartShape(x)
      PROVE  SShape(x) /\ SStarted(s, r, x)
  <2>1. /\ x.sf_arrived = t.sf_arrived /\ x.s_fsgn_arrived = t.s_fsgn_arrived
        /\ x.sb_arrived = t.sb_arrived /\ x.sb_done = t.sb_done
        /\ x.s_bsgn_arrived = t.s_bsgn_arrived /\ x.s_lds_arrived = t.s_lds_arrived
        /\ x.sb_thrds_pend = t.sb_thrds_pend
    BY <1>8 DEF SBoardFields
  <2>2. SStarted(s, r, x)
    BY <1>2, <2>1 DEF SStarted
  <2>3. DOMAIN NoneArrived = Unit
    BY DEF NoneArrived
  <2>4. DOMAIN x.sf_arrived = Unit /\ DOMAIN x.sb_arrived = Unit
    BY <1>4, <2>2, <2>3 DEF SStarted
  <2> QED BY <1>2, <1>4, <1>8, <2>2, <2>4 DEF SShape
<1>9. CASE Leaves(r, b)
  <2>1. PICK r1 : /\ q = AdvanceExample(r1) /\ DOMAIN r1 = DOMAIN r /\ r1.tick = INIT_TICK /\ r1.phase = F
                  /\ SameStage(r, r1) /\ \A f \in SBoardFields : r1[f] = t[f]
    <3>1. CASE r.phase = F
      <4> DEFINE r1 == [t EXCEPT !.tick = INIT_TICK]
      <4>1. q = sf_advance_event(t)
        BY <1>1, <1>3, <1>9, <3>1 DEF SAdvance, sf_advance_tick, Leaves
      <4>2. EndOfForward(t) /\ ~Training
        BY <1>3, <1>6, <1>9, <3>1 DEF Leaves
      <4>3. q = AdvanceExample(r1)
        BY <4>1, <4>2, Zenon DEF sf_advance_event
      <4>4. DOMAIN r1 = DOMAIN r /\ r1.tick = INIT_TICK /\ r1.phase = F
        BY <1>2, <1>4, <1>5, <3>1 DEF StartFields
      <4>5. SameStage(r, r1)
        BY <1>2, <1>4, <1>5 DEF SameStage, StartFields
      <4>6. \A f \in SBoardFields : r1[f] = t[f]
        BY <1>7 DEF StartFields
      <4> QED BY <4>3, <4>4, <4>5, <4>6
    <3>2. CASE r.phase # F
      <4> DEFINE r1 == [t EXCEPT !.tick = INIT_TICK, !.phase = F]
      <4>1. q = AdvanceExample(r1)
        BY <1>1, <1>9, <3>2 DEF SAdvance, sb_advance_tick, Leaves
      <4>2. DOMAIN r1 = DOMAIN r /\ r1.tick = INIT_TICK /\ r1.phase = F
        BY <1>2, <1>4 DEF StartFields
      <4>3. SameStage(r, r1)
        BY <1>2, <1>4, <1>5 DEF SameStage, StartFields
      <4>4. \A f \in SBoardFields : r1[f] = t[f]
        BY <1>7 DEF StartFields
      <4> QED BY <4>1, <4>2, <4>3, <4>4
    <3> QED BY <3>1, <3>2
  <2>2. Place(q) = n /\ Rdv(r, q, Flow!EpochOver(n)) /\ Frame(r1, q, ExampleFields)
    BY <1>9, <2>1, LeaveExample
  <2>3. DOMAIN q = DOMAIN t /\ \A f \in SBoardFields : q[f] = t[f]
    BY <1>2, <1>7, <2>1, <2>2 DEF Frame, ExampleFields, StartFields
  <2>4. StartShape(q)
    BY <1>4, <2>2 DEF StartShape, Rdv
  <2> QED BY <1>8, <2>2, <2>3, <2>4
<1>10. CASE ~Leaves(r, b)
  <2>1. /\ DOMAIN q = DOMAIN t /\ Place(q) = n /\ SameStage(r, q)
        /\ \A f \in SBoardFields : q[f] = t[f]
    <3>1. CASE r.phase = F /\ ~b
      <4>1. q = [t EXCEPT !.tick = @ + 1]
        BY <1>1, <3>1 DEF SAdvance, sf_advance_tick
      <4>2. n = <<r.epoch, r.example_cnt, F, r.tick + 1, r.evt>>
        BY <3>1, NextPlaceOf
      <4> QED BY <1>2, <1>4, <1>5, <1>7, <3>1, <4>1, <4>2 DEF Place, SameStage, StartFields
    <3>2. CASE r.phase = F /\ b /\ ~EndOfForward(r)
      <4>1. q = sf_advance_event(t) /\ ~EndOfForward(t)
        BY <1>1, <1>6, <3>2 DEF SAdvance, sf_advance_tick
      <4>2. q = [t EXCEPT !.evt = @ + 1, !.tick = @ + 1]
        BY <4>1, Zenon DEF sf_advance_event
      <4>3. n = <<r.epoch, r.example_cnt, F, r.tick + 1, r.evt + 1>>
        BY <3>2, NextPlaceOf
      <4> QED BY <1>2, <1>4, <1>5, <1>7, <3>2, <4>2, <4>3 DEF Place, SameStage, StartFields
    <3>3. CASE r.phase = F /\ b /\ EndOfForward(r) /\ Training
      <4>1. q = sf_advance_event(t) /\ EndOfForward(t) /\ Training
        BY <1>1, <1>6, <3>3 DEF SAdvance, sf_advance_tick
      <4>2. q = [t EXCEPT !.evt = @ + 1, !.phase = B]
        BY <4>1, Zenon DEF sf_advance_event
      <4>3. n = <<r.epoch, r.example_cnt, B, r.tick, r.evt + 1>>
        BY <3>3, NextPlaceOf
      <4> QED BY <1>2, <1>4, <1>5, <1>7, <3>3, <4>2, <4>3 DEF Place, SameStage, StartFields
    <3>4. CASE r.phase = B /\ r.tick # END_TICK
      <4>1. q = [t EXCEPT !.tick = @ - 1]
        BY <1>1, <1>3, <3>4 DEF SAdvance, sb_advance_tick
      <4>2. n = <<r.epoch, r.example_cnt, B, r.tick - 1, r.evt>>
        BY <3>4, NextPlaceOf
      <4> QED BY <1>2, <1>4, <1>5, <1>7, <3>4, <4>1, <4>2 DEF Place, SameStage, StartFields
    <3> QED BY <1>3, <1>10, <3>1, <3>2, <3>3, <3>4 DEF Leaves
  <2>2. Rdv(r, q, Flow!EpochOver(n))
    BY <1>10, <2>1, StayInExample
  <2>3. StartShape(q)
    BY <1>4, <2>1 DEF StartShape, SameStage
  <2> QED BY <1>8, <2>1, <2>2, <2>3
<1> QED BY <1>9, <1>10

\* A sum core always has packets to wait for.
LEMMA ExpectedFacts ==
  ASSUME NEW s \in Sub
  PROVE  /\ fwd_expected \in Nat \ {0} /\ bkp_expected \in Nat \ {0}
         /\ fsgn_expected(s) \in Nat \ {0} /\ lds_expected(s) \in Nat \ {0}
         /\ Units \in Nat \ {0}
<1>1. Cardinality(Sub) \in Nat /\ Cardinality(Sub) # 0
  BY SubFacts, FS_CardinalityType, FS_EmptySet
<1>2. FromRoots(s) \in Nat
  BY RootsCount, FS_CardinalityType
<1>3. Units \in Nat \ {0}
  BY UnitFacts
<1>4. fwd_expected * Units \in Nat \ {0}
  <2>1. ASSUME NEW m \in Nat \ {0}, NEW k \in Nat \ {0}
        PROVE  m * k \in Nat \ {0}
    OBVIOUS
  <2> QED BY <1>1, <1>3, <2>1 DEF fwd_expected
<1> QED BY <1>1, <1>2, <1>3, <1>4 DEF fwd_expected, bkp_expected, fsgn_expected, lds_expected

\* the boards of a core that enters a tick are those of a tick in which
\* nothing has been handled
LEMMA SStartedBoards ==
  ASSUME FlowAndMachine, NEW s \in Sub, NEW q, SStarted(s, sc[s], q), S(s) \in Behind
  PROVE  /\ q.sf_arrived = NoneArrived /\ q.s_fsgn_arrived = 0
         /\ q.sb_arrived = NoneArrived /\ q.sb_done = 0
         /\ q.s_bsgn_arrived = 0 /\ q.s_lds_arrived = 0
         /\ q.sb_thrds_pend = sb_thrds_init(s) \cup IF sc[s].phase = F THEN {} ELSE LdsaThread(sc[s])
<1>1. SCoreOK(s)
  BY DEF FlowAndMachine, MachineInv, CoresOK
<1>2. sc[s].phase \in {F, B}
  <2>1. S(s) \in Cores /\ Rec(S(s)) = sc[s]
    BY CoreFacts, RecFacts
  <2>2. Flow!MayLeave(Place(Rec(S(s))), tc[LastSub].tick_stop)
    BY BehindFacts
  <2> QED BY <2>1, <2>2, NextPlaceOf
<1> QED BY <1>1, <1>2 DEF SCoreOK, SStarted, F, B

\* A sum core advances (sf_advance_tick, sb_advance_tick).
LEMMA SGoInv ==
  ASSUME FlowAndMachine, NEW p \in net, SStop(p) \/ SSync(p), UNCHANGED <<wc, ic, tc>>
  PROVE  FlowAndMachine' /\ Flow!Next
<1> DEFINE s == p.dst[2]
           a == p.dst
           r == sc[s]
           q == sc'[s]
<1>1. /\ p.kind \in {"stop", "sync"} /\ a[1] = "S" /\ net' = net \ {p}
      /\ p.kind = "stop" => sc' = [sc EXCEPT ![s] = sf_advance_tick(s, r, p.b)]
      /\ p.kind = "sync" => sc' = [sc EXCEPT ![s] = sb_advance_tick(s, r)]
  BY DEF SStop, SSync
<1>2. a \in Cores /\ s \in Sub /\ a = S(s) /\ DOMAIN sc = Sub /\ SShape(r) /\ SCoreOK(s)
  <2>1. a \in Cores
    BY DEF FlowAndMachine, MachineInv, NetOK, PacketOK
  <2>2. s \in Sub /\ a = S(s)
    BY <1>1, <2>1, CoreKinds
  <2> QED BY <2>1, <2>2 DEF FlowAndMachine, MachineInv, ShapeOK, CoresOK
<1>3. Rec(a) = r /\ Rec(a)' = q
  BY <1>2, RecFacts
<1>4. Others(a)
  BY <1>1, <1>2, CoresApart DEF Others
<1>5. Going(p)
  BY <1>1, <1>4 DEF Going
<1>6. /\ a \in Behind /\ a # LastT /\ Behind' = Behind \ {a}
      /\ IF Rec(a).phase = F THEN p.kind = "stop" /\ p.b = tc[LastSub].tick_stop ELSE p.kind = "sync"
  BY <1>5, GoingFacts
<1>7. Flow!MayLeave(Place(r), tc[LastSub].tick_stop) /\ Flow!NextPlace(Place(r), tc[LastSub].tick_stop) = cur
  BY <1>3, <1>6, BehindFacts
<1>8. q = SAdvance(s, r, tc[LastSub].tick_stop)
  BY <1>1, <1>2, <1>3, <1>6 DEF SAdvance
<1> HIDE DEF r, q
<1>9. /\ SShape(q) /\ Place(q) = cur /\ Rdv(r, q, Flow!EpochOver(cur)) /\ SStarted(s, r, q)
  BY <1>2, <1>7, <1>8, SAdvanceRecord
<1>10. DoneRight(a) /\ RendezvousOK(a)'
  <2>1. StartShape(Rec(a)) /\ Rdv(Rec(a), Rec(a)', Flow!EpochOver(cur))
    BY <1>2, <1>3, <1>9 DEF SShape
  <2> QED BY <1>1, <1>5, <2>1, GoingEpoch
<1>11. /\ q.sf_arrived = NoneArrived /\ q.s_fsgn_arrived = 0
       /\ q.sb_arrived = NoneArrived /\ q.sb_done = 0
       /\ q.s_bsgn_arrived = 0 /\ q.s_lds_arrived = 0
       /\ q.sb_thrds_pend = sb_thrds_init(s) \cup IF r.phase = F THEN {} ELSE LdsaThread(r)
  <2>1. SStarted(s, sc[s], q) /\ S(s) \in Behind
    BY <1>2, <1>6, <1>9 DEF r
  <2> QED BY <1>2, <2>1, SStartedBoards DEF r
<1>12. \A u \in Unit : NoneArrived[u] = 0
  BY DEF NoneArrived
<1>13. /\ fwd_expected # 0 /\ bkp_expected # 0 /\ fsgn_expected(s) # 0
       /\ lds_expected(s) # 0 /\ Units # 0
  BY <1>2, ExpectedFacts
<1>14. sc'[s] = q
  BY DEF q
<1>15. Fresh(a)'
  <2>1. /\ \A u \in Unit : ~NetWhole(s, u)' /\ ~ErrorWhole(s, u)'
        /\ ~FsgnIn(s)' /\ ~SBReported(s)' /\ ~LdsIn(s)'
    BY <1>11, <1>12, <1>13, <1>14 DEF NetWhole, ErrorWhole, FsgnIn, SBReported, LdsIn
  <2>2. a \notin WCores /\ \A t \in Sub : (a = S(t) => t = s) /\ a # T(t)
    BY <1>2, CoresApart DEF WCores
  <2> QED BY <2>1, <2>2 DEF Fresh
<1>16. SCoreOK(s)'
  <2>1. (\A k : GotInto(k, a)' = 0) /\ \A k, u : GotUnit(k, a, u)' = 0
    BY <1>5, <1>15, GoingGot
  <2>2. q.phase = F => q.sb_thrds_pend = sb_thrds_init(s)
    <3>1. CASE r.phase = F
      BY <1>11, <3>1
    <3>2. CASE r.phase # F /\ q.phase = F
      <4>1. r.phase = B /\ r.tick \in INIT_TICK .. GlobalMaxTicks - 1
        BY <1>7, <3>2, NextPlaceOf
      <4>2. r.tick = END_TICK
        <5>1. r.tick # END_TICK => cur = <<r.epoch, r.example_cnt, B, r.tick - 1, r.evt>>
          BY <1>7, <4>1, NextPlaceOf
        <5> QED BY <1>9, <3>2, <5>1 DEF Place, F, B
      <4>3. LdsaThread(r) = {}
        BY <4>2 DEF LdsaThread, END_TICK
      <4> QED BY <1>11, <3>2, <4>3
    <3> QED BY <3>1, <3>2
  <2>3. q.phase = B => q.sb_thrds_pend = SBThreads(s)'
    <3> SUFFICES ASSUME q.phase = B
                 PROVE  q.sb_thrds_pend = SBThreads(s)'
      OBVIOUS
    <3>1. SBThreads(s)' = sb_thrds_init(s) \cup (IF DeltasSummed(Place(q)) THEN {"LDSA"} ELSE {})
      BY <1>14 DEF SBThreads
    <3>2. DeltasSummed(Place(q)) <=> Dougs /\ q.example_cnt = NumExamples - 1 /\ q.tick = END_TICK
      BY DEF DeltasSummed, Place
    <3>3. CASE r.phase = F
      <4>1. cur = <<r.epoch, r.example_cnt, B, r.tick, r.evt + 1>> /\ tc[LastSub].tick_stop
        <5>1. cur[3] = B
          BY <1>9 DEF Place
        <5>2. Leaves(r, tc[LastSub].tick_stop) => cur[3] = F
          BY <1>7, NextPlaceOf DEF ExampleAfter
        <5>3. Training \in BOOLEAN /\ F # B
          BY StageAssumption DEF F, B
        <5> QED BY <1>7, <3>3, <5>1, <5>2, <5>3, NextPlaceOf DEF Leaves
      <4>2. q.tick = r.tick
        BY <1>9, <4>1 DEF Place
      <4>3. Dougs => r.tick # END_TICK
        BY <1>3, <1>6, <3>3, <4>1 DEF FlowAndMachine, MachineInv, PacedOK, INIT_TICK, END_TICK
      <4> QED BY <1>11, <3>1, <3>2, <3>3, <4>2, <4>3
    <3>4. CASE r.phase # F
      <4>1. r.phase = B /\ r.tick \in INIT_TICK .. GlobalMaxTicks - 1
        BY <1>7, <3>4, NextPlaceOf
      <4>2. cur = <<r.epoch, r.example_cnt, B, r.tick - 1, r.evt>>
        <5>1. Leaves(r, tc[LastSub].tick_stop) => cur[3] = F
          BY <1>7, NextPlaceOf DEF ExampleAfter
        <5>2. cur[3] = B /\ F # B
          BY <1>9 DEF Place, F, B
        <5> QED BY <1>7, <4>1, <5>1, <5>2, NextPlaceOf DEF Leaves
      <4>3. q.tick = r.tick - 1 /\ q.example_cnt = r.example_cnt
        BY <1>9, <4>2 DEF Place
      <4>4. q.tick = END_TICK <=> r.tick = END_TICK + 1
        BY <4>1, <4>3, StageAssumption DEF INIT_TICK, END_TICK
      <4> QED BY <1>11, <3>1, <3>2, <3>4, <4>3, <4>4 DEF LdsaThread
    <3> QED BY <3>3, <3>4
  <2>4. q.phase = B => ThreadsOK(q.sb_thrds_pend, SBThreads(s)', SBThreadsDone(s)')
    <3> SUFFICES ASSUME q.phase = B
                 PROVE  ThreadsOK(SBThreads(s)', SBThreads(s)', SBThreadsDone(s)')
      BY <2>3 DEF ThreadsOK
    <3>1. SBThreadsDone(s)' = IF bsgn_expected(s) = 0 THEN {"BSGN"} ELSE {}
      BY <1>11, <1>13, <1>14 DEF SBThreadsDone
    <3>2. "PROC" \in SBThreads(s)' /\ (bsgn_expected(s) = 0 => "BSGN" \notin SBThreads(s)')
      BY DEF SBThreads, sb_thrds_init
    <3> QED BY <3>1, <3>2 DEF ThreadsOK
  <2>5. Cardinality({u \in Unit : q.sb_arrived[u] = bkp_expected}) = 0
    <3>1. {u \in Unit : q.sb_arrived[u] = bkp_expected} = {}
      BY <1>11, <1>12, <1>13
    <3> QED BY <3>1, FS_EmptySet
  <2>6. q.sb_thrds_pend \subseteq sb_thrds_init(s) \cup {"LDSA"}
    BY <1>11 DEF LdsaThread
  <2>7. \A ph : In(S(s), ph)' => q.phase = ph
    BY <1>2, <1>3 DEF In
  <2>8. \A u \in Unit : q.sf_arrived[u] = 0 /\ q.sb_arrived[u] = 0
    BY <1>11, <1>12
  <2> QED BY <1>2, <1>11, <1>14, <2>1, <2>2, <2>4, <2>5, <2>6, <2>7, <2>8 DEF SCoreOK
<1>17. CoreOK(a)'
  <2>1. a \notin WCores /\ \A t \in Sub : (a = S(t) => t = s) /\ a # T(t) /\ a # I(t)
    BY <1>2, CoresApart DEF WCores
  <2> QED BY <1>9, <1>14, <1>16, <2>1 DEF CoreOK
<1>18. Place(Rec(a)') = cur
  BY <1>3, <1>9
<1> QED BY <1>5, <1>10, <1>15, <1>17, <1>18, GoingInv

(***************************************************************************)
(* Weight cores.                                                           *)
(***************************************************************************)
WAdvance(r, b) == IF r.phase = F THEN wf_advance_tick(r, b) ELSE wb_advance_tick(r)

WFields ==
  StartFields \cup
    {"wf_procs", "wf_arrived", "wb_arrived", "w_outputs", "w_output_history",
     "w_errors", "w_link_deltas", "w_lds_final", "epoch_rdy", "wf_pending"}

WGoFields == {"done", "wf_pending"}

\* A weight core ends the stage or starts to compute,
LEMMA WGoOnFacts ==
  ASSUME NEW x, DOMAIN x = WFields, NEW q, q = WGoOn(x)
  PROVE  /\ Frame(x, q, WGoFields)
         /\ x.net_stop => q.done = TRUE /\ q.wf_pending = x.wf_pending
         /\ ~x.net_stop => q.done = x.done /\ q.wf_pending = TRUE
<1>1. CASE x.net_stop
  <2>1. q = [x EXCEPT !.done = TRUE]
    BY <1>1 DEF WGoOn
  <2> QED BY <1>1, <2>1 DEF Frame, WGoFields, WFields, StartFields
<1>2. CASE ~x.net_stop
  <2>1. q = [x EXCEPT !.wf_pending = TRUE]
    BY <1>2 DEF WGoOn
  <2> QED BY <1>2, <2>1 DEF Frame, WGoFields, WFields, StartFields
<1> QED BY <1>1, <1>2

WExampleFields ==
  {"epoch", "example_cnt", "w_link_deltas", "net_stop_rdy", "evt", "w_outputs",
   "done", "wf_pending", "epoch_rdy"}

\* ends an example,
LEMMA WAdvanceExampleFacts ==
  ASSUME NEW x, DOMAIN x = WFields, x.net_stop_rdy \in BOOLEAN, NEW q, q = w_advance_example(x)
  PROVE  /\ Frame(x, q, WExampleFields) /\ q.evt = 0
         /\ IF EndOfEpoch(x) THEN q.epoch = x.epoch + 1 /\ q.example_cnt = 0
                             ELSE q.epoch = x.epoch /\ q.example_cnt = x.example_cnt + 1
         /\ ~EndOfEpoch(x) \/ x.net_stop_rdy =>
              /\ q.net_stop_rdy = FALSE /\ q.epoch_rdy = x.epoch_rdy
              /\ x.net_stop => q.done = TRUE /\ q.wf_pending = x.wf_pending
              /\ ~x.net_stop => q.done = x.done /\ q.wf_pending = TRUE
         /\ EndOfEpoch(x) /\ ~x.net_stop_rdy =>
              /\ q.net_stop_rdy = FALSE /\ q.epoch_rdy = TRUE
              /\ q.done = x.done /\ q.wf_pending = x.wf_pending
<1>1. PICK y : y = WNextExample(x)
  OBVIOUS
<1>2. /\ DOMAIN y = WFields
      /\ \A f \in WFields \ {"epoch", "example_cnt", "w_link_deltas", "net_stop_rdy"} : y[f] = x[f]
      /\ IF EndOfEpoch(x) THEN y.epoch = x.epoch + 1 /\ y.example_cnt = 0 /\ y.net_stop_rdy = x.net_stop_rdy
                          ELSE y.epoch = x.epoch /\ y.example_cnt = x.example_cnt + 1 /\ y.net_stop_rdy = TRUE
  <2>1. CASE EndOfEpoch(x)
    <3>1. y = [x EXCEPT !.epoch = @ + 1, !.example_cnt = 0,
                        !.w_link_deltas = IF Training THEN EmptyBag ELSE @]
      BY <1>1, <2>1 DEF WNextExample
    <3> QED BY <2>1, <3>1 DEF WFields, StartFields
  <2>2. CASE ~EndOfEpoch(x)
    <3>1. y = [x EXCEPT !.example_cnt = @ + 1, !.net_stop_rdy = TRUE]
      BY <1>1, <2>2 DEF WNextExample
    <3> QED BY <2>2, <3>1 DEF WFields, StartFields
  <2> QED BY <2>1, <2>2
<1>3. PICK z : z = [y EXCEPT !.evt = 0, !.w_outputs[x.wf_procs] = [i \in Unit |-> Initial]]
  OBVIOUS
<1>4. /\ DOMAIN z = WFields /\ z.evt = 0
      /\ \A f \in WFields \ {"evt", "w_outputs"} : z[f] = y[f]
  BY <1>2, <1>3 DEF WFields, StartFields
<1>5. q = IF z.net_stop_rdy THEN WGoOn([z EXCEPT !.net_stop_rdy = FALSE])
                            ELSE [z EXCEPT !.epoch_rdy = TRUE]
  BY <1>1, <1>3 DEF w_advance_example
<1>6. /\ z.net_stop_rdy = y.net_stop_rdy /\ z.net_stop = x.net_stop /\ z.done = x.done
      /\ z.wf_pending = x.wf_pending /\ z.epoch_rdy = x.epoch_rdy
      /\ z.epoch = y.epoch /\ z.example_cnt = y.example_cnt
      /\ \A f \in WFields \ WExampleFields : z[f] = x[f]
  BY <1>2, <1>4 DEF WFields, StartFields, WExampleFields
<1>7. CASE z.net_stop_rdy
  <2>1. PICK w : w = [z EXCEPT !.net_stop_rdy = FALSE]
    OBVIOUS
  <2>2. /\ DOMAIN w = WFields /\ w.net_stop_rdy = FALSE
        /\ \A f \in WFields \ {"net_stop_rdy"} : w[f] = z[f]
    BY <1>4, <2>1 DEF WFields, StartFields
  <2>3. q = WGoOn(w)
    BY <1>5, <1>7, <2>1
  <2>4. /\ Frame(w, q, WGoFields)
        /\ w.net_stop => q.done = TRUE /\ q.wf_pending = w.wf_pending
        /\ ~w.net_stop => q.done = w.done /\ q.wf_pending = TRUE
    BY <2>2, <2>3, WGoOnFacts
  <2>5. DOMAIN q = WFields /\ \A f \in WFields \ {"net_stop_rdy", "done", "wf_pending"} : q[f] = z[f]
    BY <2>2, <2>4 DEF Frame, WGoFields
  <2>6. q.net_stop_rdy = FALSE
    BY <2>2, <2>4 DEF Frame, WGoFields, WFields, StartFields
  <2>7. q.evt = 0 /\ q.epoch = y.epoch /\ q.example_cnt = y.example_cnt /\ q.epoch_rdy = x.epoch_rdy
    BY <1>4, <1>6, <2>5 DEF WFields, StartFields
  <2>8. w.net_stop = x.net_stop /\ w.done = x.done /\ w.wf_pending = x.wf_pending
    BY <1>6, <2>2 DEF WFields, StartFields
  <2>9. Frame(x, q, WExampleFields)
    BY <1>6, <2>5 DEF Frame, WExampleFields
  <2> QED BY <1>2, <1>6, <1>7, <2>4, <2>6, <2>7, <2>8, <2>9
<1>8. CASE ~z.net_stop_rdy
  <2>1. q = [z EXCEPT !.epoch_rdy = TRUE]
    BY <1>5, <1>8
  <2>2. DOMAIN q = WFields /\ q.epoch_rdy = TRUE /\ \A f \in WFields \ {"epoch_rdy"} : q[f] = z[f]
    BY <1>4, <2>1 DEF WFields, StartFields
  <2>3. /\ q.evt = 0 /\ q.epoch = y.epoch /\ q.example_cnt = y.example_cnt
        /\ q.done = x.done /\ q.wf_pending = x.wf_pending /\ q.net_stop_rdy = y.net_stop_rdy
    BY <1>4, <1>6, <2>2 DEF WFields, StartFields
  <2>4. Frame(x, q, WExampleFields)
    BY <1>6, <2>2 DEF Frame, WExampleFields
  <2>5. EndOfEpoch(x) /\ x.net_stop_rdy = FALSE
    BY <1>2, <1>6, <1>8
  <2> QED BY <1>2, <2>2, <2>3, <2>4, <2>5
<1> QED BY <1>7, <1>8

\* clears its scoreboards.
LEMMA WTickInitFacts ==
  ASSUME NEW r, WShape(r), r.phase \in {F, B}, NEW q, q = WTickInit(r),
         r.phase = F => r.wb_arrived = 0, r.phase = B => r.wf_arrived = 0
  PROVE  /\ Frame(r, q, {"wf_arrived", "wf_procs", "wb_arrived", "w_errors"})
         /\ q.wf_arrived = 0 /\ q.wb_arrived = 0 /\ q.wf_procs \in 0 .. 1
<1>1. DOMAIN r = WFields /\ r.wf_procs \in 0 .. 1
  BY DEF WShape, WFields
<1>2. CASE r.phase = F
  <2>1. q = [r EXCEPT !.wf_arrived = 0, !.wf_procs = 1 - @]
    BY <1>2 DEF WTickInit
  <2>2. q.wf_arrived = 0 /\ q.wf_procs = 1 - r.wf_procs /\ q.wb_arrived = r.wb_arrived
    BY <1>1, <2>1 DEF WFields, StartFields
  <2>3. Frame(r, q, {"wf_arrived", "wf_procs", "wb_arrived", "w_errors"})
    BY <1>1, <2>1 DEF Frame, WFields, StartFields
  <2> QED BY <1>1, <1>2, <2>2, <2>3
<1>3. CASE r.phase # F
  <2>1. q = [r EXCEPT !.wb_arrived = 0, !.w_errors = EmptyBag]
    BY <1>3 DEF WTickInit
  <2> QED BY <1>1, <1>3, <2>1 DEF Frame, WFields, StartFields
<1> QED BY <1>2, <1>3

\* the core has opened the next epoch, or not, or goes on within the epoch
WRdv(r, q, over) ==
  /\ q.net_stop = r.net_stop /\ q.net_stop_rdy = FALSE
  /\ over /\ r.net_stop_rdy =>
       /\ q.epoch_rdy = FALSE
       /\ r.net_stop => q.done = TRUE /\ q.wf_pending = FALSE
       /\ ~r.net_stop => q.done = FALSE /\ q.wf_pending = TRUE
  /\ over /\ ~r.net_stop_rdy => q.epoch_rdy = TRUE /\ q.done = FALSE /\ q.wf_pending = FALSE
  /\ ~over => q.epoch_rdy = FALSE /\ q.done = FALSE /\ (q.wf_pending <=> q.phase = F)

\* A weight core's record after the advance.
LEMMA WAdvanceRecord ==
  ASSUME NEW r, WShape(r), NEW b, Flow!MayLeave(Place(r), b), NEW q, q = WAdvance(r, b),
         r.phase = F => r.wb_arrived = 0, r.phase = B => r.wf_arrived = 0,
         ~r.wf_pending, ~r.epoch_rdy, ~r.done,
         ~Flow!EpochOver(Flow!NextPlace(Place(r), b)) => ~r.net_stop /\ ~r.net_stop_rdy
  PROVE  /\ WShape(q) /\ Place(q) = Flow!NextPlace(Place(r), b)
         /\ q.wf_arrived = 0 /\ q.wb_arrived = 0
         /\ WRdv(r, q, Flow!EpochOver(Flow!NextPlace(Place(r), b)))
<1> DEFINE n == Flow!NextPlace(Place(r), b)
<1>1. PICK t : t = WTickInit(r)
  OBVIOUS
<1>2. r.phase \in {F, B} /\ F # B /\ Training \in BOOLEAN
  BY NextPlaceOf, StageAssumption DEF F, B
<1>3. /\ Frame(r, t, {"wf_arrived", "wf_procs", "wb_arrived", "w_errors"})
      /\ t.wf_arrived = 0 /\ t.wb_arrived = 0 /\ t.wf_procs \in 0 .. 1
  BY <1>1, <1>2, WTickInitFacts
<1>4. DOMAIN r = WFields /\ DOMAIN t = WFields
  BY <1>3 DEF WShape, WFields, Frame
<1>5. /\ r.net_stop \in BOOLEAN /\ r.net_stop_rdy \in BOOLEAN /\ r.done = FALSE
      /\ r.wf_pending = FALSE /\ r.epoch_rdy = FALSE
  BY DEF WShape, StartShape
<1>6. /\ t.phase = r.phase /\ t.tick = r.tick /\ t.evt = r.evt /\ t.epoch = r.epoch
      /\ t.example_cnt = r.example_cnt /\ t.net_stop = r.net_stop
      /\ t.net_stop_rdy = r.net_stop_rdy /\ t.done = FALSE
      /\ t.wf_pending = FALSE /\ t.epoch_rdy = FALSE
  BY <1>3, <1>4, <1>5 DEF Frame, WFields, StartFields
<1>7. EndOfForward(t) <=> EndOfForward(r)
  BY <1>6 DEF EndOfForward
<1>8. CASE Leaves(r, b)
  <2>1. PICK x : /\ q = w_advance_example(x) /\ DOMAIN x = WFields /\ x.tick = INIT_TICK /\ x.phase = F
                 /\ \A f \in WFields \ {"tick", "phase"} : x[f] = t[f]
    <3>1. CASE r.phase = F
      <4> DEFINE x == [t EXCEPT !.tick = INIT_TICK]
      <4>1. q = wf_advance_event(t)
        BY <1>1, <1>2, <1>8, <3>1 DEF WAdvance, wf_advance_tick, Leaves
      <4>2. EndOfForward(t) /\ ~Training
        BY <1>2, <1>7, <1>8, <3>1 DEF Leaves
      <4>3. q = w_advance_example(x)
        BY <4>1, <4>2, Zenon DEF wf_advance_event
      <4>4. /\ DOMAIN x = WFields /\ x.tick = INIT_TICK /\ x.phase = F
            /\ \A f \in WFields \ {"tick", "phase"} : x[f] = t[f]
        BY <1>4, <1>6, <3>1 DEF WFields, StartFields
      <4> QED BY <4>3, <4>4
    <3>2. CASE r.phase # F
      <4> DEFINE x == [t EXCEPT !.tick = INIT_TICK, !.phase = F]
      <4>1. q = w_advance_example(x)
        BY <1>1, <1>8, <3>2 DEF WAdvance, wb_advance_tick, Leaves
      <4>2. /\ DOMAIN x = WFields /\ x.tick = INIT_TICK /\ x.phase = F
            /\ \A f \in WFields \ {"tick", "phase"} : x[f] = t[f]
        BY <1>4 DEF WFields, StartFields
      <4> QED BY <4>1, <4>2
    <3> QED BY <3>1, <3>2
  <2>2. /\ x.net_stop = r.net_stop /\ x.net_stop_rdy = r.net_stop_rdy /\ x.done = FALSE
        /\ x.wf_pending = FALSE /\ x.epoch_rdy = FALSE
        /\ x.epoch = r.epoch /\ x.example_cnt = r.example_cnt
        /\ x.wf_arrived = 0 /\ x.wb_arrived = 0 /\ x.wf_procs \in 0 .. 1
    BY <1>3, <1>6, <2>1 DEF WFields, StartFields
  <2>3. EndOfEpoch(x) <=> EndOfEpoch(r)
    BY <2>2 DEF EndOfEpoch
  <2>4. n = ExampleAfter(r) /\ (Flow!EpochOver(n) <=> EndOfEpoch(r))
    BY <1>8, NextPlaceOf
  <2>5. /\ Frame(x, q, WExampleFields) /\ q.evt = 0
        /\ IF EndOfEpoch(x) THEN q.epoch = x.epoch + 1 /\ q.example_cnt = 0
                            ELSE q.epoch = x.epoch /\ q.example_cnt = x.example_cnt + 1
        /\ ~EndOfEpoch(x) \/ x.net_stop_rdy =>
              /\ q.net_stop_rdy = FALSE /\ q.epoch_rdy = x.epoch_rdy
              /\ x.net_stop => q.done = TRUE /\ q.wf_pending = x.wf_pending
              /\ ~x.net_stop => q.done = x.done /\ q.wf_pending = TRUE
        /\ EndOfEpoch(x) /\ ~x.net_stop_rdy =>
              /\ q.net_stop_rdy = FALSE /\ q.epoch_rdy = TRUE
              /\ q.done = x.done /\ q.wf_pending = x.wf_pending
    BY <1>5, <2>1, <2>2, WAdvanceExampleFacts
  <2>6. /\ DOMAIN q = WFields /\ q.tick = INIT_TICK /\ q.phase = F /\ q.net_stop = r.net_stop
        /\ q.wf_arrived = 0 /\ q.wb_arrived = 0 /\ q.wf_procs \in 0 .. 1
    BY <2>1, <2>2, <2>5 DEF Frame, WExampleFields, WFields, StartFields
  <2>7. Place(q) = n
    BY <2>2, <2>3, <2>4, <2>5, <2>6 DEF Place, ExampleAfter
  <2>8. WRdv(r, q, Flow!EpochOver(n))
    BY <1>5, <2>2, <2>3, <2>4, <2>5, <2>6 DEF WRdv
  <2>10. q.done = FALSE \/ q.done = TRUE
    BY <1>5, <2>8 DEF WRdv
  <2>11. q.wf_pending = FALSE \/ q.wf_pending = TRUE
    BY <1>2, <1>5, <2>2, <2>3, <2>5
  <2>12. q.epoch_rdy = FALSE \/ q.epoch_rdy = TRUE
    BY <1>5, <2>8 DEF WRdv
  <2>9. q.done \in BOOLEAN /\ q.net_stop_rdy \in BOOLEAN /\ q.epoch_rdy \in BOOLEAN /\ q.wf_pending \in BOOLEAN
    BY <2>8, <2>10, <2>11, <2>12 DEF WRdv
  <2> QED BY <1>5, <2>6, <2>7, <2>8, <2>9 DEF WShape, StartShape, WFields
<1>9. CASE ~Leaves(r, b)
  <2>1. /\ Place(q) = n
        /\ Frame(t, q, {"tick", "evt", "phase", "wf_pending", "w_outputs"})
        /\ q.wf_pending \in BOOLEAN /\ (q.wf_pending <=> q.phase = F)
    <3>1. CASE r.phase = F /\ ~b
      <4>1. q = [t EXCEPT !.tick = @ + 1, !.wf_pending = TRUE]
        BY <1>1, <3>1 DEF WAdvance, wf_advance_tick
      <4>2. n = <<r.epoch, r.example_cnt, F, r.tick + 1, r.evt>>
        BY <3>1, NextPlaceOf
      <4> QED BY <1>4, <1>6, <3>1, <4>1, <4>2 DEF Place, Frame, WFields, StartFields
    <3>2. CASE r.phase = F /\ b /\ ~EndOfForward(r)
      <4>1. q = wf_advance_event(t)
        BY <1>1, <3>2 DEF WAdvance, wf_advance_tick
      <4>2. q = [t EXCEPT !.evt = @ + 1, !.tick = @ + 1, !.wf_pending = TRUE]
        BY <1>7, <3>2, <4>1, Zenon DEF wf_advance_event
      <4>3. n = <<r.epoch, r.example_cnt, F, r.tick + 1, r.evt + 1>>
        BY <3>2, NextPlaceOf
      <4> QED BY <1>4, <1>6, <3>2, <4>2, <4>3 DEF Place, Frame, WFields, StartFields
    <3>3. CASE r.phase = F /\ b /\ EndOfForward(r) /\ Training
      <4>1. q = wf_advance_event(t)
        BY <1>1, <3>3 DEF WAdvance, wf_advance_tick
      <4>2. q = w_switch_to_bp([t EXCEPT !.evt = @ + 1])
        BY <1>7, <3>3, <4>1, Zenon DEF wf_advance_event
      <4>3. PICK y : y = [[t EXCEPT !.evt = @ + 1] EXCEPT !.phase = B]
        OBVIOUS
      <4>4. /\ DOMAIN y = WFields /\ y.evt = t.evt + 1 /\ y.phase = B
            /\ \A f \in WFields \ {"evt", "phase"} : y[f] = t[f]
        BY <1>4, <4>3 DEF WFields, StartFields
      <4>5. PICK v : q = [y EXCEPT !.w_outputs[0] = v]
        BY <4>2, <4>3 DEF w_switch_to_bp, restore_outputs
      <4>6. n = <<r.epoch, r.example_cnt, B, r.tick, r.evt + 1>>
        BY <3>3, NextPlaceOf
      <4>7. /\ DOMAIN q = WFields /\ q.evt = t.evt + 1 /\ q.phase = B /\ q.wf_pending = FALSE
            /\ \A f \in WFields \ {"evt", "phase", "w_outputs"} : q[f] = t[f]
        BY <1>6, <4>4, <4>5 DEF WFields, StartFields
      <4>8. q.epoch = t.epoch /\ q.example_cnt = t.example_cnt /\ q.tick = t.tick
        BY <4>7 DEF WFields, StartFields
      <4> QED BY <1>2, <1>4, <1>6, <3>3, <4>6, <4>7, <4>8 DEF Place, Frame
    <3>4. CASE r.phase = B /\ r.tick # END_TICK
      <4>1. PICK v : q = [[t EXCEPT !.tick = @ - 1] EXCEPT !.w_outputs[0] = v]
        BY <1>1, <1>2, <3>4 DEF WAdvance, wb_advance_tick, restore_outputs
      <4>2. n = <<r.epoch, r.example_cnt, B, r.tick - 1, r.evt>>
        BY <3>4, NextPlaceOf
      <4>3. /\ DOMAIN q = WFields /\ q.tick = t.tick - 1
            /\ \A f \in WFields \ {"tick", "w_outputs"} : q[f] = t[f]
        BY <1>4, <4>1 DEF WFields, StartFields
      <4>4. /\ q.epoch = t.epoch /\ q.example_cnt = t.example_cnt /\ q.evt = t.evt
            /\ q.phase = B /\ q.wf_pending = FALSE
        BY <1>6, <3>4, <4>3 DEF WFields, StartFields
      <4> QED BY <1>2, <1>4, <1>6, <3>4, <4>2, <4>3, <4>4 DEF Place, Frame
    <3> QED BY <1>2, <1>9, <3>1, <3>2, <3>3, <3>4 DEF Leaves
  <2>2. ~Flow!EpochOver(n)
    BY <1>9, NextPlaceOf
  <2>3. r.net_stop = FALSE /\ r.net_stop_rdy = FALSE
    BY <1>5, <2>2
  <2>4. /\ DOMAIN q = WFields /\ q.net_stop = FALSE /\ q.net_stop_rdy = FALSE /\ q.done = FALSE
        /\ q.epoch_rdy = FALSE /\ q.wf_procs \in 0 .. 1 /\ q.wf_arrived = 0 /\ q.wb_arrived = 0
    BY <1>3, <1>4, <1>6, <2>1, <2>3 DEF Frame, WFields, StartFields
  <2>5. WRdv(r, q, Flow!EpochOver(n))
    BY <2>1, <2>2, <2>3, <2>4 DEF WRdv
  <2> QED BY <2>1, <2>4, <2>5 DEF WShape, StartShape, WFields
<1> QED BY <1>8, <1>9

\* A weight core advances (wf_advance_tick, wb_advance_tick).
LEMMA WGoInv ==
  ASSUME FlowAndMachine, NEW p \in net, WStop(p) \/ WSync(p), UNCHANGED <<sc, ic, tc>>
  PROVE  FlowAndMachine' /\ Flow!Next
<1> DEFINE a == p.dst
           r == wc[a]
           q == wc'[a]
           over == Flow!EpochOver(cur)
<1>1. /\ p.kind \in {"stop", "sync"} /\ a \in WCores /\ net' = net \ {p}
      /\ p.kind = "stop" => wc' = [wc EXCEPT ![a] = wf_advance_tick(r, p.b)]
      /\ p.kind = "sync" => wc' = [wc EXCEPT ![a] = wb_advance_tick(r)]
  BY DEF WStop, WSync
<1>2. a \in Cores /\ DOMAIN wc = WCores /\ WShape(r) /\ WCoreOK(a)
  <2>1. a \in Cores
    BY DEF FlowAndMachine, MachineInv, NetOK, PacketOK
  <2> QED BY <1>1, <2>1 DEF FlowAndMachine, MachineInv, ShapeOK, CoresOK
<1>3. Rec(a) = r /\ Rec(a)' = q /\ a[1] = "W"
  BY <1>1, <1>2, RecFacts DEF WCores, W
<1>4. Others(a)
  BY <1>1, <1>2, CoresApart DEF Others
<1>5. Going(p)
  BY <1>1, <1>4 DEF Going
<1>6. /\ a \in Behind /\ a # LastT /\ Behind' = Behind \ {a}
      /\ tc'[LastSub] = tc[LastSub] /\ cur' = cur
      /\ (Opened(a)' <=> over) /\ (Told(a)' <=> Told(a))
      /\ IF Rec(a).phase = F THEN p.kind = "stop" /\ p.b = tc[LastSub].tick_stop ELSE p.kind = "sync"
  BY <1>5, GoingFacts
<1>7. /\ Flow!MayLeave(Place(r), tc[LastSub].tick_stop)
      /\ Flow!NextPlace(Place(r), tc[LastSub].tick_stop) = cur
      /\ ~Opened(a) /\ (\A ph : ~In(a, ph)) /\ ~r.done
      /\ tc[LastSub].done /\ a \notin Heading({"stpn"}) => Told(a)
      /\ Told(a) => over /\ a \notin Heading({"stpn"})
  BY <1>3, <1>6, BehindFacts
<1>8. q = WAdvance(r, tc[LastSub].tick_stop)
  BY <1>1, <1>2, <1>3, <1>6 DEF WAdvance
<1>9. /\ r.phase = F => r.wb_arrived = 0
      /\ r.phase = B => r.wf_arrived = 0
      /\ ~r.wf_pending
  BY <1>2, <1>7 DEF WCoreOK
<1>10. RendezvousOK(a)
  BY <1>2, <1>6 DEF FlowAndMachine, MachineInv, EpochOK
<1> HIDE DEF r, q
<1>11. /\ Told(a) => r.net_stop = tc[LastSub].done
       /\ r.net_stop_rdy <=> Told(a)
       /\ ~r.epoch_rdy
       /\ ~Told(a) => ~r.net_stop
  BY <1>3, <1>7, <1>10 DEF RendezvousOK
<1>12. /\ WShape(q) /\ Place(q) = cur /\ q.wf_arrived = 0 /\ q.wb_arrived = 0
       /\ WRdv(r, q, over)
  <2>1. ~over => ~r.net_stop /\ ~r.net_stop_rdy
    BY <1>7, <1>11
  <2> QED BY <1>2, <1>7, <1>8, <1>9, <1>11, <2>1, WAdvanceRecord
<1>13. r.net_stop \in BOOLEAN /\ tc[LastSub].done \in BOOLEAN
  <2>1. LastSub \in Sub
    BY LastSubFacts
  <2> QED BY <1>2, <2>1 DEF WShape, StartShape, FlowAndMachine, MachineInv, ShapeOK, TShape
<1>14. over => q.phase = F
  BY <1>12 DEF Place, Flow!EpochOver, F
<1>15. DoneRight(a)
  <2>1. q.done <=> tc[LastSub].done /\ a \notin Heading({"stpn"})
    <3>1. CASE over /\ Told(a)
      BY <1>7, <1>11, <1>12, <1>13, <3>1 DEF WRdv
    <3>2. CASE over /\ ~Told(a)
      BY <1>7, <1>11, <1>12, <3>2 DEF WRdv
    <3>3. CASE ~over
      BY <1>7, <1>12, <3>3 DEF WRdv
    <3> QED BY <3>1, <3>2, <3>3
  <2> QED BY <1>3, <2>1 DEF DoneRight
<1>16. RendezvousOK(a)'
  <2>1. Told(a)' => q.net_stop = tc'[LastSub].done
    BY <1>6, <1>11, <1>12 DEF WRdv
  <2>2. ~q.net_stop_rdy /\ ~(Told(a)' /\ ~Opened(a)')
    BY <1>6, <1>7, <1>12 DEF WRdv
  <2>3. q.epoch_rdy <=> Opened(a)' /\ ~Told(a)'
    BY <1>6, <1>7, <1>11, <1>12 DEF WRdv
  <2>4. ~Told(a)' => ~q.net_stop
    BY <1>6, <1>11, <1>12 DEF WRdv
  <2> QED BY <1>3, <2>1, <2>2, <2>3, <2>4 DEF RendezvousOK
<1>17. q.wf_pending => q.phase = F /\ ~q.epoch_rdy /\ ~q.done
  BY <1>12, <1>14 DEF WRdv
<1>18. q.phase = F /\ ~q.wf_pending => q.epoch_rdy \/ q.done
  BY <1>12, <1>13 DEF WRdv
<1>19. wc'[a] = q
  BY DEF q
<1>20. Fresh(a)'
  <2>1. Units # 0
    BY UnitFacts
  <2>2. ~Products(a)' /\ ~OutputsIn(a)' /\ ~DeltasIn(a)'
    BY <1>3, <1>12, <1>18, <1>19, <2>1 DEF Products, OutputsIn, DeltasIn, In
  <2>3. \A s \in Sub : a # S(s) /\ a # T(s)
    BY <1>3, CoresApart DEF S, T
  <2> QED BY <2>2, <2>3 DEF Fresh
<1>21. WCoreOK(a)'
  <2>1. \A k : GotInto(k, a)' = 0
    BY <1>5, <1>20, GoingGot
  <2>2. q.wf_pending => In(a, F)'
    BY <1>3, <1>6, <1>17 DEF In
  <2> QED BY <1>12, <1>17, <1>19, <2>1, <2>2 DEF WCoreOK
<1>22. CoreOK(a)'
  <2>1. \A s \in Sub : a # S(s) /\ a # T(s) /\ a # I(s)
    BY <1>3 DEF S, T, I
  <2> QED BY <1>12, <1>19, <1>21, <2>1 DEF CoreOK
<1>23. Place(Rec(a)') = cur
  BY <1>3, <1>12
<1> QED BY <1>5, <1>15, <1>16, <1>20, <1>22, <1>23, GoingInv

(***************************************************************************)
(* Threshold cores.                                                        *)
(***************************************************************************)
TAdvances(s, r, b) == IF r.phase = F THEN TFAdvance(s, r, b) ELSE TBAdvance(s, r)

TFields ==
  StartFields \cup
    {"ev_tick", "max_evt", "tf_arrived", "tf_crit_arrived", "tf_thrds_pend", "tf_met",
     "tf_crit_prev", "tf_stop_crit", "tf_group_crit", "tf_event_crit",
     "tf_example_crit", "tb_arrived", "tb_bsgn_arrived", "tb_thrds_pend", "tb_procs",
     "t_errors", "t_outputs", "t_output_history", "tick_stop", "advance", "tb_pending"}

TBoardFields ==
  {"tf_thrds_pend", "tf_arrived", "tf_crit_arrived", "tf_crit_prev", "tf_stop_crit",
   "tf_met", "tb_thrds_pend", "tb_arrived", "tb_bsgn_arrived", "tb_procs"}

\* nothing of a tick has been handled
TClear(s, r) ==
  /\ r.tf_arrived = 0 /\ r.tf_crit_arrived = 0 /\ r.tf_thrds_pend = tf_thrds_init(s)
  /\ r.tb_arrived = 0 /\ r.tb_bsgn_arrived = 0 /\ r.tb_thrds_pend = tb_thrds_init(s)
  /\ r.tb_procs \in 0 .. 1

\* nor of the other phase
THalfClear(s, r) ==
  /\ r.phase = F => /\ r.tb_arrived = 0 /\ r.tb_bsgn_arrived = 0
                    /\ r.tb_thrds_pend = tb_thrds_init(s)
  /\ r.phase = B => /\ r.tf_arrived = 0 /\ r.tf_crit_arrived = 0
                    /\ r.tf_thrds_pend = tf_thrds_init(s)

\* A threshold core's tick_init clears its scoreboards.
LEMMA TTickInitFacts ==
  ASSUME NEW s, NEW r, TShape(r), r.phase \in {F, B}, THalfClear(s, r), NEW q, q = TTickInit(s, r)
  PROVE  Frame(r, q, TBoardFields) /\ TClear(s, q) /\ DOMAIN q = TFields
<1>1. DOMAIN r = TFields /\ r.tb_procs \in 0 .. 1
  BY DEF TShape, TFields
<1>2. CASE r.phase = F
  <2>1. q = [r EXCEPT !.tf_thrds_pend = tf_thrds_init(s), !.tf_arrived = 0,
            !.tf_crit_arrived = 0, !.tf_crit_prev = TRUE, !.tf_stop_crit = TRUE,
            !.tf_met = [u \in Unit |-> TRUE]]
    BY <1>2 DEF TTickInit, TFTickInit
  <2>2. Frame(r, q, TBoardFields)
    BY <1>1, <2>1 DEF Frame, TBoardFields, TFields, StartFields
  <2>3. q.tf_arrived = 0 /\ q.tf_crit_arrived = 0 /\ q.tf_thrds_pend = tf_thrds_init(s)
    BY <1>1, <2>1 DEF TFields, StartFields
  <2>4. /\ q.tb_arrived = r.tb_arrived /\ q.tb_bsgn_arrived = r.tb_bsgn_arrived
        /\ q.tb_thrds_pend = r.tb_thrds_pend /\ q.tb_procs = r.tb_procs
    BY <1>1, <2>1 DEF TFields, StartFields
  <2> QED BY <1>1, <1>2, <2>2, <2>3, <2>4 DEF THalfClear, TClear, Frame
<1>3. CASE r.phase # F
  <2>1. q = [r EXCEPT !.tb_thrds_pend = tb_thrds_init(s), !.tb_arrived = 0,
            !.tb_bsgn_arrived = 0, !.tb_procs = 1 - @]
    BY <1>3 DEF TTickInit, TBTickInit
  <2>2. Frame(r, q, TBoardFields)
    BY <1>1, <2>1 DEF Frame, TBoardFields, TFields, StartFields
  <2>3. q.tb_arrived = 0 /\ q.tb_bsgn_arrived = 0 /\ q.tb_thrds_pend = tb_thrds_init(s)
    BY <1>1, <2>1 DEF TFields, StartFields
  <2>4. q.tb_procs = 1 - r.tb_procs
    BY <1>1, <2>1 DEF TFields, StartFields
  <2>5. /\ q.tf_arrived = r.tf_arrived /\ q.tf_crit_arrived = r.tf_crit_arrived
        /\ q.tf_thrds_pend = r.tf_thrds_pend
    BY <1>1, <2>1 DEF TFields, StartFields
  <2>6. q.tb_procs \in 0 .. 1
    BY <1>1, <2>4
  <2> QED BY <1>1, <1>3, <2>2, <2>3, <2>5, <2>6 DEF THalfClear, TClear, Frame
<1> QED BY <1>2, <1>3

TExampleFields == ExampleFields \cup {"tf_event_crit", "tf_example_crit"}

\* A threshold core ends an example.
LEMMA TAdvanceExampleFacts ==
  ASSUME NEW s, NEW x, DOMAIN x = TFields, NEW q, q = t_advance_example(s, x)
  PROVE  /\ Frame(x, q, TExampleFields) /\ q.evt = 0
         /\ IF EndOfEpoch(x) THEN q.epoch = x.epoch + 1 /\ q.example_cnt = 0
                             ELSE q.epoch = x.epoch /\ q.example_cnt = x.example_cnt + 1
         /\ ~IsLast(s) => Rdv(x, q, EndOfEpoch(x))
         /\ IsLast(s) => /\ q.net_stop = x.net_stop /\ q.net_stop_rdy = x.net_stop_rdy
                         /\ q.done = IF EndOfEpoch(x) THEN EndOfStage(x) ELSE x.done
<1>1. StartFields \subseteq DOMAIN x
  BY DEF TFields
<1>2. PICK y : y = IF IsLast(s) /\ EndOfEpoch(x)
                     THEN [x EXCEPT !.epoch = @ + 1, !.example_cnt = 0, !.evt = 0,
                                    !.done = EndOfStage(x)]
                     ELSE AdvanceExample(x)
  OBVIOUS
<1>3. q = [y EXCEPT !.tf_event_crit = TRUE,
                    !.tf_example_crit = IF EndOfEpoch(x) THEN TRUE ELSE @]
  BY <1>2 DEF t_advance_example
<1>4. /\ Frame(x, y, ExampleFields) /\ y.evt = 0
      /\ IF EndOfEpoch(x) THEN y.epoch = x.epoch + 1 /\ y.example_cnt = 0
                          ELSE y.epoch = x.epoch /\ y.example_cnt = x.example_cnt + 1
      /\ ~IsLast(s) => Rdv(x, y, EndOfEpoch(x))
      /\ IsLast(s) => /\ y.net_stop = x.net_stop /\ y.net_stop_rdy = x.net_stop_rdy
                      /\ y.done = IF EndOfEpoch(x) THEN EndOfStage(x) ELSE x.done
  <2>1. CASE IsLast(s) /\ EndOfEpoch(x)
    <3>1. y = [x EXCEPT !.epoch = @ + 1, !.example_cnt = 0, !.evt = 0, !.done = EndOfStage(x)]
      BY <1>2, <2>1
    <3>2. Frame(x, y, ExampleFields)
      BY <3>1 DEF Frame, ExampleFields, TFields, StartFields
    <3>3. /\ y.evt = 0 /\ y.epoch = x.epoch + 1 /\ y.example_cnt = 0 /\ y.done = EndOfStage(x)
          /\ y.net_stop = x.net_stop /\ y.net_stop_rdy = x.net_stop_rdy
      BY <3>1 DEF TFields, StartFields
    <3> QED BY <2>1, <3>2, <3>3
  <2>2. CASE ~(IsLast(s) /\ EndOfEpoch(x))
    <3>1. y = AdvanceExample(x)
      BY <1>2, <2>2
    <3>2. /\ Frame(x, y, ExampleFields) /\ Rdv(x, y, EndOfEpoch(x)) /\ y.evt = 0
          /\ IF EndOfEpoch(x) THEN y.epoch = x.epoch + 1 /\ y.example_cnt = 0
                              ELSE y.epoch = x.epoch /\ y.example_cnt = x.example_cnt + 1
      BY <1>1, <3>1, AdvanceExampleFacts
    <3> QED BY <2>2, <3>2 DEF Rdv
  <2> QED BY <2>1, <2>2
<1>5. DOMAIN y = TFields
  BY <1>4 DEF Frame
<1>6. DOMAIN q = TFields /\ \A f \in TFields \ {"tf_event_crit", "tf_example_crit"} : q[f] = y[f]
  BY <1>3, <1>5
<1>7. /\ q.evt = y.evt /\ q.epoch = y.epoch /\ q.example_cnt = y.example_cnt
      /\ q.net_stop = y.net_stop /\ q.net_stop_rdy = y.net_stop_rdy /\ q.done = y.done
  BY <1>6 DEF TFields, StartFields
<1>8. Frame(x, q, TExampleFields)
  BY <1>4, <1>5, <1>6 DEF Frame, TExampleFields
<1> QED BY <1>4, <1>7, <1>8 DEF Rdv

\* the record that the decision to end the stage is taken from
Ended(s, r) == IF r.phase = F THEN r ELSE AfterBackprop(s, r)

TAdvanced(s, r, b, q) ==
  LET n == Flow!NextPlace(Place(r), b)
      over == Flow!EpochOver(n)
  IN /\ TShape(q) /\ TClear(s, q) /\ Place(q) = n
     /\ q.tb_pending <=> q.phase = B
     /\ q.advance = r.advance /\ q.tick_stop = r.tick_stop
     /\ ~IsLast(s) => Rdv(r, q, over)
     /\ IsLast(s) => q.done = IF over THEN EndOfStage(Ended(s, r)) ELSE r.done
     /\ q.phase = F /\ q.tick = INIT_TICK => q.ev_tick = INIT_TICK

\* Its record when it leaves the example,
LEMMA TLeaves ==
  ASSUME NEW s, NEW r, TShape(r), NEW b, Flow!MayLeave(Place(r), b), Leaves(r, b),
         ~r.tb_pending, NEW t, Frame(r, t, TBoardFields), TClear(s, t),
         NEW x, Frame(t, x, {"tick", "ev_tick", "phase", "tf_event_crit", "max_evt", "tf_example_crit"}),
         x.tick = INIT_TICK, x.ev_tick = INIT_TICK, x.phase = F,
         EndOfStage(x) = EndOfStage(Ended(s, r)),
         NEW q, q = t_advance_example(s, x)
  PROVE  TAdvanced(s, r, b, q)
<1> DEFINE n == Flow!NextPlace(Place(r), b)
<1>1. DOMAIN r = TFields /\ DOMAIN t = TFields /\ DOMAIN x = TFields
  BY DEF TShape, TFields, Frame
<1>2. /\ t.epoch = r.epoch /\ t.example_cnt = r.example_cnt /\ t.net_stop = r.net_stop
      /\ t.net_stop_rdy = r.net_stop_rdy /\ t.done = r.done /\ t.tb_pending = r.tb_pending
      /\ t.advance = r.advance /\ t.tick_stop = r.tick_stop
  BY <1>1 DEF Frame, TBoardFields, TFields, StartFields
<1>3. /\ x.epoch = t.epoch /\ x.example_cnt = t.example_cnt /\ x.net_stop = t.net_stop
      /\ x.net_stop_rdy = t.net_stop_rdy /\ x.done = t.done /\ x.tb_pending = t.tb_pending
      /\ x.advance = t.advance /\ x.tick_stop = t.tick_stop
      /\ \A f \in TBoardFields : x[f] = t[f]
  BY <1>1 DEF Frame, TBoardFields, TFields, StartFields
<1>4. /\ Frame(x, q, TExampleFields) /\ q.evt = 0
      /\ IF EndOfEpoch(x) THEN q.epoch = x.epoch + 1 /\ q.example_cnt = 0
                          ELSE q.epoch = x.epoch /\ q.example_cnt = x.example_cnt + 1
      /\ ~IsLast(s) => Rdv(x, q, EndOfEpoch(x))
      /\ IsLast(s) => /\ q.net_stop = x.net_stop /\ q.net_stop_rdy = x.net_stop_rdy
                      /\ q.done = IF EndOfEpoch(x) THEN EndOfStage(x) ELSE x.done
  BY <1>1, TAdvanceExampleFacts
<1>5. /\ DOMAIN q = TFields /\ q.tick = INIT_TICK /\ q.ev_tick = INIT_TICK /\ q.phase = F
      /\ q.tb_pending = x.tb_pending /\ q.advance = x.advance /\ q.tick_stop = x.tick_stop
      /\ \A f \in TBoardFields : q[f] = x[f]
  BY <1>1, <1>4 DEF Frame, TExampleFields, ExampleFields, TBoardFields, TFields, StartFields
<1>6. TClear(s, q)
  BY <1>3, <1>5 DEF TClear, TBoardFields
<1>7. EndOfEpoch(x) <=> EndOfEpoch(r)
  BY <1>2, <1>3 DEF EndOfEpoch
<1>8. n = ExampleAfter(r) /\ (Flow!EpochOver(n) <=> EndOfEpoch(r))
  BY NextPlaceOf
<1>9. Place(q) = n
  BY <1>2, <1>3, <1>4, <1>5, <1>7, <1>8 DEF Place, ExampleAfter
<1>10. ~IsLast(s) => Rdv(r, q, Flow!EpochOver(n))
  BY <1>2, <1>3, <1>4, <1>7, <1>8 DEF Rdv
<1>11. IsLast(s) => /\ q.done = IF Flow!EpochOver(n) THEN EndOfStage(Ended(s, r)) ELSE r.done
                    /\ q.net_stop = r.net_stop /\ q.net_stop_rdy = r.net_stop_rdy
  BY <1>2, <1>3, <1>4, <1>7, <1>8
<1>12. StartShape(q) /\ q.tick_stop \in BOOLEAN /\ q.advance \in BOOLEAN /\ q.tb_pending \in BOOLEAN
  <2>1. StartShape(r) /\ r.tick_stop \in BOOLEAN /\ r.advance \in BOOLEAN /\ r.tb_pending \in BOOLEAN
    BY DEF TShape
  <2>2. EndOfStage(Ended(s, r)) \in BOOLEAN
    BY DEF EndOfStage
  <2>3. StartShape(q)
    <3>1. CASE IsLast(s)
      BY <1>11, <2>1, <2>2, <3>1 DEF StartShape
    <3>2. CASE ~IsLast(s)
      BY <1>10, <2>1, <3>2 DEF StartShape, Rdv
    <3> QED BY <3>1, <3>2
  <2> QED BY <1>2, <1>3, <1>5, <2>1, <2>3
<1>13. TShape(q)
  BY <1>5, <1>6, <1>12 DEF TShape, TClear, TFields
<1>14. ~q.tb_pending /\ F # B
  BY <1>2, <1>3, <1>5 DEF F, B
<1> QED BY <1>2, <1>3, <1>5, <1>6, <1>9, <1>10, <1>11, <1>13, <1>14 DEF TAdvanced

\* and when it does not.
LEMMA TStays ==
  ASSUME NEW s, NEW r, TShape(r), NEW b, Flow!MayLeave(Place(r), b), ~Leaves(r, b),
         NEW t, Frame(r, t, TBoardFields), TClear(s, t),
         NEW q, Frame(t, q, {"tick", "evt", "phase", "ev_tick", "tf_event_crit", "max_evt",
                             "tb_pending", "t_errors", "t_outputs"}),
         Place(q) = Flow!NextPlace(Place(r), b), q.tb_pending = (q.phase = B),
         q.phase = F => q.tick # INIT_TICK
  PROVE  TAdvanced(s, r, b, q)
<1> DEFINE n == Flow!NextPlace(Place(r), b)
<1>1. DOMAIN r = TFields /\ DOMAIN t = TFields /\ DOMAIN q = TFields
  BY DEF TShape, TFields, Frame
<1>2. /\ t.epoch = r.epoch /\ t.example_cnt = r.example_cnt /\ t.net_stop = r.net_stop
      /\ t.net_stop_rdy = r.net_stop_rdy /\ t.done = r.done
      /\ t.advance = r.advance /\ t.tick_stop = r.tick_stop
  BY <1>1 DEF Frame, TBoardFields, TFields, StartFields
<1>3. /\ q.epoch = t.epoch /\ q.example_cnt = t.example_cnt /\ q.net_stop = t.net_stop
      /\ q.net_stop_rdy = t.net_stop_rdy /\ q.done = t.done
      /\ q.advance = t.advance /\ q.tick_stop = t.tick_stop
      /\ \A f \in TBoardFields : q[f] = t[f]
  BY <1>1 DEF Frame, TBoardFields, TFields, StartFields
<1>4. TClear(s, q)
  BY <1>3 DEF TClear, TBoardFields
<1>5. ~Flow!EpochOver(n)
  BY NextPlaceOf
<1>6. Rdv(r, q, Flow!EpochOver(n))
  BY <1>2, <1>3, <1>5 DEF Rdv
<1>7. TShape(q)
  <2>1. StartShape(r) /\ r.tick_stop \in BOOLEAN /\ r.advance \in BOOLEAN
    BY DEF TShape
  <2> QED BY <1>1, <1>2, <1>3, <1>4, <2>1 DEF TShape, TClear, TFields, StartShape
<1> QED BY <1>2, <1>3, <1>4, <1>5, <1>6, <1>7 DEF TAdvanced

\* A threshold core's record after the advance.
LEMMA TAdvanceRecord ==
  ASSUME NEW s \in Sub, DOMAIN tc = Sub, NEW r, TShape(r), NEW b, Flow!MayLeave(Place(r), b),
         THalfClear(s, r), ~r.tb_pending, TAdvances(s, r, b)
  PROVE  tc' = [tc EXCEPT ![s] = tc'[s]] /\ TAdvanced(s, r, b, tc'[s])
<1> DEFINE n == Flow!NextPlace(Place(r), b)
<1>1. PICK t : t = TTickInit(s, r)
  OBVIOUS
<1>2. r.phase \in {F, B} /\ F # B /\ Training \in BOOLEAN /\ b \in BOOLEAN
      /\ r.tick \in INIT_TICK .. GlobalMaxTicks - 1
  BY NextPlaceOf, StageAssumption DEF F, B
<1>3. Frame(r, t, TBoardFields) /\ TClear(s, t) /\ DOMAIN t = TFields
  BY <1>1, <1>2, TTickInitFacts
<1>4. DOMAIN r = TFields /\ r.tb_pending = FALSE
  BY DEF TShape, TFields
<1>5. /\ t.phase = r.phase /\ t.tick = r.tick /\ t.evt = r.evt /\ t.epoch = r.epoch
      /\ t.example_cnt = r.example_cnt /\ t.tb_pending = FALSE /\ t.ev_tick = r.ev_tick
      /\ t.tf_example_crit = r.tf_example_crit /\ t.tf_event_crit = r.tf_event_crit
      /\ t.max_evt = r.max_evt
  BY <1>3, <1>4 DEF Frame, TBoardFields, TFields, StartFields
<1>6. EndOfForward(t) <=> EndOfForward(r)
  BY <1>5 DEF EndOfForward
<1>7. CASE r.phase = F
  <2>1. PICK e : e = IF ~IsLast(s) THEN t
                     ELSE [t EXCEPT !.tf_event_crit = @ /\ t.tf_group_crit /\ t.ev_tick >= MinTicks,
                                    !.max_evt = t.evt]
    OBVIOUS
  <2>2. Frame(t, e, {"tf_event_crit", "max_evt"}) /\ DOMAIN e = TFields
    BY <1>3, <2>1 DEF Frame
  <2>3. /\ e.phase = F /\ e.tick = r.tick /\ e.evt = r.evt /\ e.epoch = r.epoch
        /\ e.example_cnt = r.example_cnt /\ e.tb_pending = FALSE
        /\ e.tf_example_crit = r.tf_example_crit
    BY <1>5, <1>7, <2>2 DEF Frame, TFields, StartFields
  <2>4. \/ /\ ~b
           /\ tc' = [tc EXCEPT ![s] = [t EXCEPT !.tick = @ + 1, !.ev_tick = @ + 1]]
        \/ /\ b /\ ~EndOfForward(t)
           /\ tc' = [tc EXCEPT ![s] = [e EXCEPT !.evt = @ + 1, !.tick = @ + 1,
                                                !.ev_tick = INIT_TICK]]
        \/ /\ b /\ EndOfForward(t) /\ Training
           /\ tc' = [tc EXCEPT ![s] = t_switch_to_bp([e EXCEPT !.evt = @ + 1])]
        \/ /\ b /\ EndOfForward(t) /\ ~Training
           /\ tc' = [tc EXCEPT ![s] = t_advance_example(s, [e EXCEPT !.tick = INIT_TICK, !.ev_tick = INIT_TICK])]
    BY <1>1, <1>7, <2>1 DEF TAdvances, TFAdvance
  <2>5. CASE ~b
    <3>1. PICK q : q = [t EXCEPT !.tick = @ + 1, !.ev_tick = @ + 1] /\ tc' = [tc EXCEPT ![s] = q]
      BY <2>4, <2>5
    <3>2. tc'[s] = q
      BY <3>1
    <3>3. /\ Frame(t, q, {"tick", "evt", "phase", "ev_tick", "tf_event_crit", "max_evt",
                          "tb_pending", "t_errors", "t_outputs"})
          /\ q.tick = r.tick + 1 /\ q.phase = F /\ q.evt = r.evt /\ q.epoch = r.epoch
          /\ q.example_cnt = r.example_cnt /\ q.tb_pending = FALSE
      BY <1>3, <1>5, <1>7, <3>1 DEF Frame, TFields, StartFields
    <3>4. n = <<r.epoch, r.example_cnt, F, r.tick + 1, r.evt>> /\ ~Leaves(r, b)
      BY <1>2, <1>7, <2>5, NextPlaceOf DEF Leaves
    <3>5. q.tick # INIT_TICK
      BY <1>2, <3>3 DEF INIT_TICK
    <3> HIDE DEF n
    <3>6. Place(q) = n
      BY <3>3, <3>4 DEF Place
    <3>7. TAdvanced(s, r, b, q)
      BY <1>2, <1>3, <3>3, <3>4, <3>5, <3>6, TStays DEF n
    <3> QED BY <3>1, <3>2, <3>7
  <2>6. CASE b /\ ~EndOfForward(t)
    <3>1. PICK q : q = [e EXCEPT !.evt = @ + 1, !.tick = @ + 1, !.ev_tick = INIT_TICK] /\ tc' = [tc EXCEPT ![s] = q]
      BY <2>4, <2>6
    <3>2. tc'[s] = q
      BY <3>1
    <3>3. /\ Frame(t, q, {"tick", "evt", "phase", "ev_tick", "tf_event_crit", "max_evt",
                          "tb_pending", "t_errors", "t_outputs"})
          /\ q.tick = r.tick + 1 /\ q.phase = F /\ q.evt = r.evt + 1 /\ q.epoch = r.epoch
          /\ q.example_cnt = r.example_cnt /\ q.tb_pending = FALSE
      BY <2>2, <2>3, <3>1 DEF Frame, TFields, StartFields
    <3>4. n = <<r.epoch, r.example_cnt, F, r.tick + 1, r.evt + 1>> /\ ~Leaves(r, b)
      BY <1>2, <1>6, <1>7, <2>6, NextPlaceOf DEF Leaves
    <3>5. q.tick # INIT_TICK
      BY <1>2, <3>3 DEF INIT_TICK
    <3> HIDE DEF n
    <3>6. Place(q) = n
      BY <3>3, <3>4 DEF Place
    <3>7. TAdvanced(s, r, b, q)
      BY <1>2, <1>3, <3>3, <3>4, <3>5, <3>6, TStays DEF n
    <3> QED BY <3>1, <3>2, <3>7
  <2>7. CASE b /\ EndOfForward(t) /\ Training
    <3>1. PICK q : q = t_switch_to_bp([e EXCEPT !.evt = @ + 1]) /\ tc' = [tc EXCEPT ![s] = q]
      BY <2>4, <2>7
    <3>2. tc'[s] = q
      BY <3>1
    <3>3. PICK y : y = [e EXCEPT !.evt = @ + 1]
      OBVIOUS
    <3>4. DOMAIN y = TFields /\ y.evt = r.evt + 1 /\ \A f \in TFields \ {"evt"} : y[f] = e[f]
      BY <2>2, <2>3, <3>3 DEF TFields, StartFields
    <3>5. PICK v : q = [y EXCEPT !.phase = B, !.tb_pending = TRUE, !.t_errors[y.tb_procs] = v]
      BY <3>1, <3>3 DEF t_switch_to_bp
    <3>6. /\ DOMAIN q = TFields /\ q.phase = B /\ q.tb_pending = TRUE
          /\ \A f \in TFields \ {"phase", "tb_pending", "t_errors"} : q[f] = y[f]
      BY <3>4, <3>5 DEF TFields, StartFields
    <3>7. /\ Frame(t, q, {"tick", "evt", "phase", "ev_tick", "tf_event_crit", "max_evt",
                          "tb_pending", "t_errors", "t_outputs"})
          /\ q.tick = r.tick /\ q.evt = r.evt + 1 /\ q.epoch = r.epoch
          /\ q.example_cnt = r.example_cnt
      BY <1>3, <2>2, <2>3, <3>4, <3>6 DEF Frame, TFields, StartFields
    <3>8. n = <<r.epoch, r.example_cnt, B, r.tick, r.evt + 1>> /\ ~Leaves(r, b)
      BY <1>2, <1>6, <1>7, <2>7, NextPlaceOf DEF Leaves
    <3> HIDE DEF n
    <3>9. Place(q) = n
      BY <3>6, <3>7, <3>8 DEF Place
    <3>10. TAdvanced(s, r, b, q)
      BY <1>2, <1>3, <3>6, <3>7, <3>8, <3>9, TStays DEF n
    <3> QED BY <3>1, <3>2, <3>10
  <2>8. CASE b /\ EndOfForward(t) /\ ~Training
    <3>1. PICK x : /\ x = [e EXCEPT !.tick = INIT_TICK, !.ev_tick = INIT_TICK]
                   /\ tc' = [tc EXCEPT ![s] = t_advance_example(s, x)]
      BY <2>4, <2>8
    <3>2. tc'[s] = t_advance_example(s, x)
      BY <3>1
    <3>3. /\ DOMAIN x = TFields /\ x.tick = INIT_TICK /\ x.ev_tick = INIT_TICK
          /\ \A f \in TFields \ {"tick", "ev_tick"} : x[f] = e[f]
      BY <2>2, <3>1 DEF TFields, StartFields
    <3>4. x.phase = F
      BY <2>3, <3>3 DEF TFields, StartFields
    <3>5. Frame(t, x, {"tick", "ev_tick", "phase", "tf_event_crit", "max_evt", "tf_example_crit"})
      BY <2>2, <3>3 DEF Frame
    <3>6. Leaves(r, b)
      BY <1>6, <1>7, <2>8 DEF Leaves
    <3>7. EndOfStage(x) = EndOfStage(Ended(s, r))
      BY <1>7, <2>8 DEF EndOfStage, Ended
    <3>8. TAdvanced(s, r, b, tc'[s])
      BY <1>3, <3>2, <3>3, <3>4, <3>5, <3>6, <3>7, TLeaves
    <3> QED BY <3>1, <3>2, <3>8
  <2> QED BY <1>2, <2>5, <2>6, <2>7, <2>8
<1>8. CASE r.phase = B
  <2>1. tc' = [tc EXCEPT ![s] =
              IF t.tick = END_TICK THEN t_advance_example(s, AfterBackprop(s, t))
              ELSE [t EXCEPT !.tick = @ - 1, !.tb_pending = TRUE,
                             !.t_outputs = t.t_output_history[t.tick - 1]]]
    BY <1>1, <1>2, <1>8 DEF TAdvances, TBAdvance
  <2>2. CASE t.tick = END_TICK
    <3>1. PICK x : x = AfterBackprop(s, t) /\ tc' = [tc EXCEPT ![s] = t_advance_example(s, x)]
      BY <2>1, <2>2
    <3>2. tc'[s] = t_advance_example(s, x)
      BY <3>1
    <3>3. /\ DOMAIN x = TFields /\ x.tick = INIT_TICK /\ x.ev_tick = INIT_TICK /\ x.phase = F
          /\ \A f \in TFields \ {"tick", "ev_tick", "phase", "tf_example_crit"} : x[f] = t[f]
      BY <1>3, <3>1 DEF AfterBackprop, TFields, StartFields
    <3>4. x.tf_example_crit = IF IsLast(s)
               THEN t.tf_example_crit /\ t.tf_event_crit /\ t.max_evt >= NumEvents - 1
               ELSE t.tf_example_crit
      BY <1>3, <3>1 DEF AfterBackprop, TFields, StartFields
    <3>5. PICK z : z = AfterBackprop(s, r)
      OBVIOUS
    <3>6. z.tf_example_crit = IF IsLast(s)
               THEN r.tf_example_crit /\ r.tf_event_crit /\ r.max_evt >= NumEvents - 1
               ELSE r.tf_example_crit
      BY <1>4, <3>5 DEF AfterBackprop, TFields, StartFields
    <3>7. z.epoch = r.epoch
      BY <1>4, <3>5 DEF AfterBackprop, TFields, StartFields
    <3>8. x.epoch = r.epoch /\ x.tf_example_crit = z.tf_example_crit
      BY <1>5, <3>3, <3>4, <3>6 DEF TFields, StartFields
    <3>9. EndOfStage(x) = EndOfStage(Ended(s, r))
      BY <1>2, <1>8, <3>5, <3>7, <3>8 DEF EndOfStage, Ended
    <3>10. Leaves(r, b)
      BY <1>5, <1>8, <2>2 DEF Leaves
    <3>11. Frame(t, x, {"tick", "ev_tick", "phase", "tf_event_crit", "max_evt", "tf_example_crit"})
      BY <1>3, <3>3 DEF Frame
    <3>12. TAdvanced(s, r, b, tc'[s])
      BY <1>3, <3>2, <3>3, <3>9, <3>10, <3>11, TLeaves
    <3> QED BY <3>1, <3>2, <3>12
  <2>3. CASE t.tick # END_TICK
    <3>1. PICK v, q : /\ q = [t EXCEPT !.tick = @ - 1, !.tb_pending = TRUE, !.t_outputs = v]
                      /\ tc' = [tc EXCEPT ![s] = q]
      BY <2>1, <2>3
    <3>2. tc'[s] = q
      BY <3>1
    <3>3. /\ Frame(t, q, {"tick", "evt", "phase", "ev_tick", "tf_event_crit", "max_evt",
                          "tb_pending", "t_errors", "t_outputs"})
          /\ q.tick = r.tick - 1 /\ q.phase = B /\ q.evt = r.evt /\ q.epoch = r.epoch
          /\ q.example_cnt = r.example_cnt /\ q.tb_pending = TRUE
      BY <1>3, <1>5, <1>8, <3>1 DEF Frame, TFields, StartFields
    <3>4. n = <<r.epoch, r.example_cnt, B, r.tick - 1, r.evt>> /\ ~Leaves(r, b)
      BY <1>2, <1>5, <1>8, <2>3, NextPlaceOf DEF Leaves
    <3> HIDE DEF n
    <3>5. Place(q) = n
      BY <3>3, <3>4 DEF Place
    <3>6. TAdvanced(s, r, b, q)
      BY <1>2, <1>3, <3>3, <3>4, <3>5, TStays DEF n
    <3> QED BY <3>1, <3>2, <3>6
  <2> QED BY <2>2, <2>3
<1> QED BY <1>2, <1>7, <1>8

\* A core that starts a tick has sent nothing,
LEMMA TClearFresh ==
  ASSUME NEW s \in Sub, TClear(s, tc'[s]), tc'[s].tb_pending <=> tc'[s].phase = B
  PROVE  Fresh(T(s))'
<1>1. Rec(T(s))' = tc'[s]
  BY CoreFacts, RecFacts
<1>2. Units # 0
  BY UnitFacts
<1>3. ~CritWhole(s)' /\ ~Deltas(s)' /\ ~TBReported(s)'
  BY <1>1, <1>2 DEF CritWhole, Deltas, TBReported, In, TClear
<1>4. T(s) \notin WCores /\ \A t \in Sub : T(s) # S(t) /\ (T(s) = T(t) => t = s)
  BY CoresApart DEF WCores
<1> QED BY <1>3, <1>4 DEF Fresh

TClearTable ==
  \A s \in Sub :
    (/\ TClear(s, tc[s]) /\ (tc[s].tb_pending <=> tc[s].phase = B)
     /\ (tc[s].advance => s = LastSub) /\ T(s) \notin Behind
     /\ \A k : GotInto(k, T(s)) = 0
     /\ (s = LastSub => ~(Into({"fsgn"}, T(s)) \subseteq Got)))
    => TCoreOK(s)

\* and its scoreboards are empty,
LEMMA TClearCore == TClearTable
<1> SUFFICES ASSUME NEW s \in Sub, TClear(s, tc[s]), tc[s].tb_pending <=> tc[s].phase = B,
                    tc[s].advance => s = LastSub, T(s) \notin Behind,
                    \A k : GotInto(k, T(s)) = 0,
                    s = LastSub => ~(Into({"fsgn"}, T(s)) \subseteq Got)
             PROVE  TCoreOK(s)
  BY DEF TClearTable
<1> DEFINE q == tc[s]
<1>1. Rec(T(s)) = q
  BY CoreFacts, RecFacts
<1>2. Units # 0
  BY UnitFacts
<1>3. q.tb_pending => In(T(s), B)
  BY <1>1 DEF In
<1>4. /\ q.tf_arrived = 0 /\ q.tf_crit_arrived = 0 /\ q.tf_thrds_pend = tf_thrds_init(s)
      /\ q.tb_arrived = 0 /\ q.tb_bsgn_arrived = 0 /\ q.tb_thrds_pend = tb_thrds_init(s)
  BY DEF TClear
<1> HIDE DEF q
<1>5. tc[s] = q
  BY DEF q
<1>6. tf_thrds_init(s) \cap TFThreadsDone(s) = {} /\ "PROC" \in tf_thrds_init(s)
  <2>1. TFThreadsDone(s) = (IF crit_expected(s) = 0 THEN {"CRIT"} ELSE {})
           \cup (IF Into({"fsgn"}, T(s)) \subseteq Got THEN {"FSGN"} ELSE {})
    BY <1>2, <1>4, <1>5 DEF TFThreadsDone
  <2>2. IsLast(s) <=> s = LastSub
    BY DEF IsLast
  <2> QED BY <2>1, <2>2 DEF tf_thrds_init
<1>7. tb_thrds_init(s) \cap TBThreadsDone(s) = {} /\ "COMS" \in tb_thrds_init(s)
  <2>1. TBThreadsDone(s) = (IF tb_bsgn_expected(s) = 0 THEN {"BSGN"} ELSE {})
    BY <1>2, <1>4, <1>5 DEF TBThreadsDone
  <2> QED BY <2>1 DEF tb_thrds_init
<1>8. /\ ThreadsOK(q.tf_thrds_pend, tf_thrds_init(s), TFThreadsDone(s))
      /\ ThreadsOK(q.tb_thrds_pend, tb_thrds_init(s), TBThreadsDone(s))
      /\ ~(tf_thrds_init(s) \subseteq TFThreadsDone(s))
      /\ ~(tb_thrds_init(s) \subseteq TBThreadsDone(s))
  BY <1>4, <1>6, <1>7 DEF ThreadsOK
<1>9. q.advance => s = LastSub
  BY DEF q
<1> QED BY <1>3, <1>4, <1>5, <1>8, <1>9 DEF TCoreOK

\* as they should be.
LEMMA TClearOK ==
  ASSUME NEW s \in Sub, TClear(s, tc'[s]), tc'[s].tb_pending <=> tc'[s].phase = B,
         tc'[s].advance => s = LastSub, T(s) \notin Behind',
         \A k : GotInto(k, T(s))' = 0,
         s = LastSub => ~(Into({"fsgn"}, T(s)) \subseteq Got')
  PROVE  TCoreOK(s)'
<1>1. TClearTable'
  BY TClearCore, PTL
<1> QED BY <1>1 DEF TClearTable

\* A threshold core advances (tf_advance_tick, tb_advance_tick).
LEMMA TGoInv ==
  ASSUME FlowAndMachine, NEW p \in net, TStop(p) \/ TSync(p), UNCHANGED <<wc, sc, ic>>
  PROVE  FlowAndMachine' /\ Flow!Next
<1> DEFINE s == p.dst[2]
           a == p.dst
           r == tc[s]
           b == tc[LastSub].tick_stop
<1>1. /\ p.kind \in {"stop", "sync"} /\ a[1] = "T" /\ net' = net \ {p}
      /\ p.kind = "stop" => TFAdvance(s, r, p.b)
      /\ p.kind = "sync" => TBAdvance(s, r)
  BY DEF TStop, TSync
<1>2. a \in Cores /\ s \in Sub /\ a = T(s) /\ DOMAIN tc = Sub /\ TShape(r) /\ TCoreOK(s)
  <2>1. a \in Cores
    BY DEF FlowAndMachine, MachineInv, NetOK, PacketOK
  <2>2. s \in Sub /\ a = T(s)
    BY <1>1, <2>1, CoreKinds
  <2> QED BY <2>1, <2>2 DEF FlowAndMachine, MachineInv, ShapeOK, CoresOK
<1>3. PacketOK(p)
  BY DEF FlowAndMachine, MachineInv, NetOK
<1>4. Rec(a) = r /\ Rec(a)' = tc'[s]
  BY <1>2, RecFacts
<1>5. a \in Behind /\ a # LastT
  BY <1>1, <1>3 DEF PacketOK, Behind, Heading
<1>6. s # LastSub
  BY <1>2, <1>5 DEF LastT
<1>7. IF r.phase = F THEN p.kind = "stop" /\ p.b = b ELSE p.kind = "sync"
  BY <1>1, <1>3, <1>4 DEF PacketOK
<1>8. TAdvances(s, r, b)
  BY <1>1, <1>7 DEF TAdvances
<1>9. Flow!MayLeave(Place(r), b) /\ Flow!NextPlace(Place(r), b) = cur /\ \A ph : ~In(a, ph)
  BY <1>4, <1>5, BehindFacts
<1>10. THalfClear(s, r) /\ ~r.tb_pending /\ ~r.advance
  BY <1>2, <1>6, <1>9 DEF TCoreOK, THalfClear
<1>11. tc' = [tc EXCEPT ![s] = tc'[s]] /\ TAdvanced(s, r, b, tc'[s])
  BY <1>2, <1>8, <1>9, <1>10, TAdvanceRecord
<1>12. Others(a)
  BY <1>2, <1>11, CoresApart DEF Others
<1>13. Going(p)
  BY <1>1, <1>12 DEF Going
<1>14. Behind' = Behind \ {a}
  BY <1>13, GoingFacts
<1>15. /\ TShape(tc'[s]) /\ TClear(s, tc'[s]) /\ Place(tc'[s]) = cur
       /\ tc'[s].tb_pending <=> tc'[s].phase = B
       /\ tc'[s].advance = r.advance /\ Rdv(r, tc'[s], Flow!EpochOver(cur))
  BY <1>6, <1>9, <1>11 DEF TAdvanced, IsLast
<1>16. Fresh(a)'
  <2>1. Fresh(T(s))'
    BY <1>2, <1>15, TClearFresh
  <2> QED BY <1>2, <2>1
<1>17. TCoreOK(s)'
  <2>1. \A k : GotInto(k, a)' = 0
    BY <1>13, <1>16, GoingGot
  <2>2. \A k : GotInto(k, T(s))' = 0
    BY <1>2, <2>1
  <2> QED BY <1>2, <1>6, <1>10, <1>14, <1>15, <2>2, TClearOK
<1>18. CoreOK(a)'
  <2>1. a \notin WCores /\ \A t \in Sub : (a = T(t) => t = s) /\ a # S(t) /\ a # I(t)
    BY <1>2, CoresApart DEF WCores
  <2> QED BY <1>15, <1>17, <2>1 DEF CoreOK
<1>19. DoneRight(a) /\ RendezvousOK(a)'
  <2>1. StartShape(Rec(a)) /\ Rdv(Rec(a), Rec(a)', Flow!EpochOver(cur))
    BY <1>2, <1>4, <1>15 DEF TShape
  <2> QED BY <1>1, <1>13, <2>1, GoingEpoch
<1>20. Place(Rec(a)') = cur
  BY <1>4, <1>15
<1> QED BY <1>13, <1>16, <1>18, <1>19, <1>20, GoingInv

(***************************************************************************)
(* The callback of the last T.                                             *)
(***************************************************************************)
LastRec == [tc[LastSub] EXCEPT !.advance = FALSE]
NewRec == tc'[LastSub]

LastNotices ==
  IF Flow!EpochOver(cur)
    THEN Multicast("stpn", LastT, Cores \ {LastT}, 0, EndOfStage(Ended(LastSub, LastRec)), CurStamp)
    ELSE {}

\* The last T when its advance is scheduled.
LEMMA LastRecFacts ==
  ASSUME FlowAndMachine, tc[LastSub].advance
  PROVE  /\ LastSub \in Sub /\ LastT = T(LastSub) /\ LastT \in Cores /\ LastT \in Behind
         /\ DOMAIN tc = Sub /\ TShape(LastRec) /\ Place(LastRec) = Place(tc[LastSub])
         /\ Flow!MayLeave(Place(LastRec), LastRec.tick_stop)
         /\ Flow!NextPlace(Place(LastRec), LastRec.tick_stop) = cur
         /\ LastRec.tick_stop = tc[LastSub].tick_stop /\ LastRec.done = FALSE
         /\ LastRec.advance = FALSE /\ ~LastRec.tb_pending /\ THalfClear(LastSub, LastRec)
         /\ Heading({"stpn"}) = {} /\ ~tc[LastSub].done
         /\ \A p \in net : p.kind \in {"stop", "sync"} => p.dst # LastT
         /\ \A c \in Cores : ~Rec(c).done
<1> DEFINE r == LastRec
           t == tc[LastSub]
<1>1. LastSub \in Sub /\ LastT = T(LastSub) /\ LastT \in Cores
  BY LastSubFacts, CoreFacts DEF LastT
<1>2. LastT \in Behind
  BY DEF Behind
<1>3. TShape(t) /\ TCoreOK(LastSub) /\ DOMAIN tc = Sub
  BY <1>1 DEF FlowAndMachine, MachineInv, ShapeOK, CoresOK
<1>4. DOMAIN t = TFields
  BY <1>3 DEF TShape, TFields
<1> HIDE DEF t
<1>5. DOMAIN r = TFields /\ r.advance = FALSE /\ \A f \in TFields \ {"advance"} : r[f] = t[f]
  BY <1>4 DEF LastRec, t, TFields, StartFields
<1>6. /\ r.phase = t.phase /\ r.tick = t.tick /\ r.evt = t.evt /\ r.epoch = t.epoch
      /\ r.example_cnt = t.example_cnt /\ r.tick_stop = t.tick_stop /\ r.done = t.done
      /\ r.net_stop = t.net_stop /\ r.net_stop_rdy = t.net_stop_rdy
      /\ r.tb_pending = t.tb_pending /\ r.tb_procs = t.tb_procs
      /\ r.tf_arrived = t.tf_arrived /\ r.tf_crit_arrived = t.tf_crit_arrived
      /\ r.tf_thrds_pend = t.tf_thrds_pend /\ r.tb_arrived = t.tb_arrived
      /\ r.tb_bsgn_arrived = t.tb_bsgn_arrived /\ r.tb_thrds_pend = t.tb_thrds_pend
  BY <1>5 DEF TFields, StartFields
<1> HIDE DEF r
<1>7. TShape(r)
  BY <1>3, <1>5, <1>6 DEF TShape, StartShape, TFields
<1>8. Place(r) = Place(t)
  BY <1>6 DEF Place
<1>9. Rec(LastT) = t
  BY <1>1, RecFacts DEF t
<1>10. /\ Flow!MayLeave(Place(t), t.tick_stop) /\ Flow!NextPlace(Place(t), t.tick_stop) = cur
       /\ \A ph : ~In(LastT, ph)
  BY <1>2, <1>9, BehindFacts DEF t
<1>11. THalfClear(LastSub, r) /\ ~r.tb_pending
  <2>1. THalfClear(LastSub, t) /\ ~t.tb_pending
    BY <1>1, <1>3, <1>10 DEF TCoreOK, THalfClear, t
  <2> QED BY <1>6, <2>1 DEF THalfClear
<1>12. Flow!StageOK
  BY DEF FlowAndMachine, Flow!FlowInv
<1>13. Heading({"stpn"}) = {} /\ ~tc[LastSub].done
  BY <1>2, <1>12 DEF Flow!StageOK
<1>14. \A c \in Cores : ~Rec(c).done
  BY <1>12, <1>13 DEF Flow!StageOK
<1>15. \A p \in net : p.kind \in {"stop", "sync"} => p.dst # LastT
  BY DEF FlowAndMachine, MachineInv, NetOK, PacketOK
<1>16. r.done = FALSE
  BY <1>6, <1>7, <1>13 DEF TShape, StartShape, t
<1> QED BY <1>1, <1>2, <1>3, <1>5, <1>6, <1>7, <1>8, <1>10, <1>11, <1>13, <1>14, <1>15, <1>16 DEF r, t

\* The decision it sends to the others is its own.
LEMMA NoticeOf ==
  ASSUME FlowAndMachine, tc[LastSub].advance, NEW x, x.epoch = LastRec.epoch,
         x.example_cnt = LastRec.example_cnt, Leaves(LastRec, LastRec.tick_stop),
         EndOfStage(x) = EndOfStage(Ended(LastSub, LastRec))
  PROVE  StopNotice(LastSub, x) = LastNotices
<1>1. /\ LastSub \in Sub /\ LastT = T(LastSub)
      /\ Flow!MayLeave(Place(LastRec), LastRec.tick_stop)
      /\ Flow!NextPlace(Place(LastRec), LastRec.tick_stop) = cur
  BY LastRecFacts
<1>2. cur = ExampleAfter(LastRec) /\ (Flow!EpochOver(cur) <=> EndOfEpoch(LastRec))
  BY <1>1, NextPlaceOf
<1>3. EndOfEpoch(x) <=> EndOfEpoch(LastRec)
  BY DEF EndOfEpoch
<1>4. StpRoute(LastSub) = Cores \ {LastT}
  BY Zenon DEF StpRoute
<1>5. EndOfEpoch(LastRec) => CurStamp = <<x.epoch + 1, 0, F, INIT_TICK>>
  BY <1>2 DEF CurStamp, cur, ExampleAfter
<1>6. CASE EndOfEpoch(LastRec)
  <2>1. StopNotice(LastSub, x) = Multicast("stpn", T(LastSub), StpRoute(LastSub), 0, EndOfStage(x),
                   <<x.epoch + 1, 0, F, INIT_TICK>>)
    BY <1>3, <1>6 DEF StopNotice, IsLast
  <2> QED BY <1>1, <1>2, <1>4, <1>5, <1>6, <2>1 DEF LastNotices
<1>7. CASE ~EndOfEpoch(LastRec)
  BY <1>2, <1>3, <1>7 DEF StopNotice, LastNotices
<1> QED BY <1>6, <1>7

\* what the callback does
LEMMA TAdvanceFacts ==
  ASSUME FlowAndMachine, TAdvance
  PROVE  /\ tc[LastSub].advance /\ net' = net \cup LastNotices
         /\ tc' = [tc EXCEPT ![LastSub] = NewRec]
         /\ TAdvanced(LastSub, LastRec, LastRec.tick_stop, NewRec)
<1> DEFINE r == LastRec
           b == LastRec.tick_stop
<1>1. /\ tc[LastSub].advance
      /\ \/ /\ r.phase = F
            /\ TFAdvance(LastSub, r, b)
            /\ net' = net \cup IF b /\ EndOfForward(r) /\ ~Training
                                THEN StopNotice(LastSub, r) ELSE {}
         \/ /\ r.phase = B
            /\ TBAdvance(LastSub, r)
            /\ net' = net \cup IF r.tick = END_TICK
                                THEN StopNotice(LastSub, AfterBackprop(LastSub, r)) ELSE {}
  BY DEF TAdvance, LastRec
<1>2. /\ LastSub \in Sub /\ DOMAIN tc = Sub /\ TShape(r)
      /\ Flow!MayLeave(Place(r), b) /\ Flow!NextPlace(Place(r), b) = cur
      /\ ~r.tb_pending /\ THalfClear(LastSub, r)
  BY <1>1, LastRecFacts
<1>3. F # B
  BY DEF F, B
<1> HIDE DEF r
<1>4. TAdvances(LastSub, r, b)
  BY <1>1, <1>3 DEF TAdvances
<1>5. tc' = [tc EXCEPT ![LastSub] = NewRec] /\ TAdvanced(LastSub, r, b, NewRec)
  BY <1>2, <1>4, TAdvanceRecord DEF NewRec
<1>6. ~Leaves(r, b) => LastNotices = {}
  <2>1. Flow!EpochOver(cur) => Leaves(r, b)
    BY <1>2, NextPlaceOf
  <2> QED BY <2>1 DEF LastNotices
<1>7. net' = net \cup LastNotices
  <2>1. CASE r.phase = F
    <3>1. Leaves(r, b) <=> b /\ EndOfForward(r) /\ ~Training
      BY <1>3, <2>1 DEF Leaves
    <3>2. net' = net \cup IF Leaves(r, b) THEN StopNotice(LastSub, r) ELSE {}
      BY <1>1, <1>3, <2>1, <3>1
    <3>3. r = Ended(LastSub, r)
      BY <2>1 DEF Ended
    <3>4. Leaves(r, b) => StopNotice(LastSub, r) = LastNotices
      BY <1>1, <3>3, NoticeOf DEF r
    <3> QED BY <1>6, <3>2, <3>4
  <2>2. CASE r.phase = B
    <3>1. Leaves(r, b) <=> r.tick = END_TICK
      BY <1>3, <2>2 DEF Leaves
    <3>2. net' = net \cup IF Leaves(r, b) THEN StopNotice(LastSub, AfterBackprop(LastSub, r)) ELSE {}
      BY <1>1, <1>3, <2>2, <3>1
    <3>3. PICK x : x = AfterBackprop(LastSub, r)
      OBVIOUS
    <3>4. x = Ended(LastSub, r)
      BY <1>3, <2>2, <3>3 DEF Ended
    <3>5. DOMAIN r = TFields
      BY <1>2 DEF TShape, TFields
    <3>6. x.epoch = r.epoch /\ x.example_cnt = r.example_cnt
      BY <3>3, <3>5 DEF AfterBackprop, TFields, StartFields
    <3>7. Leaves(r, b) => StopNotice(LastSub, x) = LastNotices
      BY <1>1, <3>4, <3>6, NoticeOf DEF r
    <3> QED BY <1>6, <3>2, <3>3, <3>7
  <2> QED BY <1>1, <2>1, <2>2
<1> QED BY <1>1, <1>5, <1>7 DEF r

\* the last T is in the next tick, and the others are told of the end of an epoch
LEMMA LastGoes ==
  ASSUME FlowAndMachine, TAdvance, UNCHANGED <<wc, sc, ic>>
  PROVE  /\ Quiet(LastT, {}, LastNotices) /\ Behind' = Behind \ {LastT}
         /\ Heading({"stpn"})' = IF Flow!EpochOver(cur) THEN Cores \ {LastT} ELSE {}
         /\ cur' = cur /\ CurStamp' = CurStamp
         /\ NewRec.tick_stop = tc[LastSub].tick_stop
         /\ Place(Rec(LastT)') = cur /\ Rec(LastT)' = NewRec
         /\ NewRec.done = IF Flow!EpochOver(cur) THEN EndOfStage(Ended(LastSub, LastRec)) ELSE FALSE
         /\ cur[1] = NumEpochs /\ Flow!EpochOver(cur) => NewRec.done
<1> DEFINE over == Flow!EpochOver(cur)
<1>1. /\ LastSub \in Sub /\ LastT = T(LastSub) /\ LastT \in Cores /\ LastT \in Behind
      /\ DOMAIN tc = Sub
      /\ Flow!MayLeave(Place(LastRec), LastRec.tick_stop)
      /\ Flow!NextPlace(Place(LastRec), LastRec.tick_stop) = cur
      /\ LastRec.tick_stop = tc[LastSub].tick_stop /\ LastRec.done = FALSE
      /\ LastRec.advance = FALSE /\ Heading({"stpn"}) = {}
      /\ \A p \in net : p.kind \in {"stop", "sync"} => p.dst # LastT
  BY TAdvanceFacts, LastRecFacts
<1>2. /\ net' = net \cup LastNotices /\ tc' = [tc EXCEPT ![LastSub] = NewRec]
      /\ TAdvanced(LastSub, LastRec, LastRec.tick_stop, NewRec)
  BY TAdvanceFacts
<1>3. /\ Place(NewRec) = cur /\ NewRec.advance = FALSE /\ NewRec.tick_stop = tc[LastSub].tick_stop
      /\ NewRec.done = IF over THEN EndOfStage(Ended(LastSub, LastRec)) ELSE FALSE
  BY <1>1, <1>2 DEF TAdvanced, IsLast
<1>4. /\ \A e \in LastNotices : e.kind = "stpn" /\ e.dst \in Cores \ {LastT}
      /\ over => \A c \in Cores \ {LastT} : \E e \in LastNotices : e.kind = "stpn" /\ e.dst = c
      /\ ~over => LastNotices = {}
  <2>1. ~over => LastNotices = {}
    BY DEF LastNotices
  <2>2. over => LastNotices = Multicast("stpn", LastT, Cores \ {LastT}, 0, EndOfStage(Ended(LastSub, LastRec)), CurStamp)
    BY DEF LastNotices
  <2>4. CASE over
    <3>1. PICK v, st : LastNotices = Multicast("stpn", LastT, Cores \ {LastT}, 0, v, st)
      BY <2>2, <2>4
    <3> HIDE DEF LastNotices
    <3>2. \A c : LET e == Pkt("stpn", LastT, c, 0, v, st) IN e.kind = "stpn" /\ e.dst = c
      BY DEF Pkt
    <3>3. \A e \in LastNotices : \E c \in Cores \ {LastT} : e = Pkt("stpn", LastT, c, 0, v, st)
      BY <3>1 DEF Multicast
    <3>4. \A c \in Cores \ {LastT} : Pkt("stpn", LastT, c, 0, v, st) \in LastNotices
      BY <3>1 DEF Multicast
    <3>5. \A e \in LastNotices : e.kind = "stpn" /\ e.dst \in Cores \ {LastT}
      BY <3>2, <3>3
    <3>6. \A c \in Cores \ {LastT} : \E e \in LastNotices : e.kind = "stpn" /\ e.dst = c
      BY <3>2, <3>4
    <3> QED BY <2>4, <3>5, <3>6
  <2>5. CASE ~over
    BY <2>1, <2>5
  <2> QED BY <2>4, <2>5
<1>5. Heading({"stpn"})' = IF over THEN Cores \ {LastT} ELSE {}
  <2>1. Heading({"stpn"})' = Heading({"stpn"}) \cup {e.dst : e \in {x \in LastNotices : x.kind = "stpn"}}
    BY <1>2 DEF Heading
  <2>2. {e.dst : e \in {x \in LastNotices : x.kind = "stpn"}} = IF over THEN Cores \ {LastT} ELSE {}
    BY <1>4
  <2> QED BY <1>1, <2>1, <2>2
<1>6. Heading({"stop", "sync"})' = Heading({"stop", "sync"})
  BY <1>2, <1>4 DEF Heading
<1>7. LastT \notin Heading({"stop", "sync"})
  BY <1>1 DEF Heading
<1>8. tc'[LastSub] = NewRec
  BY DEF NewRec
<1>9. Behind' = Behind \ {LastT}
  <2>1. tc[LastSub].advance
    BY TAdvanceFacts
  <2>2. tc'[LastSub].advance = FALSE
    BY <1>3, <1>8
  <2>3. Behind' = Heading({"stop", "sync"})'
    BY <2>2 DEF Behind
  <2>4. Behind = Heading({"stop", "sync"}) \cup {LastT}
    BY <2>1 DEF Behind
  <2> QED BY <1>6, <1>7, <2>3, <2>4
<1>10. Others(LastT)
  BY <1>1, <1>2, CoresApart DEF Others
<1>11. Quiet(LastT, {}, LastNotices)
  BY <1>1, <1>2, <1>4, <1>9, <1>10 DEF Quiet
<1>12. Rec(LastT)' = NewRec
  BY <1>1, <1>8, RecFacts
<1>13. cur' = Place(Rec(LastT)')
  <2>1. LastT \notin Behind'
    BY <1>9
  <2>2. [c \in Cores |-> Place(Rec(c))]'[LastT] = Place(Rec(LastT)')
    BY <1>1
  <2> QED BY <2>1, <2>2 DEF cur, Flow!cur
<1>14. cur' = cur
  BY <1>3, <1>12, <1>13
<1>15. CurStamp' = CurStamp
  BY <1>14 DEF CurStamp, cur
<1>16. cur[1] = NumEpochs /\ over => NewRec.done
  <2>1. over => Leaves(LastRec, LastRec.tick_stop) /\ EndOfEpoch(LastRec) /\ cur = ExampleAfter(LastRec)
    BY <1>1, NextPlaceOf
  <2>2. over => cur[1] = LastRec.epoch + 1
    BY <2>1 DEF ExampleAfter
  <2>3. Ended(LastSub, LastRec).epoch = LastRec.epoch
    <3>1. DOMAIN LastRec = TFields
      BY TAdvanceFacts, LastRecFacts DEF TShape, TFields
    <3> QED BY <3>1 DEF Ended, AfterBackprop, TFields, StartFields
  <2>4. NumEpochs \in Nat
    BY StageAssumption
  <2>5. cur[1] = NumEpochs /\ over => EndOfStage(Ended(LastSub, LastRec))
    BY <2>2, <2>3, <2>4 DEF EndOfStage
  <2> QED BY <1>3, <2>5
<1> QED BY <1>3, <1>5, <1>9, <1>11, <1>12, <1>14, <1>15, <1>16

\* It starts the tick with empty scoreboards.
LEMMA LastCoreOK ==
  ASSUME FlowAndMachine, TAdvance, UNCHANGED <<wc, sc, ic>>
  PROVE  Fresh(LastT)' /\ OwnSame(LastT) /\ CoreOK(LastT)' /\ Sent' = Sent /\ Got' = Got
<1>1. /\ LastSub \in Sub /\ LastT = T(LastSub) /\ LastT \in Behind /\ LastRec.advance = FALSE
  BY TAdvanceFacts, LastRecFacts
<1>2. /\ TShape(tc'[LastSub]) /\ TClear(LastSub, tc'[LastSub])
      /\ tc'[LastSub].tb_pending <=> tc'[LastSub].phase = B
      /\ tc'[LastSub].advance = FALSE
  BY <1>1, TAdvanceFacts DEF TAdvanced, NewRec
<1>3. Fresh(T(LastSub))'
  BY <1>1, <1>2, TClearFresh
<1>4. Fresh(LastT)'
  BY <1>1, <1>3
<1>5. OwnSame(LastT)
  BY <1>1, <1>4, FreshSame
<1>6. Sent' = Sent /\ Got' = Got
  BY <1>5, LastGoes, QuietSent
<1>7. \A k : Into({k}, LastT) \cap Got = {}
  BY <1>1, BehindFacts
<1>8. \A k : GotInto(k, T(LastSub))' = 0
  BY <1>1, <1>6, <1>7, FS_EmptySet DEF GotInto
<1>9. ~(Into({"fsgn"}, T(LastSub)) \subseteq Got')
  <2>1. FirstSub \in Sub /\ LastT \in FsgRoute(FirstSub)
    BY SubFacts, Zenon DEF FsgRoute
  <2>2. FsgnS(FirstSub, LastT) \in AllLinks
    BY <1>1, <2>1, ForwardIntro, UnitFacts DEF AllLinks
  <2>3. FsgnS(FirstSub, LastT) \in Into({"fsgn"}, LastT)
    BY <2>2, LinkTable DEF Into
  <2> QED BY <1>1, <1>6, <1>7, <2>3
<1>10. T(LastSub) \notin Behind'
  BY <1>1, LastGoes
<1>11. TCoreOK(LastSub)'
  BY <1>1, <1>2, <1>8, <1>9, <1>10, TClearOK
<1>12. CoreOK(LastT)'
  <2>1. LastT \notin WCores /\ \A t \in Sub : (LastT = T(t) => t = LastSub) /\ LastT # S(t) /\ LastT # I(t)
    BY <1>1, CoresApart DEF WCores
  <2> QED BY <1>2, <1>11, <2>1 DEF CoreOK
<1> QED BY <1>4, <1>5, <1>6, <1>12

\* The last T advances, and at the end of an epoch tells the others.
LEMMA TAdvanceInv ==
  ASSUME FlowAndMachine, TAdvance, UNCHANGED <<wc, sc, ic>>
  PROVE  FlowAndMachine' /\ Flow!Next
<1> DEFINE over == Flow!EpochOver(cur)
<1>1. /\ Quiet(LastT, {}, LastNotices) /\ Behind' = Behind \ {LastT}
      /\ Heading({"stpn"})' = IF over THEN Cores \ {LastT} ELSE {}
      /\ cur' = cur /\ CurStamp' = CurStamp
      /\ NewRec.tick_stop = tc[LastSub].tick_stop
      /\ Place(Rec(LastT)') = cur /\ Rec(LastT)' = NewRec
      /\ NewRec.done = IF over THEN EndOfStage(Ended(LastSub, LastRec)) ELSE FALSE
      /\ cur[1] = NumEpochs /\ over => NewRec.done
  BY LastGoes
<1>2. tc'[LastSub] = NewRec
  BY DEF NewRec
<1>3. /\ LastSub \in Sub /\ LastT = T(LastSub) /\ LastT \in Cores /\ LastT \in Behind
      /\ Heading({"stpn"}) = {} /\ ~tc[LastSub].done
      /\ \A c \in Cores : ~Rec(c).done
  BY TAdvanceFacts, LastRecFacts
<1>4. OwnSame(LastT) /\ CoreOK(LastT)' /\ Sent' = Sent /\ Got' = Got
  BY LastCoreOK
<1>5. LastT \notin Behind'
  BY <1>1
<1>6. CoresOK' /\ ShapeOK'
  BY <1>1, <1>4, QuietOthers
<1>7. NetOK' /\ OnePacket'
  <2>1. NewRec.done \in BOOLEAN
    BY <1>1 DEF EndOfStage
  <2>2. ASSUME NEW e \in LastNotices
        PROVE  PacketOK(e)'
    <3>1. over
      BY DEF LastNotices
    <3>2. PICK d \in Cores \ {LastT} :
            e = Pkt("stpn", LastT, d, 0, EndOfStage(Ended(LastSub, LastRec)), CurStamp)
      BY <3>1 DEF LastNotices, Multicast
    <3>3. /\ e.kind = "stpn" /\ e.src = LastT /\ e.dst = d /\ e.u = 0
          /\ e.b = NewRec.done /\ e.st = CurStamp'
          /\ e = Pkt(e.kind, e.src, e.dst, e.u, e.b, e.st)
      BY <1>1, <3>1, <3>2 DEF Pkt
    <3> QED BY <1>2, <1>3, <2>1, <3>3, UnitFacts DEF PacketOK, ControlKinds, Awaits
  <2>3. Notices(LastNotices)
    <3>1. \A e, f \in LastNotices : e.dst = f.dst => e = f
      BY DEF LastNotices, Multicast, Pkt
    <3> QED BY <1>3, <3>1 DEF Notices
  <2> QED BY <1>1, <1>2, <1>3, <1>4, <1>5, <2>2, <2>3, QuietNet
<1>8. EpochOK'
  <2>1. Opened(LastT)' <=> over
    BY <1>1, <1>5 DEF Opened, cur
  <2>2. Opened(LastT) = FALSE
    BY <1>3 DEF Opened
  <2>3. ASSUME NEW c \in Cores \ {LastT}
        PROVE  RendezvousOK(c)'
    <3>1. Told(c) = FALSE
      BY <2>2 DEF Told
    <3>2. Told(c)' = FALSE
      BY <1>1, <2>1, <2>3 DEF Told
    <3>3. Opened(c)' = Opened(c)
      BY <1>1, <2>3 DEF Opened, cur
    <3>4. Rec(c)' = Rec(c)
      BY <1>1, <2>3, QuietFrame
    <3>5. RendezvousOK(c)
      BY <2>3 DEF FlowAndMachine, MachineInv, EpochOK
    <3> QED BY <3>1, <3>2, <3>3, <3>4, <3>5 DEF RendezvousOK
  <2> QED BY <2>3 DEF EpochOK
<1>9. PacedOK'
  <2>1. tc'[LastSub].phase = F /\ tc'[LastSub].tick = INIT_TICK => tc'[LastSub].ev_tick = INIT_TICK
    BY <1>2, TAdvanceFacts DEF TAdvanced
  <2> QED BY <1>1, <1>2, <1>5, <2>1, PacedKept
<1>10. MachineInv'
  BY <1>6, <1>7, <1>8, <1>9 DEF MachineInv
<1>11. Flow!AdvanceLast
  <2>1. [c \in Cores |-> Place(Rec(c))]' = [[c \in Cores |-> Place(Rec(c))] EXCEPT ![LastT] = Flow!cur]
    <3>1. \A c \in Cores : c # LastT => Place(Rec(c))' = Place(Rec(c))
      BY <1>1, QuietFrame
    <3>2. Place(Rec(LastT))' = Flow!cur
      BY <1>1 DEF cur
    <3> QED BY <1>3, <3>1, <3>2
  <2>2. {c \in Cores : Rec(c).done}' = IF NewRec.done THEN {LastT} ELSE {}
    <3>1. \A c \in Cores : c # LastT => ~Rec(c)'.done
      BY <1>1, <1>3, QuietFrame
    <3> QED BY <1>1, <1>3, <3>1
  <2>3. {c \in Cores : Rec(c).done} = {}
    BY <1>3
  <2>4. NewRec.done \in BOOLEAN
    BY <1>1 DEF EndOfStage
  <2>5. CASE over
    <3>1. /\ Heading({"stpn"})' = Cores \ {LastT} /\ tc'[LastSub].done \in BOOLEAN
          /\ Flow!cur[1] = NumEpochs => tc'[LastSub].done
          /\ {c \in Cores : Rec(c).done}' = IF tc'[LastSub].done THEN {LastT} ELSE {}
      BY <1>1, <1>2, <2>2, <2>4, <2>5 DEF cur
    <3>2. Flow!EpochOver(Flow!cur)
      BY <2>5 DEF cur
    <3> QED BY <1>1, <1>2, <1>3, <1>4, <2>1, <3>1, <3>2 DEF Flow!AdvanceLast, Flow!packets
  <2>6. CASE ~over
    <3>1. /\ Heading({"stpn"})' = Heading({"stpn"}) /\ tc'[LastSub].done = FALSE
          /\ {c \in Cores : Rec(c).done}' = {c \in Cores : Rec(c).done}
      BY <1>1, <1>2, <1>3, <2>2, <2>3, <2>6
    <3>2. ~Flow!EpochOver(Flow!cur)
      BY <2>6 DEF cur
    <3>3. tc[LastSub].done = FALSE
      BY <1>3 DEF FlowAndMachine, MachineInv, ShapeOK, TShape, StartShape
    <3>4. UNCHANGED Flow!stage
      BY <3>1, <3>3 DEF Flow!stage
    <3> QED BY <1>1, <1>2, <1>3, <1>4, <2>1, <3>2, <3>4 DEF Flow!AdvanceLast, Flow!packets
  <2> QED BY <2>5, <2>6
<1>12. Flow!Next
  BY <1>11 DEF Flow!Next
<1>13. Flow!FlowInv'
  <2>1. Flow!FlowInv
    BY DEF FlowAndMachine
  <2> QED BY <1>12, <2>1, MachineGraph, Flow!StepInv
<1> QED BY <1>10, <1>12, <1>13 DEF FlowAndMachine

(***************************************************************************)
(* The network stop packet.                                                *)
(***************************************************************************)
Noticed(p) == p \in net /\ p.kind = "stpn" /\ net' = net \ {p} /\ Others(p.dst)

\* A core takes its network stop packet,
LEMMA NoticedFacts ==
  ASSUME FlowAndMachine, NEW p, Noticed(p)
  PROVE  /\ p.dst \in Cores /\ p.dst # LastT /\ Quiet(p.dst, {p}, {})
         /\ tc'[LastSub] = tc[LastSub] /\ cur' = cur /\ Behind' = Behind
         /\ p.dst \in Heading({"stpn"}) /\ Heading({"stpn"})' = Heading({"stpn"}) \ {p.dst}
         /\ ~Told(p.dst) /\ Told(p.dst)'
         /\ (Opened(p.dst) <=> p.dst \notin Behind) /\ (Opened(p.dst)' <=> p.dst \notin Behind)
         /\ ~Rec(p.dst).done /\ p.b = tc[LastSub].done
         /\ RendezvousOK(p.dst) /\ CoreOK(p.dst)
<1> DEFINE a == p.dst
<1>1. PacketOK(p)
  BY DEF Noticed, FlowAndMachine, MachineInv, NetOK
<1>2. a \in Cores /\ a # LastT /\ p.b = tc[LastSub].done
  BY <1>1 DEF Noticed, PacketOK
<1>3. a \in Heading({"stpn"})
  BY DEF Noticed, Heading
<1>4. LastSub \in Sub /\ LastT = T(LastSub) /\ LastT \in Cores
  BY LastSubFacts, CoreFacts DEF LastT
<1> HIDE DEF a
<1>5. Others(a)
  BY DEF a, Noticed
<1>6. tc'[LastSub] = tc[LastSub]
  BY <1>2, <1>4, <1>5 DEF Others
<1>7. /\ Heading({"stop", "sync"})' = Heading({"stop", "sync"})
      /\ Heading({"stpn"})' = Heading({"stpn"}) \ {a}
  BY HeadingTaken DEF Noticed, a
<1>8. Behind' = Behind
  BY <1>6, <1>7 DEF Behind
<1>9. Quiet(a, {p}, {})
  BY <1>2, <1>5, <1>8 DEF Quiet, Noticed, a
<1>10. cur' = cur
  BY <1>2, <1>6, <1>9, CurKept
<1>11. Flow!StageOK
  BY DEF FlowAndMachine, Flow!FlowInv
<1>12. Flow!EpochOver(cur) /\ LastT \notin Behind
  BY <1>3, <1>11 DEF Flow!StageOK, cur
<1>13. ~Rec(a).done
  BY <1>2, <1>3, <1>11 DEF Flow!StageOK
<1>14. Opened(LastT) /\ Opened(LastT)' /\ (Opened(a) <=> a \notin Behind) /\ (Opened(a)' <=> a \notin Behind)
  BY <1>8, <1>10, <1>12 DEF Opened, cur
<1>15. ~Told(a) /\ Told(a)'
  BY <1>3, <1>7, <1>14 DEF Told
<1>16. RendezvousOK(a)
  BY <1>2 DEF FlowAndMachine, MachineInv, EpochOK
<1>17. CoreOK(a)
  BY DEF FlowAndMachine, MachineInv, CoresOK, ShapeOK, CoreOK
<1> QED BY <1>2, <1>3, <1>6, <1>7, <1>8, <1>9, <1>10, <1>13, <1>14, <1>15, <1>16, <1>17 DEF a

\* and the invariant holds if its record is right.
LEMMA NoticedInv ==
  ASSUME FlowAndMachine, NEW p, Noticed(p), OwnSame(p.dst),
         Place(Rec(p.dst)') = Place(Rec(p.dst)),
         Rec(p.dst)'.done <=> tc[LastSub].done /\ p.dst \notin Behind,
         CoreOK(p.dst)', RendezvousOK(p.dst)'
  PROVE  FlowAndMachine' /\ Flow!Next
<1> DEFINE a == p.dst
<1>1. /\ a \in Cores /\ a # LastT /\ Quiet(a, {p}, {})
      /\ tc'[LastSub] = tc[LastSub] /\ Behind' = Behind
      /\ a \in Heading({"stpn"}) /\ Heading({"stpn"})' = Heading({"stpn"}) \ {a}
      /\ ~Rec(a).done
  BY NoticedFacts
<1>2. MachineInv'
  BY <1>1, QuietInv DEF Noticed
<1>3. Sent' = Sent /\ Got' = Got
  BY <1>1, QuietSent
<1>4. Place(Rec(a)') = Place(Rec(a)) /\ (Rec(a)'.done <=> tc[LastSub].done /\ a \notin Behind)
  OBVIOUS
<1> HIDE DEF a
<1>5. [c \in Cores |-> Place(Rec(c))]' = [c \in Cores |-> Place(Rec(c))]
  <2>1. \A c \in Cores : Place(Rec(c))' = Place(Rec(c))
    <3>1. \A c \in Cores : c # a => Place(Rec(c))' = Place(Rec(c))
      BY <1>1, QuietFrame
    <3> QED BY <1>4, <3>1
  <2> QED BY <2>1
<1>6. {c \in Cores : Rec(c).done}' = IF tc[LastSub].done /\ a \notin Behind
                                       THEN {c \in Cores : Rec(c).done} \cup {a}
                                       ELSE {c \in Cores : Rec(c).done}
  <2>1. \A c \in Cores : c # a => Rec(c)'.done = Rec(c).done
    BY <1>1, QuietFrame
  <2> QED BY <1>1, <1>4, <2>1
<1>7. Flow!Notice(a)
  BY <1>1, <1>3, <1>5, <1>6 DEF Flow!Notice, Flow!packets
<1>8. Flow!Next
  BY <1>1, <1>7 DEF Flow!Next
<1>9. Flow!FlowInv'
  <2>1. Flow!FlowInv
    BY DEF FlowAndMachine
  <2> QED BY <1>8, <2>1, MachineGraph, Flow!StepInv
<1> QED BY <1>2, <1>8, <1>9 DEF FlowAndMachine

\* sum, input and threshold cores
NetStopFields == {"net_stop", "net_stop_rdy", "done"}

NetStopOf(r, b, q) ==
  /\ Frame(r, q, NetStopFields) /\ q.net_stop = b
  /\ r.net_stop_rdy => q.net_stop_rdy = FALSE /\ q.done = b
  /\ ~r.net_stop_rdy => q.net_stop_rdy = TRUE /\ q.done = r.done

\* What a network stop packet does to a record,
LEMMA NetStopFacts ==
  ASSUME NEW r, NEW b, NEW q, StartFields \subseteq DOMAIN r, q = NetStop(r, b)
  PROVE  NetStopOf(r, b, q)
<1> DEFINE x == [r EXCEPT !.net_stop = b]
<1>1. /\ DOMAIN x = DOMAIN r /\ x.net_stop = b
      /\ \A f \in DOMAIN r \ {"net_stop"} : x[f] = r[f]
  BY DEF StartFields
<1>2. x.net_stop_rdy = r.net_stop_rdy /\ x.done = r.done
  BY <1>1 DEF StartFields
<1>3. q = Rendezvous(x)
  BY DEF NetStop
<1> HIDE DEF x
<1>4. Frame(x, q, {"net_stop_rdy", "done"}) /\ Rdv(x, q, TRUE)
  BY <1>1, <1>3, RendezvousFacts
<1> QED BY <1>1, <1>2, <1>4 DEF Frame, Rdv, NetStopFields, NetStopOf

\* that of a core which may be behind or not.
LEMMA NoticedRecord ==
  ASSUME FlowAndMachine, NEW p, Noticed(p), p.dst[1] # "W",
         NEW r, r = Rec(p.dst), StartFields \subseteq DOMAIN r, StartShape(r),
         NEW q, q = Rec(p.dst)', q = NetStop(r, p.b)
  PROVE  /\ Frame(r, q, NetStopFields) /\ StartShape(q) /\ Place(q) = Place(r) /\ q.phase = r.phase
         /\ q.done <=> tc[LastSub].done /\ p.dst \notin Behind
         /\ RendezvousOK(p.dst)'
<1> DEFINE a == p.dst
<1>1. /\ tc'[LastSub] = tc[LastSub] /\ ~Told(a) /\ Told(a)'
      /\ (Opened(a) <=> a \notin Behind) /\ (Opened(a)' <=> a \notin Behind)
      /\ ~r.done /\ p.b = tc[LastSub].done /\ RendezvousOK(a)
  BY NoticedFacts
<1>2. r.net_stop_rdy <=> (Opened(a) # Told(a))
  <2>1. r.net_stop_rdy <=> (Opened(a) # Told(a))
    BY <1>1 DEF RendezvousOK
  <2> QED BY <2>1
<1>3. Opened(a) \in BOOLEAN /\ Told(a) \in BOOLEAN /\ Opened(a)' \in BOOLEAN /\ Told(a)' \in BOOLEAN
  BY DEF Opened, Told
<1>4. r.net_stop_rdy <=> a \notin Behind
  BY <1>1, <1>2, <1>3
<1>5. NetStopOf(r, p.b, q)
  BY NetStopFacts
<1>5a. /\ Frame(r, q, NetStopFields) /\ q.net_stop = p.b
       /\ r.net_stop_rdy => q.net_stop_rdy = FALSE /\ q.done = p.b
       /\ ~r.net_stop_rdy => q.net_stop_rdy = TRUE /\ q.done = r.done
  BY <1>5 DEF NetStopOf
<1>6. q.done <=> tc[LastSub].done /\ a \notin Behind
  BY <1>1, <1>4, <1>5a
<1>7. tc[LastSub].done \in BOOLEAN
  <2>1. LastSub \in Sub
    BY LastSubFacts
  <2> QED BY <2>1 DEF StartShape, FlowAndMachine, MachineInv, ShapeOK, TShape
<1>8. StartShape(q)
  BY <1>1, <1>5a, <1>7 DEF StartShape
<1>9. Place(q) = Place(r) /\ q.phase = r.phase
  BY <1>5a DEF Frame, NetStopFields, Place, StartFields
<1>10. q.net_stop_rdy <=> (Opened(a)' # Told(a)')
  BY <1>1, <1>3, <1>4, <1>5a
<1>11. RendezvousOK(a)'
  BY <1>1, <1>5a, <1>10 DEF RendezvousOK
<1> QED BY <1>5a, <1>6, <1>8, <1>9, <1>11

\* An input core takes it (i_net_stop_packet),
LEMMA INoticeInv ==
  ASSUME FlowAndMachine, NEW p \in net, INetStop(p), UNCHANGED <<wc, sc, tc>>
  PROVE  FlowAndMachine' /\ Flow!Next
<1> DEFINE s == p.dst[2]
           a == p.dst
           r == ic[s]
           q == ic'[s]
<1>1. p.kind = "stpn" /\ a[1] = "I" /\ net' = net \ {p} /\ ic' = [ic EXCEPT ![s] = NetStop(r, p.b)]
  BY DEF INetStop
<1>2. a \in Cores /\ s \in Sub /\ a = I(s) /\ DOMAIN ic = Sub /\ IShape(r)
  <2>1. a \in Cores
    BY DEF FlowAndMachine, MachineInv, NetOK, PacketOK
  <2> QED BY <1>1, <2>1, CoreKinds DEF FlowAndMachine, MachineInv, ShapeOK
<1>3. Rec(a) = r /\ Rec(a)' = q
  BY <1>2, RecFacts
<1>4. Others(a)
  BY <1>1, <1>2, CoresApart DEF Others
<1>5. Noticed(p)
  BY <1>1, <1>4 DEF Noticed
<1>6. q = NetStop(r, p.b)
  BY <1>1, <1>2
<1>7. StartFields \subseteq DOMAIN r /\ StartShape(r)
  BY <1>2 DEF IShape
<1> HIDE DEF r, q
<1>8. /\ Frame(r, q, NetStopFields) /\ StartShape(q) /\ Place(q) = Place(r)
      /\ q.done <=> tc[LastSub].done /\ p.dst \notin Behind
      /\ RendezvousOK(p.dst)'
  BY <1>1, <1>3, <1>5, <1>6, <1>7, NoticedRecord
<1>9. OwnSame(a)
  BY <1>2, CoresApart DEF OwnSame, WCores
<1>10. CoreOK(a)'
  <2>1. IShape(ic'[s])
    BY <1>2, <1>8 DEF q, IShape, Frame
  <2> QED BY <1>2, <2>1, CoresApart DEF CoreOK, WCores
<1>11. Place(Rec(p.dst)') = Place(Rec(p.dst)) /\ (Rec(p.dst)'.done <=> tc[LastSub].done /\ p.dst \notin Behind)
  BY <1>3, <1>8
<1> QED BY <1>5, <1>8, <1>9, <1>10, <1>11, NoticedInv

\* a sum core (s_net_stop_packet),
LEMMA SNoticeInv ==
  ASSUME FlowAndMachine, NEW p \in net, SNetStop(p), UNCHANGED <<wc, ic, tc>>
  PROVE  FlowAndMachine' /\ Flow!Next
<1> DEFINE s == p.dst[2]
           a == p.dst
           r == sc[s]
           q == sc'[s]
<1>1. p.kind = "stpn" /\ a[1] = "S" /\ net' = net \ {p} /\ sc' = [sc EXCEPT ![s] = NetStop(r, p.b)]
  BY DEF SNetStop
<1>2. a \in Cores /\ s \in Sub /\ a = S(s) /\ DOMAIN sc = Sub /\ SShape(r) /\ SCoreOK(s)
  <2>1. a \in Cores
    BY DEF FlowAndMachine, MachineInv, NetOK, PacketOK
  <2>2. s \in Sub /\ a = S(s)
    BY <1>1, <2>1, CoreKinds
  <2> QED BY <2>1, <2>2 DEF FlowAndMachine, MachineInv, ShapeOK, CoresOK
<1>3. Rec(a) = r /\ Rec(a)' = q
  BY <1>2, RecFacts
<1>4. Others(a)
  BY <1>1, <1>2, CoresApart DEF Others
<1>5. Noticed(p)
  BY <1>1, <1>4 DEF Noticed
<1>6. q = NetStop(r, p.b)
  BY <1>1, <1>2
<1>7. StartFields \subseteq DOMAIN r /\ StartShape(r)
  BY <1>2 DEF SShape
<1> HIDE DEF r, q
<1>8. /\ Frame(r, q, NetStopFields) /\ StartShape(q) /\ Place(q) = Place(r) /\ q.phase = r.phase
      /\ q.done <=> tc[LastSub].done /\ p.dst \notin Behind
      /\ RendezvousOK(p.dst)'
  BY <1>1, <1>3, <1>5, <1>6, <1>7, NoticedRecord
<1>9. /\ q.sf_arrived = r.sf_arrived /\ q.s_fsgn_arrived = r.s_fsgn_arrived
      /\ q.sb_arrived = r.sb_arrived /\ q.sb_done = r.sb_done
      /\ q.s_bsgn_arrived = r.s_bsgn_arrived /\ q.s_lds_arrived = r.s_lds_arrived
      /\ q.sb_thrds_pend = r.sb_thrds_pend /\ DOMAIN q = DOMAIN r
  BY <1>2, <1>8 DEF Frame, SShape, NetStopFields
<1>10. Behind' = Behind
  BY <1>5, NoticedFacts
<1>11. \A ph : In(S(s), ph)' <=> In(S(s), ph)
  BY <1>2, <1>3, <1>8, <1>10 DEF In
<1>12. sc[s] = r /\ sc'[s] = q
  BY DEF r, q
<1>13. /\ \A u \in Unit : /\ NetWhole(s, u)' <=> NetWhole(s, u)
                          /\ ErrorWhole(s, u)' <=> ErrorWhole(s, u)
       /\ FsgnIn(s)' <=> FsgnIn(s)
       /\ LdsIn(s)' <=> LdsIn(s)
  BY <1>9, <1>11, <1>12 DEF NetWhole, ErrorWhole, FsgnIn, LdsIn
<1>14. SBReported(s)' <=> SBReported(s)
  BY <1>8, <1>9, <1>11, <1>12, <1>13 DEF SBReported
<1>15. OwnSame(a)
  <2>1. a \notin WCores /\ \A t \in Sub : (a = S(t) => t = s) /\ a # T(t)
    BY <1>2, CoresApart DEF WCores
  <2> QED BY <1>8, <1>12, <1>13, <1>14, <2>1 DEF OwnSame
<1>16. Got' = Got
  <2>1. Quiet(a, {p}, {})
    BY <1>5, NoticedFacts
  <2> QED BY <1>15, <2>1, QuietSent
<1>17. /\ \A u : GotUnit("fwd", S(s), u)' = GotUnit("fwd", S(s), u)
       /\ \A u : GotUnit("bkp", S(s), u)' = GotUnit("bkp", S(s), u)
       /\ GotInto("fsgn", S(s))' = GotInto("fsgn", S(s))
       /\ GotInto("bsgn", S(s))' = GotInto("bsgn", S(s))
       /\ GotInto("lds", S(s))' = GotInto("lds", S(s))
  BY <1>16 DEF GotUnit, GotInto
<1>18. SBThreads(s)' = SBThreads(s) /\ SBThreadsDone(s)' = SBThreadsDone(s)
  BY <1>8, <1>9, <1>12 DEF SBThreads, SBThreadsDone
<1>19. SCoreOK(s)'
  BY <1>2, <1>8, <1>9, <1>11, <1>12, <1>17, <1>18 DEF SCoreOK
<1>20. CoreOK(a)'
  <2>1. SShape(sc'[s])
    BY <1>2, <1>8, <1>9, <1>12 DEF SShape
  <2>2. a \notin WCores /\ \A t \in Sub : (a = S(t) => t = s) /\ a # T(t) /\ a # I(t)
    BY <1>2, CoresApart DEF WCores
  <2> QED BY <1>19, <2>1, <2>2 DEF CoreOK
<1>21. Place(Rec(p.dst)') = Place(Rec(p.dst)) /\ (Rec(p.dst)'.done <=> tc[LastSub].done /\ p.dst \notin Behind)
  BY <1>3, <1>8
<1> QED BY <1>5, <1>8, <1>15, <1>20, <1>21, NoticedInv

\* a threshold core (t_net_stop_packet),
LEMMA TNoticeInv ==
  ASSUME FlowAndMachine, NEW p \in net, TNetStop(p), UNCHANGED <<wc, sc, ic>>
  PROVE  FlowAndMachine' /\ Flow!Next
<1> DEFINE s == p.dst[2]
           a == p.dst
           r == tc[s]
           q == tc'[s]
<1>1. p.kind = "stpn" /\ a[1] = "T" /\ net' = net \ {p} /\ tc' = [tc EXCEPT ![s] = NetStop(r, p.b)]
  BY DEF TNetStop
<1>2. a \in Cores /\ s \in Sub /\ a = T(s) /\ DOMAIN tc = Sub /\ TShape(r) /\ TCoreOK(s)
  <2>1. a \in Cores
    BY DEF FlowAndMachine, MachineInv, NetOK, PacketOK
  <2>2. s \in Sub /\ a = T(s)
    BY <1>1, <2>1, CoreKinds
  <2> QED BY <2>1, <2>2 DEF FlowAndMachine, MachineInv, ShapeOK, CoresOK
<1>3. Rec(a) = r /\ Rec(a)' = q
  BY <1>2, RecFacts
<1>4. Others(a)
  BY <1>1, <1>2, CoresApart DEF Others
<1>5. Noticed(p)
  BY <1>1, <1>4 DEF Noticed
<1>6. q = NetStop(r, p.b)
  BY <1>1, <1>2
<1>7. StartFields \subseteq DOMAIN r /\ StartShape(r)
  BY <1>2 DEF TShape
<1> HIDE DEF r, q
<1>8. /\ Frame(r, q, NetStopFields) /\ StartShape(q) /\ Place(q) = Place(r) /\ q.phase = r.phase
      /\ q.done <=> tc[LastSub].done /\ p.dst \notin Behind
      /\ RendezvousOK(p.dst)'
  BY <1>1, <1>3, <1>5, <1>6, <1>7, NoticedRecord
<1>9. /\ q.tf_arrived = r.tf_arrived /\ q.tf_crit_arrived = r.tf_crit_arrived
      /\ q.tf_thrds_pend = r.tf_thrds_pend /\ q.tb_arrived = r.tb_arrived
      /\ q.tb_bsgn_arrived = r.tb_bsgn_arrived /\ q.tb_thrds_pend = r.tb_thrds_pend
      /\ q.tb_pending = r.tb_pending /\ q.advance = r.advance
      /\ q.tb_procs = r.tb_procs /\ q.tick_stop = r.tick_stop /\ DOMAIN q = DOMAIN r
  BY <1>2, <1>8 DEF Frame, TShape, NetStopFields
<1>10. Behind' = Behind
  BY <1>5, NoticedFacts
<1>11. \A ph : In(T(s), ph)' <=> In(T(s), ph)
  BY <1>2, <1>3, <1>8, <1>10 DEF In
<1>12. tc[s] = r /\ tc'[s] = q
  BY DEF r, q
<1>13. (CritWhole(s)' <=> CritWhole(s)) /\ (Deltas(s)' <=> Deltas(s)) /\ (TBReported(s)' <=> TBReported(s))
  BY <1>9, <1>11, <1>12 DEF CritWhole, Deltas, TBReported
<1>14. OwnSame(a)
  <2>1. a \notin WCores /\ \A t \in Sub : (a = T(t) => t = s) /\ a # S(t)
    BY <1>2, CoresApart DEF WCores
  <2> QED BY <1>13, <2>1 DEF OwnSame
<1>15. Got' = Got
  <2>1. Quiet(a, {p}, {})
    BY <1>5, NoticedFacts
  <2> QED BY <1>14, <2>1, QuietSent
<1>16. /\ GotInto("fwd", T(s))' = GotInto("fwd", T(s))
       /\ GotInto("crit", T(s))' = GotInto("crit", T(s))
       /\ GotInto("bkp", T(s))' = GotInto("bkp", T(s))
       /\ GotInto("bsgn", T(s))' = GotInto("bsgn", T(s))
  BY <1>15 DEF GotInto
<1>17. TFThreadsDone(s)' = TFThreadsDone(s) /\ TBThreadsDone(s)' = TBThreadsDone(s)
  BY <1>9, <1>12, <1>15 DEF TFThreadsDone, TBThreadsDone
<1>18. TCoreOK(s)'
  BY <1>2, <1>8, <1>9, <1>11, <1>12, <1>16, <1>17 DEF TCoreOK
<1>19. CoreOK(a)'
  <2>1. TShape(tc'[s])
    BY <1>2, <1>8, <1>9, <1>12 DEF TShape
  <2>2. a \notin WCores /\ \A t \in Sub : (a = T(t) => t = s) /\ a # S(t) /\ a # I(t)
    BY <1>2, CoresApart DEF WCores
  <2> QED BY <1>18, <2>1, <2>2 DEF CoreOK
<1>20. Place(Rec(p.dst)') = Place(Rec(p.dst)) /\ (Rec(p.dst)'.done <=> tc[LastSub].done /\ p.dst \notin Behind)
  BY <1>3, <1>8
<1> QED BY <1>5, <1>8, <1>14, <1>19, <1>20, NoticedInv

\* a weight core (w_net_stop_packet).
LEMMA WNoticeInv ==
  ASSUME FlowAndMachine, NEW p \in net, WNetStop(p), UNCHANGED <<sc, ic, tc>>
  PROVE  FlowAndMachine' /\ Flow!Next
<1> DEFINE a == p.dst
           r == wc[a]
           q == wc'[a]
           x == [r EXCEPT !.net_stop = p.b]
           y == [x EXCEPT !.epoch_rdy = FALSE]
<1>1. p.kind = "stpn" /\ a \in WCores /\ net' = net \ {p}
  BY DEF WNetStop
<1>2. wc' = [wc EXCEPT ![a] = IF x.epoch_rdy THEN WGoOn(y) ELSE [x EXCEPT !.net_stop_rdy = TRUE]]
  BY DEF WNetStop
<1>3. a \in Cores /\ DOMAIN wc = WCores /\ WShape(r) /\ WCoreOK(a)
  <2>1. a \in Cores
    BY DEF FlowAndMachine, MachineInv, NetOK, PacketOK
  <2> QED BY <1>1, <2>1 DEF FlowAndMachine, MachineInv, ShapeOK, CoresOK
<1>4. Rec(a) = r /\ Rec(a)' = q /\ a[1] = "W"
  BY <1>1, RecFacts
<1>5. Others(a)
  BY <1>1, <1>2, <1>3, CoresApart DEF Others
<1>6. Noticed(p)
  BY <1>1, <1>5 DEF Noticed
<1>7. /\ Quiet(a, {p}, {}) /\ tc'[LastSub] = tc[LastSub] /\ cur' = cur /\ Behind' = Behind
      /\ ~Told(a) /\ Told(a)'
      /\ (Opened(a) <=> a \notin Behind) /\ (Opened(a)' <=> a \notin Behind)
      /\ ~Rec(a).done /\ p.b = tc[LastSub].done /\ RendezvousOK(a)
  BY <1>6, NoticedFacts
<1>8. q = IF x.epoch_rdy THEN WGoOn(y) ELSE [x EXCEPT !.net_stop_rdy = TRUE]
  BY <1>1, <1>2, <1>3
<1>9. DOMAIN r = WFields
  BY <1>3 DEF WShape, WFields
<1>10. /\ Frame(r, x, {"net_stop"}) /\ x.net_stop = p.b
       /\ Frame(x, y, {"epoch_rdy"}) /\ y.epoch_rdy = FALSE
  BY <1>9 DEF Frame, WFields, StartFields
<1>11. /\ r.net_stop_rdy = FALSE /\ (r.epoch_rdy <=> a \notin Behind)
       /\ (r.wf_pending => In(a, F) /\ ~r.epoch_rdy /\ ~r.done) /\ ~r.done
       /\ r.phase = F => r.wb_arrived = 0
       /\ r.phase = B => r.wf_arrived = 0
       /\ In(a, F) => r.wf_arrived = GotInto("fwd", a)
       /\ In(a, B) => r.wb_arrived = GotInto("bkp", a)
  <2>1. r.net_stop_rdy \in BOOLEAN
    BY <1>3 DEF WShape, StartShape
  <2> QED BY <1>3, <1>4, <1>7, <2>1 DEF RendezvousOK, WCoreOK
<1>12. wc[a] = r /\ wc'[a] = q
  OBVIOUS
<1>13. p.b \in BOOLEAN
  BY DEF FlowAndMachine, MachineInv, NetOK, PacketOK
<1> DEFINE Changing == {"net_stop", "net_stop_rdy", "done", "wf_pending", "epoch_rdy"}
<1> HIDE DEF r, q, x, y, Changing
<1>14. x.epoch_rdy = r.epoch_rdy /\ DOMAIN x = WFields /\ DOMAIN y = WFields
  BY <1>9, <1>10 DEF Frame, WFields, StartFields
<1>15. CASE r.epoch_rdy
  <2>1. q = WGoOn(y)
    BY <1>8, <1>14, <1>15
  <2>2. /\ Frame(y, q, WGoFields)
        /\ y.net_stop => q.done = TRUE /\ q.wf_pending = y.wf_pending
        /\ ~y.net_stop => q.done = y.done /\ q.wf_pending = TRUE
    BY <1>14, <2>1, WGoOnFacts
  <2>3. y.net_stop = p.b /\ y.done = r.done /\ y.wf_pending = r.wf_pending
    BY <1>10, <1>14 DEF Frame, WFields, StartFields
  <2>4. q.done = p.b /\ (q.wf_pending <=> ~p.b)
    BY <1>3, <1>11, <1>13, <1>15, <2>2, <2>3 DEF WShape, StartShape
  <2>5. Frame(r, q, Changing)
    BY <1>9, <1>10, <1>14, <2>2 DEF Frame, Changing, WFields, WGoFields, StartFields
  <2>6. q.net_stop = p.b /\ q.epoch_rdy = FALSE /\ q.net_stop_rdy = FALSE
    BY <1>10, <1>11, <1>14, <2>2 DEF Frame, WFields, WGoFields, StartFields
  <2> HIDE DEF Changing
  <2>7. /\ q.phase = r.phase /\ q.tick = r.tick /\ q.evt = r.evt /\ q.example_cnt = r.example_cnt
        /\ q.epoch = r.epoch /\ q.wf_procs = r.wf_procs
        /\ q.wf_arrived = r.wf_arrived /\ q.wb_arrived = r.wb_arrived /\ DOMAIN q = DOMAIN r
    BY <1>9, <2>5 DEF Frame, Changing, WFields, StartFields
  <2>8. a \notin Behind /\ r.phase = F
    <3>1. a \notin Behind /\ Opened(a)
      BY <1>7, <1>11, <1>15
    <3>2. Place(Rec(a)) = cur
      BY <1>3, <3>1, FlowFacts DEF FlowAndMachine
    <3> QED BY <1>4, <3>1, <3>2 DEF Opened, Flow!EpochOver, Place, F, cur
  <2>9. \A ph : In(a, ph)' <=> In(a, ph)
    BY <1>4, <1>7, <2>7 DEF In
  <2>10. In(a, F)
    BY <1>4, <2>8 DEF In
  <2>11. OwnSame(a)
    <3>1. ~Products(a) /\ ~Products(a)'
      BY <1>12, <1>13, <1>15, <2>4 DEF Products
    <3>2. (OutputsIn(a)' <=> OutputsIn(a)) /\ (DeltasIn(a)' <=> DeltasIn(a))
      BY <1>12, <2>7, <2>9 DEF OutputsIn, DeltasIn
    <3>3. \A s \in Sub : a # S(s) /\ a # T(s)
      BY <1>4, CoresApart
    <3> QED BY <1>12, <2>7, <3>1, <3>2, <3>3 DEF OwnSame, Place
  <2>12. \A k : GotInto(k, a)' = GotInto(k, a)
    BY <1>7, <2>11, QuietSent DEF GotInto
  <2>13. WCoreOK(a)'
    BY <1>11, <1>12, <1>13, <2>4, <2>6, <2>7, <2>9, <2>10, <2>12 DEF WCoreOK
  <2>14. WShape(q)
    BY <1>3, <1>13, <2>2, <2>3, <2>4, <2>6, <2>7 DEF WShape, StartShape
  <2>15. CoreOK(a)'
    BY <1>4, <1>12, <2>13, <2>14, CoresApart DEF CoreOK
  <2>16. RendezvousOK(a)'
    BY <1>4, <1>7, <2>6, <2>8 DEF RendezvousOK
  <2>17. Place(Rec(p.dst)') = Place(Rec(p.dst)) /\ (Rec(p.dst)'.done <=> tc[LastSub].done /\ p.dst \notin Behind)
    BY <1>4, <1>7, <2>4, <2>7, <2>8 DEF Place
  <2> QED BY <1>6, <2>11, <2>15, <2>16, <2>17, NoticedInv
<1>16. CASE ~r.epoch_rdy
  <2>1. q = [x EXCEPT !.net_stop_rdy = TRUE]
    BY <1>8, <1>14, <1>16
  <2>2. Frame(x, q, {"net_stop_rdy"}) /\ q.net_stop_rdy = TRUE
    BY <1>14, <2>1 DEF Frame, WFields, StartFields
  <2>3. /\ q.phase = r.phase /\ q.tick = r.tick /\ q.evt = r.evt /\ q.example_cnt = r.example_cnt
        /\ q.epoch = r.epoch /\ q.wf_procs = r.wf_procs
        /\ q.wf_arrived = r.wf_arrived /\ q.wb_arrived = r.wb_arrived /\ DOMAIN q = DOMAIN r
        /\ q.done = r.done /\ q.wf_pending = r.wf_pending /\ q.epoch_rdy = r.epoch_rdy
        /\ q.net_stop = p.b
    BY <1>9, <1>10, <1>14, <2>2 DEF Frame, WFields, StartFields
  <2>4. a \in Behind
    BY <1>11, <1>16
  <2>5. \A ph : ~In(a, ph) /\ ~In(a, ph)'
    BY <1>7, <2>4 DEF In
  <2>6. ~q.wf_pending
    BY <1>11, <2>3, <2>5
  <2>7. OwnSame(a)
    <3>1. \A s \in Sub : a # S(s) /\ a # T(s)
      BY <1>4, CoresApart
    <3> QED BY <2>4, <2>5, <3>1 DEF OwnSame, Products, OutputsIn, DeltasIn
  <2>8. WCoreOK(a)'
    BY <1>11, <1>12, <2>3, <2>5, <2>6 DEF WCoreOK
  <2>9. WShape(q)
    BY <1>3, <1>13, <2>2, <2>3 DEF WShape, StartShape
  <2>10. CoreOK(a)'
    BY <1>4, <1>12, <2>8, <2>9, CoresApart DEF CoreOK
  <2>11. RendezvousOK(a)'
    BY <1>4, <1>7, <1>16, <2>2, <2>3, <2>4 DEF RendezvousOK
  <2>12. Place(Rec(p.dst)') = Place(Rec(p.dst)) /\ (Rec(p.dst)'.done <=> tc[LastSub].done /\ p.dst \notin Behind)
    BY <1>4, <1>11, <2>3, <2>4 DEF Place
  <2> QED BY <1>6, <2>7, <2>10, <2>11, <2>12, NoticedInv
<1> QED BY <1>15, <1>16

\* The broadcast of the link delta total, which no tick waits for.
LEMMA WLdsaInv ==
  ASSUME FlowAndMachine, NEW p \in net, WLdsa(p), UNCHANGED <<sc, ic, tc>>
  PROVE  FlowAndMachine' /\ UNCHANGED Flow!vars
<1> DEFINE a == p.dst
           r == wc[a]
           q == wc'[a]
<1>1. p.kind = "lds" /\ a \in WCores /\ net' = net \ {p}
      /\ wc' = [wc EXCEPT ![a] = [r EXCEPT !.w_lds_final = p.st]]
  BY DEF WLdsa
<1>2. a \in Cores /\ DOMAIN wc = WCores /\ WShape(r) /\ WCoreOK(a)
  <2>1. a \in Cores
    BY DEF FlowAndMachine, MachineInv, NetOK, PacketOK
  <2> QED BY <1>1, <2>1 DEF FlowAndMachine, MachineInv, ShapeOK, CoresOK
<1>3. Rec(a) = r /\ Rec(a)' = q /\ a[1] = "W"
  BY <1>1, RecFacts
<1>4. Others(a)
  BY <1>1, <1>2, CoresApart DEF Others
<1>5. q = [r EXCEPT !.w_lds_final = p.st]
  BY <1>1, <1>2
<1>6. wc[a] = r /\ wc'[a] = q
  OBVIOUS
<1> HIDE DEF r, q
<1>7. Frame(r, q, {"w_lds_final"})
  BY <1>2, <1>5 DEF Frame, WShape
<1>8. /\ q.phase = r.phase /\ q.tick = r.tick /\ q.evt = r.evt /\ q.example_cnt = r.example_cnt
      /\ q.epoch = r.epoch /\ q.wf_procs = r.wf_procs
      /\ q.wf_arrived = r.wf_arrived /\ q.wb_arrived = r.wb_arrived /\ DOMAIN q = DOMAIN r
      /\ q.done = r.done /\ q.wf_pending = r.wf_pending /\ q.epoch_rdy = r.epoch_rdy
      /\ q.net_stop = r.net_stop /\ q.net_stop_rdy = r.net_stop_rdy
  BY <1>2, <1>7 DEF Frame, WShape, StartFields
<1>9. \A K : "lds" \notin K => Heading(K)' = Heading(K)
  BY <1>1 DEF Heading
<1>10. tc' = tc
  OBVIOUS
<1>11. Behind' = Behind
  <2>1. Heading({"stop", "sync"})' = Heading({"stop", "sync"})
    BY <1>9
  <2> QED BY <1>10, <2>1 DEF Behind
<1>12. Quiet(a, {p}, {})
  BY <1>1, <1>2, <1>3, <1>4, <1>11 DEF Quiet, Loose
<1>13. \A ph : In(a, ph)' <=> In(a, ph)
  BY <1>3, <1>8, <1>11 DEF In
<1>14. Place(q) = Place(r)
  BY <1>8 DEF Place
<1>15. OwnSame(a)
  <2>1. \A s \in Sub : a # S(s) /\ a # T(s)
    BY <1>3, CoresApart
  <2>2. Products(a)' <=> Products(a)
    BY <1>6, <1>8, <1>13 DEF Products
  <2>3. (OutputsIn(a)' <=> OutputsIn(a)) /\ (DeltasIn(a)' <=> DeltasIn(a))
    BY <1>6, <1>8, <1>13 DEF OutputsIn, DeltasIn
  <2> QED BY <1>6, <1>14, <2>1, <2>2, <2>3 DEF OwnSame
<1>16. Sent' = Sent /\ Got' = Got
  BY <1>12, <1>15, QuietSent
<1>17. CoreOK(a)'
  <2>1. WCoreOK(a)'
    BY <1>2, <1>6, <1>8, <1>13, <1>16 DEF WCoreOK, GotInto
  <2>2. WShape(q)
    BY <1>2, <1>8 DEF WShape, StartShape
  <2> QED BY <1>3, <1>6, <2>1, <2>2, CoresApart DEF CoreOK
<1>18. Heading({"stpn"})' = Heading({"stpn"})
  BY <1>9
<1>19. LastT = T(LastSub) /\ a # LastT
  BY <1>3, CoresApart DEF LastT
<1>20. cur' = cur
  BY <1>10, <1>12, <1>19, CurKept
<1>21. RendezvousOK(a)'
  <2>1. RendezvousOK(a)
    BY <1>2, <1>19 DEF FlowAndMachine, MachineInv, EpochOK
  <2>2. (Opened(a)' <=> Opened(a)) /\ (Told(a)' <=> Told(a))
    BY <1>11, <1>18, <1>20 DEF Opened, Told, cur
  <2> QED BY <1>3, <1>8, <1>10, <2>1, <2>2 DEF RendezvousOK
<1>22. MachineInv'
  BY <1>3, <1>12, <1>14, <1>15, <1>17, <1>19, <1>21, QuietInv
<1>23. \A c \in Cores : Place(Rec(c))' = Place(Rec(c)) /\ Rec(c)'.done = Rec(c).done
  <2>1. \A c \in Cores : c # a => Place(Rec(c))' = Place(Rec(c)) /\ Rec(c)'.done = Rec(c).done
    BY <1>12, QuietFrame
  <2> QED BY <1>3, <1>8, <1>14, <2>1
<1>24. /\ [c \in Cores |-> Place(Rec(c))]' = [c \in Cores |-> Place(Rec(c))]
       /\ {c \in Cores : Rec(c).done}' = {c \in Cores : Rec(c).done}
  BY <1>23
<1>25. UNCHANGED Flow!vars
  BY <1>10, <1>11, <1>16, <1>18, <1>24 DEF Flow!vars, Flow!packets, Flow!stage
<1>26. Flow!FlowInv'
  BY <1>25, Flow!StepInv, MachineGraph DEF FlowAndMachine
<1> QED BY <1>22, <1>25, <1>26 DEF FlowAndMachine

(***************************************************************************)
(* Start of the stage.                                                     *)
(***************************************************************************)
LEMMA StartingFacts ==
  ASSUME NEW own, NEW r, r = Starting(own), DOMAIN own \cap StartFields = {}
  PROVE  /\ DOMAIN r = StartFields \cup DOMAIN own
         /\ \A f \in DOMAIN own : r[f] = own[f]
         /\ r.phase = F /\ r.tick = INIT_TICK /\ r.evt = 0 /\ r.example_cnt = 0 /\ r.epoch = 0
         /\ r.net_stop = FALSE /\ r.net_stop_rdy = FALSE /\ r.done = FALSE
<1>1. DOMAIN Start = StartFields
  BY DEF Start, StartFields
<1>2. /\ Start.phase = F /\ Start.tick = INIT_TICK /\ Start.evt = 0
      /\ Start.example_cnt = 0 /\ Start.epoch = 0
      /\ Start.net_stop = FALSE /\ Start.net_stop_rdy = FALSE /\ Start.done = FALSE
  BY DEF Start
<1>3. \A f \in StartFields : r[f] = Start[f]
  BY <1>1 DEF Starting
<1>4. DOMAIN r = StartFields \cup DOMAIN own /\ \A f \in DOMAIN own : r[f] = own[f]
  BY <1>1 DEF Starting
<1> QED BY <1>2, <1>3, <1>4 DEF StartFields

\* A weight core at the start of a stage (var_init),
LEMMA WStarts ==
  ASSUME WInit, NEW c \in WCores, NEW r, r = wc[c]
  PROVE  /\ WShape(r) /\ r.phase = F /\ Place(r) = Flow!First /\ ~r.done
         /\ r.wf_arrived = 0 /\ r.wb_arrived = 0 /\ r.wf_pending /\ ~r.epoch_rdy
         /\ r.net_stop = FALSE /\ r.net_stop_rdy = FALSE
<1> DEFINE own == [wf_procs |-> 0, wf_arrived |-> 0, wb_arrived |-> 0,
      w_outputs |-> [b \in 0 .. 1 |-> [i \in Unit |-> Initial]],
      w_output_history |-> [k \in 0 .. GlobalMaxTicks - 1 |-> [i \in Unit |-> Zero]],
      w_errors |-> EmptyBag, w_link_deltas |-> EmptyBag, w_lds_final |-> Zero,
      epoch_rdy |-> FALSE, wf_pending |-> TRUE]
<1>1. r = Starting(own)
  BY DEF WInit, WInitRecord
<1>2. /\ DOMAIN own = {"wf_procs", "wf_arrived", "wb_arrived", "w_outputs",
                       "w_output_history", "w_errors", "w_link_deltas", "w_lds_final",
                       "epoch_rdy", "wf_pending"}
      /\ own.wf_procs = 0 /\ own.wf_arrived = 0 /\ own.wb_arrived = 0
      /\ own.epoch_rdy = FALSE /\ own.wf_pending = TRUE
  OBVIOUS
<1> HIDE DEF own
<1>3. DOMAIN own \cap StartFields = {}
  BY <1>2 DEF StartFields
<1>4. /\ DOMAIN r = StartFields \cup DOMAIN own /\ \A f \in DOMAIN own : r[f] = own[f]
      /\ r.phase = F /\ r.tick = INIT_TICK /\ r.evt = 0 /\ r.example_cnt = 0 /\ r.epoch = 0
      /\ r.net_stop = FALSE /\ r.net_stop_rdy = FALSE /\ r.done = FALSE
  BY <1>1, <1>3, StartingFacts
<1>5. /\ r.wf_procs = 0 /\ r.wf_arrived = 0 /\ r.wb_arrived = 0
      /\ r.epoch_rdy = FALSE /\ r.wf_pending = TRUE
  BY <1>2, <1>4
<1>6. WShape(r)
  <2>1. StartShape(r)
    BY <1>4 DEF StartShape
  <2>2. r.wf_procs \in 0 .. 1 /\ r.epoch_rdy \in BOOLEAN /\ r.wf_pending \in BOOLEAN
    <3>1. r.wf_procs \in 0 .. 1
      BY <1>5
    <3>2. r.epoch_rdy \in BOOLEAN
      BY <1>5
    <3>3. r.wf_pending \in BOOLEAN
      BY <1>5
    <3> QED BY <3>1, <3>2, <3>3
  <2>3. DOMAIN r = StartFields \cup DOMAIN own
    BY <1>4
  <2> QED BY <1>2, <2>1, <2>2, <2>3 DEF WShape
<1>7. Place(r) = Flow!First
  BY <1>4 DEF Place, Flow!First, F, INIT_TICK
<1> QED BY <1>4, <1>5, <1>6, <1>7

\* a sum core,
LEMMA SStarts ==
  ASSUME SInit, NEW s \in Sub, NEW r, r = sc[s]
  PROVE  /\ SShape(r) /\ r.phase = F /\ Place(r) = Flow!First /\ ~r.done
         /\ r.sf_arrived = NoneArrived /\ r.s_fsgn_arrived = 0
         /\ r.sb_arrived = NoneArrived /\ r.sb_done = 0
         /\ r.s_bsgn_arrived = 0 /\ r.s_lds_arrived = 0
         /\ r.sb_thrds_pend = sb_thrds_init(s)
         /\ r.net_stop = FALSE /\ r.net_stop_rdy = FALSE
<1> DEFINE own == [s_nets |-> Nothing, sf_arrived |-> NoneArrived, s_fsgn_arrived |-> 0,
      s_errors |-> Nothing, sb_arrived |-> NoneArrived, sb_done |-> 0,
      s_bsgn_arrived |-> 0, sb_thrds_pend |-> sb_thrds_init(s),
      s_lds_part |-> EmptyBag, s_lds_arrived |-> 0]
<1>1. r = Starting(own)
  BY DEF SInit, SInitRecord
<1>2. /\ DOMAIN own = {"s_nets", "sf_arrived", "s_fsgn_arrived", "s_errors", "sb_arrived",
                       "sb_done", "s_bsgn_arrived", "sb_thrds_pend", "s_lds_part",
                       "s_lds_arrived"}
      /\ own.sf_arrived = NoneArrived /\ own.s_fsgn_arrived = 0
      /\ own.sb_arrived = NoneArrived /\ own.sb_done = 0
      /\ own.s_bsgn_arrived = 0 /\ own.s_lds_arrived = 0
      /\ own.sb_thrds_pend = sb_thrds_init(s)
  OBVIOUS
<1> HIDE DEF own
<1>3. DOMAIN own \cap StartFields = {}
  BY <1>2 DEF StartFields
<1>4. /\ DOMAIN r = StartFields \cup DOMAIN own /\ \A f \in DOMAIN own : r[f] = own[f]
      /\ r.phase = F /\ r.tick = INIT_TICK /\ r.evt = 0 /\ r.example_cnt = 0 /\ r.epoch = 0
      /\ r.net_stop = FALSE /\ r.net_stop_rdy = FALSE /\ r.done = FALSE
  BY <1>1, <1>3, StartingFacts
<1>5. /\ r.sf_arrived = NoneArrived /\ r.s_fsgn_arrived = 0
      /\ r.sb_arrived = NoneArrived /\ r.sb_done = 0
      /\ r.s_bsgn_arrived = 0 /\ r.s_lds_arrived = 0
      /\ r.sb_thrds_pend = sb_thrds_init(s)
  BY <1>2, <1>4
<1>6. DOMAIN NoneArrived = Unit
  BY DEF NoneArrived
<1> QED BY <1>2, <1>4, <1>5, <1>6 DEF SShape, StartShape, Place, Flow!First, F, INIT_TICK

\* an input core,
LEMMA IStarts ==
  ASSUME IInit, NEW s \in Sub, NEW r, r = ic[s]
  PROVE  /\ IShape(r) /\ Place(r) = Flow!First /\ ~r.done
         /\ r.net_stop = FALSE /\ r.net_stop_rdy = FALSE
<1> DEFINE own == [i_it_idx |-> 0]
<1>1. r = Starting(own)
  BY DEF IInit, IInitRecord
<1>2. DOMAIN own = {"i_it_idx"}
  OBVIOUS
<1> HIDE DEF own
<1>3. DOMAIN own \cap StartFields = {}
  BY <1>2 DEF StartFields
<1>4. /\ DOMAIN r = StartFields \cup DOMAIN own
      /\ r.phase = F /\ r.tick = INIT_TICK /\ r.evt = 0 /\ r.example_cnt = 0 /\ r.epoch = 0
      /\ r.net_stop = FALSE /\ r.net_stop_rdy = FALSE /\ r.done = FALSE
  BY <1>1, <1>3, StartingFacts
<1> QED BY <1>2, <1>4 DEF IShape, StartShape, Place, Flow!First, F, INIT_TICK

\* a threshold core,
LEMMA TStarts ==
  ASSUME TInit, NEW s \in Sub, NEW r, r = tc[s]
  PROVE  /\ TShape(r) /\ TClear(s, r) /\ r.phase = F /\ Place(r) = Flow!First /\ ~r.done
         /\ r.ev_tick = INIT_TICK /\ ~r.tick_stop /\ ~r.advance /\ ~r.tb_pending
         /\ r.net_stop = FALSE /\ r.net_stop_rdy = FALSE
<1> DEFINE own == [ev_tick |-> INIT_TICK, max_evt |-> 0,
      tf_arrived |-> 0, tf_crit_arrived |-> 0, tf_thrds_pend |-> tf_thrds_init(s),
      tf_met |-> [u \in Unit |-> TRUE],
      tf_crit_prev |-> TRUE, tf_stop_crit |-> IsOutput(s), tf_group_crit |-> IsOutput(s),
      tf_event_crit |-> IsOutput(s), tf_example_crit |-> IsOutput(s),
      tb_arrived |-> 0, tb_bsgn_arrived |-> 0, tb_thrds_pend |-> tb_thrds_init(s),
      tb_procs |-> 0, t_errors |-> [b \in 0 .. 1 |-> [u \in Unit |-> Zero]],
      t_outputs |-> [u \in Unit |-> Initial],
      t_output_history |-> [k \in Tick |-> [u \in Unit |-> Zero]],
      tick_stop |-> FALSE, advance |-> FALSE, tb_pending |-> FALSE]
<1>1. r = Starting(own)
  BY DEF TInit, TInitRecord
<1>2. /\ DOMAIN own = TFields \ StartFields
      /\ own.ev_tick = INIT_TICK /\ own.tf_arrived = 0 /\ own.tf_crit_arrived = 0
      /\ own.tf_thrds_pend = tf_thrds_init(s) /\ own.tb_arrived = 0
      /\ own.tb_bsgn_arrived = 0 /\ own.tb_thrds_pend = tb_thrds_init(s)
      /\ own.tb_procs = 0 /\ own.tick_stop = FALSE /\ own.advance = FALSE
      /\ own.tb_pending = FALSE
  BY DEF TFields, StartFields
<1> HIDE DEF own
<1>3. DOMAIN own \cap StartFields = {}
  BY <1>2
<1>4. /\ DOMAIN r = StartFields \cup DOMAIN own /\ \A f \in DOMAIN own : r[f] = own[f]
      /\ r.phase = F /\ r.tick = INIT_TICK /\ r.evt = 0 /\ r.example_cnt = 0 /\ r.epoch = 0
      /\ r.net_stop = FALSE /\ r.net_stop_rdy = FALSE /\ r.done = FALSE
  BY <1>1, <1>3, StartingFacts
<1>5. /\ r.ev_tick = INIT_TICK /\ r.tf_arrived = 0 /\ r.tf_crit_arrived = 0
      /\ r.tf_thrds_pend = tf_thrds_init(s) /\ r.tb_arrived = 0
      /\ r.tb_bsgn_arrived = 0 /\ r.tb_thrds_pend = tb_thrds_init(s)
      /\ r.tb_procs = 0 /\ r.tick_stop = FALSE /\ r.advance = FALSE
      /\ r.tb_pending = FALSE
  BY <1>2, <1>4 DEF TFields, StartFields
<1>6. DOMAIN r = TFields
  BY <1>2, <1>4 DEF TFields
<1>7. TShape(r)
  <2>1. StartShape(r)
    BY <1>4 DEF StartShape
  <2>2. /\ r.tb_procs \in 0 .. 1 /\ r.tick_stop \in BOOLEAN
        /\ r.advance \in BOOLEAN /\ r.tb_pending \in BOOLEAN
    <3>1. r.tb_procs \in 0 .. 1
      BY <1>5
    <3>2. r.tick_stop \in BOOLEAN /\ r.advance \in BOOLEAN /\ r.tb_pending \in BOOLEAN
      BY <1>5
    <3> QED BY <3>1, <3>2
  <2> QED BY <1>6, <2>1, <2>2 DEF TShape, TFields
<1>8. Place(r) = Flow!First /\ TClear(s, r)
  BY <1>4, <1>5 DEF Place, TClear, Flow!First, F, INIT_TICK
<1> QED BY <1>4, <1>5, <1>7, <1>8

\* any core.
LEMMA StartRecs ==
  ASSUME Init, NEW c \in Cores
  PROVE  Place(Rec(c)) = Flow!First /\ ~Rec(c).done /\ Rec(c).net_stop = FALSE /\ Rec(c).net_stop_rdy = FALSE
<1>1. CASE c \in WCores
  <2>1. Rec(c) = wc[c]
    BY <1>1, RecFacts
  <2> QED BY <1>1, <2>1, WStarts DEF Init
<1>2. ASSUME NEW s \in Sub, c = S(s) \/ c = I(s) \/ c = T(s)
      PROVE  Place(Rec(c)) = Flow!First /\ ~Rec(c).done /\ Rec(c).net_stop = FALSE /\ Rec(c).net_stop_rdy = FALSE
  <2>1. Rec(S(s)) = sc[s] /\ Rec(I(s)) = ic[s] /\ Rec(T(s)) = tc[s]
    BY RecFacts
  <2>2. CASE c = S(s)
    BY <2>1, <2>2, SStarts DEF Init
  <2>3. CASE c = I(s)
    BY <2>1, <2>3, IStarts DEF Init
  <2>4. CASE c = T(s)
    BY <2>1, <2>4, TStarts DEF Init
  <2> QED BY <1>2, <2>2, <2>3, <2>4
<1> QED BY <1>1, <1>2 DEF Cores

\* nothing is due when no core has anything
LEMMA AllFresh ==
  ASSUME \A c \in Cores : Fresh(c)
  PROVE  Sent = {}
<1>1. \A s \in Sub, u \in Unit :
        /\ ~NetWhole(s, u) /\ ~ErrorWhole(s, u) /\ ~FsgnIn(s) /\ ~SBReported(s) /\ ~LdsIn(s)
        /\ ~CritWhole(s) /\ ~Deltas(s) /\ ~TBReported(s)
        /\ \A t \in Sub : ~Products(W(s, t)) /\ ~OutputsIn(W(s, t)) /\ ~DeltasIn(W(s, t))
  BY CoreFacts DEF Fresh
<1>2. \A s \in Sub, u \in Unit :
        /\ ~NetPassed(s, u) /\ ~NetUsed(s, u) /\ ~DeltaPassed(s, u)
        /\ \A t \in Sub : ~DeltaUsed(s, t, u)
  BY <1>1 DEF NetPassed, NetUsed, DeltaPassed, DeltaUsed
<1>3. 0 \in Unit
  BY UnitFacts
<1>4. DueTable
  BY DueByLink
<1>5. ASSUME NEW l \in ForwardLinks PROVE ~Due(l)
  <2>1. ForwardKind(l)
    BY ForwardElim
  <2> QED BY <1>1, <1>2, <1>3, <1>4, <2>1 DEF ForwardKind, DueTable
<1>6. ASSUME NEW l \in BackpropLinks PROVE ~Due(l)
  <2>1. BackpropKind(l)
    BY BackpropElim
  <2> QED BY <1>1, <1>2, <1>3, <1>4, <2>1 DEF BackpropKind, DueTable
<1>7. ASSUME NEW l \in DeltaSumLinks PROVE ~Due(l)
  <2>1. DeltaSumKind(l)
    BY DeltaSumElim
  <2> QED BY <1>1, <1>2, <1>3, <1>4, <2>1 DEF DeltaSumKind, DueTable
<1> QED BY <1>5, <1>6, <1>7 DEF Sent, AllLinks

\* Nothing has been sent,
LEMMA StartFresh ==
  ASSUME Init
  PROVE  Behind = {} /\ Sent = {} /\ Got = {} /\ (\A K : Heading(K) = {}) /\ Flow!cur = Flow!First
<1>1. \A K : Heading(K) = {}
  BY DEF Init, Heading
<1>2. LastSub \in Sub /\ LastT \in Cores
  BY LastSubFacts, CoreFacts
<1>3. Behind = {}
  BY <1>1, <1>2, TStarts DEF Init, Behind
<1>4. ASSUME NEW c \in Cores
      PROVE  Fresh(c)
  <2>1. ASSUME NEW d \in WCores PROVE ~Products(d) /\ ~OutputsIn(d) /\ ~DeltasIn(d)
    <3>1. wc[d].wf_arrived = 0 /\ wc[d].wb_arrived = 0 /\ wc[d].wf_pending
      BY WStarts DEF Init
    <3> QED BY <3>1, UnitFacts DEF Products, OutputsIn, DeltasIn
  <2>2. ASSUME NEW s \in Sub
        PROVE  /\ \A u \in Unit : ~NetWhole(s, u) /\ ~ErrorWhole(s, u)
               /\ ~FsgnIn(s) /\ ~SBReported(s) /\ ~LdsIn(s)
               /\ ~CritWhole(s) /\ ~Deltas(s) /\ ~TBReported(s)
    <3>1. \A u \in Unit : NoneArrived[u] = 0
      BY DEF NoneArrived
    <3>2. /\ sc[s].sf_arrived = NoneArrived /\ sc[s].s_fsgn_arrived = 0
          /\ sc[s].sb_arrived = NoneArrived /\ sc[s].sb_done = 0
          /\ sc[s].s_bsgn_arrived = 0 /\ sc[s].s_lds_arrived = 0
      BY SStarts DEF Init
    <3>3. Rec(T(s)) = tc[s] /\ tc[s].phase = F /\ tc[s].tf_arrived = 0 /\ tc[s].tb_arrived = 0
      BY RecFacts, TStarts DEF Init, TClear
    <3>4. /\ fwd_expected # 0 /\ bkp_expected # 0 /\ fsgn_expected(s) # 0
          /\ lds_expected(s) # 0 /\ Units # 0
      BY ExpectedFacts
    <3>5. /\ \A u \in Unit : ~NetWhole(s, u) /\ ~ErrorWhole(s, u)
          /\ ~FsgnIn(s) /\ ~SBReported(s) /\ ~LdsIn(s)
      BY <3>1, <3>2, <3>4 DEF NetWhole, ErrorWhole, FsgnIn, SBReported, LdsIn
    <3>6. ~CritWhole(s) /\ ~Deltas(s) /\ ~TBReported(s)
      BY <3>3, <3>4 DEF CritWhole, Deltas, TBReported, In, F, B
    <3> QED BY <3>5, <3>6
  <2> QED BY <2>1, <2>2 DEF Fresh
<1>5. Sent = {} /\ Got = {}
  BY <1>4, AllFresh DEF Got
<1>6. Flow!cur = Flow!First
  <2>1. Place(Rec(LastT)) = Flow!First
    BY <1>2, StartRecs
  <2> QED BY <1>2, <1>3, <2>1 DEF Flow!cur
<1> QED BY <1>1, <1>3, <1>5, <1>6

\* which is how TickFlow starts,
LEMMA InitFlow == Init => Flow!Init
<1> SUFFICES ASSUME Init PROVE Flow!Init
  OBVIOUS
<1>1. LastSub \in Sub
  BY LastSubFacts
<1>2. ~tc[LastSub].tick_stop /\ ~tc[LastSub].done /\ TShape(tc[LastSub])
  BY <1>1, TStarts DEF Init
<1>3. tc[LastSub].tick_stop = FALSE /\ tc[LastSub].done = FALSE
  BY <1>2 DEF TShape, StartShape
<1>4. [c \in Cores |-> Place(Rec(c))] = [c \in Cores |-> Flow!First]
  BY StartRecs
<1>5. {c \in Cores : Rec(c).done} = {}
  BY StartRecs
<1>6. Heading({"stpn"}) = {} /\ Behind = {} /\ Sent = {} /\ Got = {}
  BY StartFresh
<1> QED BY <1>3, <1>4, <1>5, <1>6 DEF Flow!Init

\* and nothing counted.
LEMMA InitCores ==
  ASSUME Init
  PROVE  CoresOK /\ ShapeOK
<1>1. \A k, c, u : GotInto(k, c) = 0 /\ GotUnit(k, c, u) = 0
  BY StartFresh, FS_EmptySet DEF GotInto, GotUnit
<1>2. F # B
  BY DEF F, B
<1>3. ASSUME NEW c \in WCores PROVE WCoreOK(c) /\ WShape(wc[c])
  <2>1. /\ WShape(wc[c]) /\ wc[c].phase = F /\ ~wc[c].done
        /\ wc[c].wf_arrived = 0 /\ wc[c].wb_arrived = 0 /\ ~wc[c].epoch_rdy
    BY WStarts DEF Init
  <2>2. Rec(c) = wc[c] /\ Behind = {}
    BY RecFacts, StartFresh
  <2>3. In(c, F)
    BY <2>1, <2>2 DEF In
  <2> QED BY <1>1, <2>1, <2>3 DEF WCoreOK
<1>4. ASSUME NEW s \in Sub PROVE SCoreOK(s) /\ SShape(sc[s])
  <2>1. /\ SShape(sc[s]) /\ sc[s].phase = F
        /\ sc[s].sf_arrived = NoneArrived /\ sc[s].s_fsgn_arrived = 0
        /\ sc[s].sb_arrived = NoneArrived /\ sc[s].sb_done = 0
        /\ sc[s].s_bsgn_arrived = 0 /\ sc[s].s_lds_arrived = 0
        /\ sc[s].sb_thrds_pend = sb_thrds_init(s)
    BY SStarts DEF Init
  <2>2. \A u \in Unit : NoneArrived[u] = 0
    BY DEF NoneArrived
  <2>3. ~In(S(s), B)
    BY <1>2, <2>1, RecFacts DEF In
  <2> QED BY <1>1, <1>2, <2>1, <2>2, <2>3 DEF SCoreOK
<1>5. ASSUME NEW s \in Sub PROVE TCoreOK(s) /\ TShape(tc[s])
  <2>1. TShape(tc[s]) /\ TClear(s, tc[s]) /\ tc[s].phase = F /\ ~tc[s].advance /\ ~tc[s].tb_pending
    BY TStarts DEF Init
  <2>2. Behind = {} /\ Got = {}
    BY StartFresh
  <2>3. s = LastSub => ~(Into({"fsgn"}, T(s)) \subseteq Got)
    <3>1. FirstSub \in Sub /\ LastT \in FsgRoute(FirstSub) /\ LastT = T(LastSub)
      BY SubFacts, Zenon DEF FsgRoute, LastT
    <3>2. FsgnS(FirstSub, LastT) \in AllLinks
      BY <3>1, ForwardIntro, UnitFacts DEF AllLinks
    <3>3. FsgnS(FirstSub, LastT) \in Into({"fsgn"}, LastT)
      BY <3>2, LinkTable DEF Into
    <3> QED BY <2>2, <3>1, <3>3
  <2> QED BY <1>1, <1>2, <2>1, <2>2, <2>3, TClearCore DEF TClearTable
<1>6. /\ DOMAIN wc = WCores /\ DOMAIN sc = Sub /\ DOMAIN ic = Sub /\ DOMAIN tc = Sub
      /\ \A s \in Sub : IShape(ic[s])
  BY IStarts DEF Init, WInit, SInit, IInit, TInit
<1> QED BY <1>3, <1>4, <1>5, <1>6 DEF CoresOK, ShapeOK

\* So the invariant holds initially.
LEMMA InitInv == Init => FlowAndMachine
<1> SUFFICES ASSUME Init PROVE FlowAndMachine
  OBVIOUS
<1>1. Flow!FlowInv
  BY InitFlow, MachineGraph, Flow!InitInv
<1>2. NetOK /\ OnePacket
  BY DEF Init, NetOK, OnePacket
<1>3. EpochOK
  <2>1. \A c : ~Opened(c) /\ ~Told(c)
    BY StartFresh DEF Opened, Told, Flow!EpochOver, Flow!First
  <2>2. \A c \in WCores : ~wc[c].epoch_rdy
    BY WStarts DEF Init
  <2>3. ASSUME NEW c \in Cores PROVE RendezvousOK(c)
    <3>1. Rec(c).net_stop = FALSE /\ Rec(c).net_stop_rdy = FALSE
      BY StartRecs
    <3>2. c[1] = "W" => ~Rec(c).epoch_rdy
      BY <2>2, CoreKinds, RecFacts
    <3>3. ~Opened(c) /\ ~Told(c) /\ Opened(c) \in BOOLEAN /\ Told(c) \in BOOLEAN
      BY <2>1 DEF Opened, Told
    <3> QED BY <3>1, <3>2, <3>3 DEF RendezvousOK
  <2> QED BY <2>3 DEF EpochOK
<1>4. PacedOK
  <2>1. LastSub \in Sub /\ Behind = {}
    BY LastSubFacts, StartFresh
  <2> QED BY <2>1, TStarts DEF Init, PacedOK
<1> QED BY <1>1, <1>2, <1>3, <1>4, InitCores DEF FlowAndMachine, MachineInv

(***************************************************************************)
(* Nothing happens.                                                        *)
(***************************************************************************)
LEMMA StutterInv ==
  ASSUME FlowAndMachine, UNCHANGED vars
  PROVE  FlowAndMachine' /\ UNCHANGED Flow!vars
<1> DEFINE a == I(FirstSub)
<1>1. wc' = wc /\ sc' = sc /\ ic' = ic /\ tc' = tc /\ net' = net
  BY DEF vars
<1>2. FirstSub \in Sub /\ a \in Cores /\ LastT = T(LastSub) /\ LastSub \in Sub
  BY SubFacts, CoreFacts, LastSubFacts DEF LastT
<1>3. \A K : Heading(K)' = Heading(K)
  BY <1>1 DEF Heading
<1>4. Behind' = Behind
  BY <1>1, <1>3 DEF Behind
<1>5. Others(a)
  BY <1>1 DEF Others
<1>6. Quiet(a, {}, {})
  BY <1>1, <1>2, <1>4, <1>5 DEF Quiet
<1>7. a # LastT /\ a \notin WCores /\ a[1] = "I" /\ \A t \in Sub : a # S(t) /\ a # T(t)
  BY <1>2, CoresApart DEF WCores
<1>8. OwnSame(a)
  BY <1>7 DEF OwnSame
<1>9. cur' = cur /\ CurStamp' = CurStamp
  BY <1>1, <1>6, <1>7, CurKept
<1>10. Rec(a)' = Rec(a)
  BY <1>1, <1>2, RecFacts
<1>11. RendezvousOK(a)'
  <2>1. RendezvousOK(a)
    BY <1>2, <1>7 DEF FlowAndMachine, MachineInv, EpochOK
  <2>2. (Opened(a)' <=> Opened(a)) /\ (Told(a)' <=> Told(a))
    BY <1>3, <1>4, <1>9 DEF Opened, Told, cur
  <2>3. /\ Opened(a) \in BOOLEAN /\ Told(a) \in BOOLEAN
        /\ Opened(a)' \in BOOLEAN /\ Told(a)' \in BOOLEAN
    BY DEF Opened, Told
  <2> QED BY <1>1, <1>7, <1>10, <2>1, <2>2, <2>3 DEF RendezvousOK
<1>12. CoreOK(a)'
  <2>1. \A s \in Sub : IShape(ic'[s])
    BY <1>1 DEF FlowAndMachine, MachineInv, ShapeOK
  <2> QED BY <1>7, <2>1 DEF CoreOK
<1>13. a \in Behind' => Place(Rec(a)') = Place(Rec(a))
  BY <1>10
<1>14. NetOK' /\ OnePacket'
  BY <1>1, <1>6, <1>8, <1>9, <1>13, QuietNet DEF Notices
<1>15. EpochOK' /\ PacedOK'
  BY <1>1, <1>3, <1>6, <1>7, <1>11, <1>13, EpochKept, PacedKept
<1>16. CoresOK' /\ ShapeOK'
  BY <1>6, <1>8, <1>12, QuietOthers
<1>17. Sent' = Sent /\ Got' = Got
  BY <1>6, <1>8, QuietSent
<1>18. \A c \in Cores : Rec(c)' = Rec(c)
  BY <1>6, <1>10, QuietFrame
<1>19. /\ [c \in Cores |-> Place(Rec(c))]' = [c \in Cores |-> Place(Rec(c))]
       /\ {c \in Cores : Rec(c).done}' = {c \in Cores : Rec(c).done}
  BY <1>18
<1>20. UNCHANGED Flow!vars
  BY <1>1, <1>3, <1>4, <1>17, <1>19 DEF Flow!vars, Flow!packets, Flow!stage
<1>21. Flow!FlowInv'
  BY <1>20, Flow!StepInv, MachineGraph DEF FlowAndMachine
<1> QED BY <1>14, <1>15, <1>16, <1>20, <1>21 DEF FlowAndMachine, MachineInv

(***************************************************************************)
(* Every step of the machine.                                              *)
(***************************************************************************)
LEMMA StepFlow ==
  ASSUME AllTimely, LongPhases, FlowAndMachine, [Next]_vars
  PROVE  FlowAndMachine' /\ [Flow!Next]_(Flow!vars)
<1>1. CASE WNext /\ UNCHANGED <<sc, ic, tc>>
  <2>1. CASE \E c \in WCores : WProcess(c)
    BY <1>1, <2>1, WProcessInv
  <2>2. ASSUME NEW p \in net, WPacket(p)
        PROVE  FlowAndMachine' /\ [Flow!Next]_(Flow!vars)
    <3>1. CASE WLdsa(p)
      BY <1>1, <3>1, WLdsaInv
    <3>2. CASE WForward(p)
      BY <1>1, <3>2, WForwardInv
    <3>3. CASE WBackprop(p)
      BY <1>1, <3>3, WBackpropInv
    <3>4. CASE WStop(p) \/ WSync(p)
      BY <1>1, <3>4, WGoInv
    <3>5. CASE WNetStop(p)
      BY <1>1, <3>5, WNoticeInv
    <3> QED BY <2>2, <3>1, <3>2, <3>3, <3>4, <3>5 DEF WPacket
  <2> QED BY <1>1, <2>1, <2>2 DEF WNext
<1>2. CASE SNext /\ UNCHANGED <<wc, ic, tc>>
  <2>1. ASSUME NEW p \in net, SPacket(p)
        PROVE  FlowAndMachine' /\ Flow!Next
    <3>1. CASE SForward(p)
      BY <1>2, <3>1, SForwardInv
    <3>2. CASE SBackprop(p)
      BY <1>2, <3>2, SBackpropInv
    <3>3. CASE SLds(p)
      BY <1>2, <3>3, SLdsInv
    <3>4. CASE SFsgn(p)
      BY <1>2, <3>4, SFsgnInv
    <3>5. CASE SBsgn(p)
      BY <1>2, <3>5, SBsgnInv
    <3>6. CASE SStop(p) \/ SSync(p)
      BY <1>2, <3>6, SGoInv
    <3>7. CASE SNetStop(p)
      BY <1>2, <3>7, SNoticeInv
    <3> QED BY <2>1, <3>1, <3>2, <3>3, <3>4, <3>5, <3>6, <3>7 DEF SPacket
  <2> QED BY <1>2, <2>1 DEF SNext
<1>3. CASE INext /\ UNCHANGED <<wc, sc, tc>>
  <2>1. ASSUME NEW p \in net, IPacket(p)
        PROVE  FlowAndMachine' /\ Flow!Next
    <3>1. CASE IForward(p)
      BY <1>3, <3>1, IForwardInv
    <3>2. CASE IBackprop(p)
      BY <1>3, <3>2, IBackpropInv
    <3>3. CASE IStop(p) \/ ISync(p)
      BY <1>3, <3>3, IGoInv
    <3>4. CASE INetStop(p)
      BY <1>3, <3>4, INoticeInv
    <3> QED BY <2>1, <3>1, <3>2, <3>3, <3>4 DEF IPacket
  <2> QED BY <1>3, <2>1 DEF INext
<1>4. CASE TNext /\ UNCHANGED <<wc, sc, ic>>
  <2>1. CASE TAdvance
    BY <1>4, <2>1, TAdvanceInv
  <2>2. CASE \E s \in Sub : TProcess(s)
    BY <1>4, <2>2, TProcessInv
  <2>3. ASSUME NEW p \in net, TPacket(p)
        PROVE  FlowAndMachine' /\ Flow!Next
    <3>1. CASE TForward(p) \/ TCrit(p) \/ TFsgn(p) \/ TError(p) \/ TBsgn(p)
      BY <1>4, <3>1, TDataInv
    <3>2. CASE TStop(p) \/ TSync(p)
      BY <1>4, <3>2, TGoInv
    <3>3. CASE TNetStop(p)
      BY <1>4, <3>3, TNoticeInv
    <3> QED BY <2>3, <3>1, <3>2, <3>3 DEF TPacket
  <2> QED BY <1>4, <2>1, <2>2, <2>3 DEF TNext
<1>5. CASE UNCHANGED vars
  BY <1>5, StutterInv
<1> QED BY <1>1, <1>2, <1>3, <1>4, <1>5 DEF Next, Terminated

\* FlowAndMachine is an invariant of every machine: the scoreboards of a core
\* (sf_arrived, tb_arrived, ...) count the packets of the current tick that it
\* has handled, and nothing else; the packets in the fabric are those sent in
\* this tick and not yet handled; the threads that a core waits for are those
\* that have not ended; and all cores are in one tick or in the one before.
THEOREM MachineInvariant ==
  ASSUME AllTimely, LongPhases
  PROVE  Spec => []FlowAndMachine
<1>1. Init => FlowAndMachine
  BY InitInv
<1>2. FlowAndMachine /\ [Next]_vars => FlowAndMachine'
  BY StepFlow
<1> QED BY <1>1, <1>2, PTL DEF Spec

\* The machine implements TickFlow: every callback, handler and advance of a
\* core sends each packet of the tick at most once, when what it depends on has
\* been handled, and the last T ends a tick (tf_advance_tick, tb_advance_tick)
\* when it has heard from all the others.
THEOREM MachineFlow ==
  ASSUME AllTimely, LongPhases
  PROVE  Spec => FlowSpec
<1>1. Init => Flow!Init
  BY InitFlow
<1>2. FlowAndMachine /\ [Next]_vars => [Flow!Next]_(Flow!vars)
  BY StepFlow
<1>3. Spec => []FlowAndMachine
  BY MachineInvariant
<1> QED BY <1>1, <1>2, <1>3, PTL DEF Spec, FlowSpec

(***************************************************************************)
(* Lockstep.                                                               *)
(***************************************************************************)
Positions == [c \in Cores |-> Stamp(Rec(c))]
FlowPositions == [c \in Cores |-> Flow!Stamp([d \in Cores |-> Place(Rec(d))][c])]

SamePositions == Positions = FlowPositions

\* Positions in PDP2 are those in TickFlow.
LEMMA PositionsFact == SamePositions
<1>1. \A c \in Cores : Stamp(Rec(c)) = Flow!Stamp(Place(Rec(c)))
  BY DEF Stamp, Flow!Stamp, Place
<1> QED BY <1>1 DEF SamePositions, Positions, FlowPositions

\* A core that moves in the barrier of TickFlow moves in that of PDP2,
LEMMA MoveFact ==
  ASSUME NEW c \in Cores, Flow!Barrier!Move(c)
  PROVE  Barrier!Move(c)
<1>1. SamePositions /\ SamePositions'
  BY PositionsFact, PTL
<1>2. FlowPositions[c] = Positions[c]
  BY <1>1 DEF SamePositions
<1>3. PICK q \in Flow!Barrier!Succ(FlowPositions[c]) :
        /\ FlowPositions' = [FlowPositions EXCEPT ![c] = q]
        /\ \A d \in Cores : FlowPositions[d] \in {FlowPositions[c], q}
        /\ \A d \in {x \in Cores : Rec(x).done} : FlowPositions[d] # FlowPositions[c]
        /\ {x \in Cores : Rec(x).done}' \in
             {{x \in Cores : Rec(x).done},
              IF Flow!Barrier!EpochOver(q) THEN {x \in Cores : Rec(x).done} \cup {c}
                                           ELSE {x \in Cores : Rec(x).done}}
  BY DEF Flow!Barrier!Move, FlowPositions
<1>4. Flow!Barrier!EpochOver(q) <=> Barrier!EpochOver(q)
  BY DEF Flow!Barrier!EpochOver, Barrier!EpochOver
<1>5. q \in Barrier!Succ(Positions[c])
  BY <1>2, <1>3 DEF Flow!Barrier!Succ, Barrier!Succ, Flow!Barrier!NextTick, Barrier!NextTick,
       Flow!Barrier!NextExample, Barrier!NextExample, Flow!Barrier!Positions, Barrier!Positions
<1>6. Positions = FlowPositions /\ Positions' = FlowPositions'
  BY <1>1 DEF SamePositions
<1> QED BY <1>3, <1>4, <1>5, <1>6 DEF Barrier!Move, Positions

\* and so does one that finishes.
LEMMA FinishFact ==
  ASSUME NEW c \in Cores, Flow!Barrier!Finish(c)
  PROVE  Barrier!Finish(c)
<1>1. SamePositions /\ SamePositions'
  BY PositionsFact, PTL
<1>2. /\ Flow!Barrier!EpochOver(FlowPositions[c])
      /\ \A d \in Cores : \/ FlowPositions[d] = FlowPositions[c]
                          \/ FlowPositions[c] \in Flow!Barrier!Succ(FlowPositions[d])
      /\ {x \in Cores : Rec(x).done}' = {x \in Cores : Rec(x).done} \cup {c}
      /\ FlowPositions' = FlowPositions
  BY DEF Flow!Barrier!Finish, FlowPositions
<1>3. Positions = FlowPositions /\ Positions' = FlowPositions'
  BY <1>1 DEF SamePositions
<1>4. Barrier!EpochOver(Positions[c])
  BY <1>2, <1>3 DEF Flow!Barrier!EpochOver, Barrier!EpochOver
<1>5. \A p : Flow!Barrier!Succ(p) = Barrier!Succ(p)
  BY DEF Flow!Barrier!Succ, Barrier!Succ, Flow!Barrier!NextTick, Barrier!NextTick,
       Flow!Barrier!NextExample, Barrier!NextExample, Flow!Barrier!Positions, Barrier!Positions
<1>6. \A d \in Cores : Positions[d] = Positions[c] \/ Positions[c] \in Barrier!Succ(Positions[d])
  BY <1>2, <1>3, <1>5
<1> QED BY <1>2, <1>3, <1>4, <1>6 DEF Barrier!Finish, Positions

RecsDone == \A c \in Cores : Rec(c).done \in BOOLEAN

\* To be done is Boolean.
LEMMA DoneBoolean == FlowAndMachine => RecsDone
<1> SUFFICES ASSUME FlowAndMachine, NEW c \in Cores PROVE Rec(c).done \in BOOLEAN
  BY DEF RecsDone
<1>1. /\ \A d \in WCores : StartShape(wc[d])
      /\ \A s \in Sub : StartShape(sc[s]) /\ StartShape(ic[s]) /\ StartShape(tc[s])
  BY DEF FlowAndMachine, MachineInv, ShapeOK, WShape, SShape, IShape, TShape
<1>2. StartShape(Rec(c))
  BY <1>1, CoreKinds, RecFacts
<1> QED BY <1>2 DEF StartShape

\* A step of the machine that takes a core to another tick, or ends its
\* stage, is a step of the tick barrier by this core.
LEMMA StepBarrier ==
  ASSUME AllTimely, LongPhases, FlowAndMachine, [Next]_vars
  PROVE  BarrierStep
<1> SUFFICES ASSUME NEW c \in Cores, Where(c)' # Where(c)
             PROVE  Barrier!Move(c) \/ Barrier!Finish(c)
  BY DEF BarrierStep
<1>1. [Flow!Next]_(Flow!vars) /\ Flow!FlowInv
  BY StepFlow DEF FlowAndMachine
<1>2. SamePositions /\ SamePositions'
  BY PositionsFact, PTL
<1>3. \/ Flow!Stamp([d \in Cores |-> Place(Rec(d))][c])' # Flow!Stamp([d \in Cores |-> Place(Rec(d))][c])
      \/ (c \in {d \in Cores : Rec(d).done})' # (c \in {d \in Cores : Rec(d).done})
  <2>1. Positions[c] = FlowPositions[c] /\ Positions[c]' = FlowPositions[c]'
    BY <1>2 DEF SamePositions
  <2>2. (Stamp(Rec(c))' # Stamp(Rec(c))) \/ (Rec(c).done' # Rec(c).done)
    BY DEF Where
  <2>3. CASE Stamp(Rec(c))' # Stamp(Rec(c))
    BY <2>1, <2>3 DEF Positions, FlowPositions
  <2>4. CASE Rec(c).done' # Rec(c).done
    <3>1. Rec(c).done \in BOOLEAN /\ Rec(c).done' \in BOOLEAN
      <4>1. FlowAndMachine'
        BY StepFlow
      <4>2. RecsDone /\ RecsDone'
        BY <4>1, DoneBoolean, PTL
      <4> QED BY <4>2 DEF RecsDone
    <3> QED BY <2>4, <3>1
  <2> QED BY <2>2, <2>3, <2>4
<1>4. Flow!Barrier!Move(c) \/ Flow!Barrier!Finish(c)
  BY <1>1, <1>3, MachineGraph, Flow!LockstepStep
<1> QED BY <1>4, MoveFact, FinishFact

\* All the cores of a machine of any size go through the ticks of the stage in
\* lockstep, from the first tick to the end of the stage: a core goes to the
\* next tick only when all the others are in its tick or in the next one.
THEOREM MachineBarrier ==
  ASSUME AllTimely, LongPhases
  PROVE  Spec => BarrierSpec
<1>1. Init => Barrier!Init
  BY StartRecs DEF Barrier!Init, Barrier!First, Flow!First, Place, Stamp
<1>2. FlowAndMachine /\ [Next]_vars => [BarrierStep]_vars
  BY StepBarrier
<1>3. Spec => []FlowAndMachine
  BY MachineInvariant
<1> QED BY <1>1, <1>2, <1>3, PTL DEF Spec, BarrierSpec

(***************************************************************************)
(* What the invariant says of the machine.                                 *)
(***************************************************************************)
\* cores that are behind are in the same tick, and not in the current one
LEMMA BehindTick ==
  ASSUME FlowAndMachine, NEW c \in Behind
  PROVE  /\ c \in Cores /\ \A d \in Behind : Place(Rec(d)) = Place(Rec(c))
         /\ Stamp(Rec(c)) # CurStamp
<1>1. Behind \subseteq Cores
  BY FlowFacts DEF FlowAndMachine
<1>2. \A d \in Behind : Place(Rec(d)) = Place(Rec(c))
  BY <1>1 DEF FlowAndMachine, Flow!FlowInv, Flow!PlaceOK
<1>3. /\ Flow!MayLeave(Place(Rec(c)), tc[LastSub].tick_stop)
      /\ Flow!NextPlace(Place(Rec(c)), tc[LastSub].tick_stop) = cur
  BY FlowFacts DEF FlowAndMachine
<1>4. Flow!Stamp(cur) # Flow!Stamp(Place(Rec(c)))
  BY <1>3, MachineGraph, Flow!NextPlaceFacts
<1>5. CurStamp = Flow!Stamp(cur) /\ Stamp(Rec(c)) = Flow!Stamp(Place(Rec(c)))
  BY DEF CurStamp, Flow!Stamp, cur, Stamp, Place
<1> QED BY <1>1, <1>2, <1>4, <1>5

\* Types.
LEMMA InvTypeOK == FlowAndMachine => TypeOK
<1> SUFFICES ASSUME FlowAndMachine PROVE TypeOK
  OBVIOUS
<1>1. ASSUME NEW c \in Cores PROVE CommonOK(Rec(c))
  <2>1. Place(Rec(c)) \in FlowPlaces
    <3>1. [d \in Cores |-> Place(Rec(d))] \in [Cores -> Flow!Places]
      BY DEF FlowAndMachine, Flow!FlowInv, Flow!TypeOK
    <3> QED BY <3>1, FlowPlacesFact
  <2>2. /\ Rec(c).epoch \in 0 .. NumEpochs /\ Rec(c).example_cnt \in 0 .. NumExamples - 1
        /\ Rec(c).phase \in {F, B} /\ Rec(c).tick \in Tick /\ Rec(c).evt \in 0 .. NumEvents
    BY <2>1 DEF FlowPlaces, Place
  <2>3. StartShape(Rec(c))
    <3>1. /\ \A d \in WCores : StartShape(wc[d])
          /\ \A s \in Sub : StartShape(sc[s]) /\ StartShape(ic[s]) /\ StartShape(tc[s])
      BY DEF FlowAndMachine, MachineInv, ShapeOK, WShape, SShape, IShape, TShape
    <3> QED BY <3>1, CoreKinds, RecFacts
  <2> QED BY <2>2, <2>3 DEF CommonOK, StartShape
<1>2. \A c \in WCores : wc[c].wf_procs \in 0 .. 1 /\ wc[c].epoch_rdy \in BOOLEAN
  BY DEF FlowAndMachine, MachineInv, ShapeOK, WShape
<1>3. \A s \in Sub : /\ sc[s].sb_thrds_pend \subseteq sb_thrds_init(s) \cup {"LDSA"}
                     /\ tc[s].tf_thrds_pend \subseteq tf_thrds_init(s)
                     /\ tc[s].tb_thrds_pend \subseteq tb_thrds_init(s)
                     /\ tc[s].tb_procs \in 0 .. 1
  BY DEF FlowAndMachine, MachineInv, CoresOK, SCoreOK, TCoreOK, ShapeOK, TShape
<1>4. \A p \in net : /\ p.kind \in DataKinds \cup ControlKinds
                     /\ p.src \in Cores /\ p.dst \in Cores
                     /\ p.u \in Unit /\ p.b \in BOOLEAN
  BY DEF FlowAndMachine, MachineInv, NetOK, PacketOK
<1> QED BY <1>1, <1>2, <1>3, <1>4 DEF TypeOK

\* the stamp of a packet that a core waits for, or is sent to a core that is
\* behind
LEMMA PacketStamps ==
  ASSUME FlowAndMachine, NEW p \in net
  PROVE  /\ PacketOK(p)
         /\ Awaits(p) \/ p.kind = "stpn" => p.st = CurStamp
         /\ p.kind \in {"stop", "sync"} =>
              p.dst \in Behind /\ p.st = Stamp(Rec(p.dst)) /\ p.st # CurStamp /\ p.src = LastT
         /\ ~Awaits(p) => p.kind \in {"stop", "sync", "stpn"} \/ (p.kind = "lds" /\ p.dst[1] = "W")
<1>1. PacketOK(p)
  BY DEF FlowAndMachine, MachineInv, NetOK
<1>2. Awaits(p) \/ p.kind = "stpn" => p.st = CurStamp
  BY <1>1 DEF PacketOK
<1>3. p.kind \in {"stop", "sync"} =>
        p.dst \in Behind /\ p.st = Stamp(Rec(p.dst)) /\ p.st # CurStamp /\ p.src = LastT
  BY <1>1, BehindTick DEF PacketOK, Behind, Heading
<1>4. ~Awaits(p) => p.kind \in {"stop", "sync", "stpn"} \/ (p.kind = "lds" /\ p.dst[1] = "W")
  BY <1>1 DEF PacketOK, Awaits, DataKinds, ControlKinds
<1> QED BY <1>1, <1>2, <1>3, <1>4

\* Stop and sync packets are sent when all other packets have been handled.
LEMMA InvTickQuiet == FlowAndMachine => TickQuiet
<1> SUFFICES ASSUME FlowAndMachine, NEW p \in net, p.kind \in {"stop", "sync"}, NEW q \in net,
                    q.st = p.st
             PROVE  q.kind = p.kind \/ (q.kind = "lds" /\ q.dst[1] = "W")
  BY DEF TickQuiet
<1>1. p.dst \in Behind /\ p.st = Stamp(Rec(p.dst)) /\ p.st # CurStamp
  BY PacketStamps
<1>2. q.kind \in {"stop", "sync"} \/ (q.kind = "lds" /\ q.dst[1] = "W")
  BY <1>1, PacketStamps
<1>3. CASE q.kind \in {"stop", "sync"}
  <2>1. q.dst \in Behind
    BY <1>3, PacketStamps
  <2>2. Place(Rec(q.dst)) = Place(Rec(p.dst))
    BY <1>1, <2>1, BehindTick
  <2>3. Rec(q.dst).phase = Rec(p.dst).phase
    BY <2>2 DEF Place
  <2>4. PacketOK(p) /\ PacketOK(q)
    BY PacketStamps
  <2> QED BY <1>3, <2>3, <2>4 DEF PacketOK
<1> QED BY <1>2, <1>3

\* A core is done only when the epoch is over, and all are when no packet is
\* left.
LEMMA InvStageEnds == FlowAndMachine => StageEndsClean
<1> SUFFICES ASSUME FlowAndMachine, AllDone
             PROVE  /\ \A p \in net : p.kind = "lds" /\ p.dst[1] = "W"
                    /\ \A c \in WCores : ~wc[c].wf_pending
                    /\ \A s \in Sub : ~tc[s].tb_pending /\ ~tc[s].advance
  BY DEF StageEndsClean
<1>1. \A c \in Cores : Rec(c).done
  BY CoreKinds, RecFacts DEF AllDone
<1>2. LastT \in Cores
  BY CoreFacts, LastSubFacts
<1>3. {c \in Cores : Rec(c).done} =
        IF tc[LastSub].done
          THEN {c \in Cores : c \notin Behind /\ c \notin Heading({"stpn"})} ELSE {}
  BY DEF FlowAndMachine, Flow!FlowInv, Flow!StageOK
<1>4. tc[LastSub].done /\ \A c \in Cores : c \notin Behind /\ c \notin Heading({"stpn"})
  BY <1>1, <1>2, <1>3
<1>5. Behind = {}
  <2>1. Behind \subseteq Cores
    BY FlowFacts DEF FlowAndMachine
  <2> QED BY <1>4, <2>1
<1>6. Sent = {} /\ Flow!EpochOver(cur)
  BY <1>4 DEF FlowAndMachine, Flow!FlowInv, Flow!StageOK, cur
<1>7. \A p \in net : p.kind = "lds" /\ p.dst[1] = "W"
  <2> SUFFICES ASSUME NEW p \in net PROVE p.kind = "lds" /\ p.dst[1] = "W"
    OBVIOUS
  <2>1. ~Awaits(p)
    BY <1>6, PacketStamps DEF PacketOK
  <2>2. p.kind \notin {"stop", "sync"}
    BY <1>5, PacketStamps
  <2>3. p.kind # "stpn"
    BY <1>4, PacketStamps DEF PacketOK, Heading
  <2> QED BY <2>1, <2>2, <2>3, PacketStamps
<1>8. \A c \in WCores : ~wc[c].wf_pending
  BY DEF AllDone, FlowAndMachine, MachineInv, CoresOK, WCoreOK
<1>9. ASSUME NEW s \in Sub PROVE ~tc[s].tb_pending /\ ~tc[s].advance
  <2>1. TCoreOK(s)
    BY DEF FlowAndMachine, MachineInv, CoresOK
  <2>2. T(s) \in Cores /\ Rec(T(s)) = tc[s]
    BY CoreFacts, RecFacts
  <2>3. Place(tc[s]) = cur
    BY <1>5, <2>2, FlowFacts DEF FlowAndMachine
  <2>4. tc[s].phase # B
    BY <1>6, <2>3 DEF Place, Flow!EpochOver, B
  <2>5. ~tc[s].advance
    BY <1>5, <2>1 DEF TCoreOK, Behind
  <2> QED BY <2>1, <2>2, <2>4, <2>5 DEF TCoreOK, In
<1> QED BY <1>7, <1>8, <1>9

\* control packets of a tick, by the core they come from
LEMMA ControlLinks ==
  ASSUME NEW l \in AllLinks, l[1] \in {"fsgn", "bsgn", "crit"}
  PROVE  /\ l[2] # LastT \/ l[1] = "fsgn"
         /\ l[1] = "fsgn" => l[2][1] \in {"W", "S"}
         /\ l[1] = "crit" => l[2][1] = "T"
         /\ l \in ForwardLinks => l[1] \in {"fsgn", "crit"}
         /\ l \notin ForwardLinks => l[1] = "bsgn"
<1>1. LastT = T(LastSub)
  BY DEF LastT
<1>2. CASE l \in ForwardLinks
  <2>1. ForwardKind(l)
    BY <1>2, ForwardElim
  <2> QED BY <1>1, <1>2, <2>1, LinkTable, CoresApart, LinkClass DEF ForwardKind
<1>3. CASE l \in BackpropLinks /\ l \notin ForwardLinks
  <2>1. BackpropKind(l)
    BY <1>3, BackpropElim
  <2>2. l[1] = "bsgn"
    BY <1>3, LinkClass
  <2> QED BY <1>1, <1>3, <2>1, <2>2, LinkTable, CoresApart DEF BackpropKind
<1>4. CASE l \in DeltaSumLinks
  BY <1>4, LinkClass
<1> QED BY <1>2, <1>3, <1>4 DEF AllLinks

\* A core has one kind of control packet under way, of the current tick.
LEMMA InvUserEvent == FlowAndMachine => UserEventFree
<1> SUFFICES ASSUME FlowAndMachine, NEW p \in net, NEW q \in net, p.src = q.src,
                    p.kind \in ControlKinds \ {"stpn"}, q.kind \in ControlKinds \ {"stpn"}
             PROVE  p.kind = q.kind /\ p.st = q.st
  BY DEF UserEventFree
<1>1. ASSUME NEW x \in net, x.kind \in {"fsgn", "bsgn", "crit"}
      PROVE  /\ LinkOf(x) \in LinksOf(cur) /\ x.st = CurStamp
             /\ x.src # LastT \/ x.kind = "fsgn"
             /\ x.kind = "fsgn" => x.src[1] \in {"W", "S"}
             /\ x.kind = "crit" => x.src[1] = "T"
             /\ cur[3] = F => x.kind \in {"fsgn", "crit"}
             /\ cur[3] # F => x.kind = "bsgn"
  <2>1. PacketOK(x) /\ Awaits(x)
    BY <1>1, PacketStamps DEF Awaits
  <2>2. LinkOf(x) \in LinksOf(cur) /\ x.st = CurStamp
    BY <2>1, FlowFacts DEF PacketOK, FlowAndMachine
  <2>3. LinkOf(x)[1] = x.kind /\ LinkOf(x)[2] = x.src
    BY LinkApart DEF LinkOf
  <2>4. LinksOf(cur) \subseteq AllLinks
    BY DEF LinksOf, AllLinks
  <2>5. /\ cur[3] = F => LinkOf(x) \in ForwardLinks
        /\ cur[3] # F => LinkOf(x) \notin ForwardLinks
    BY <2>2, LinkClass DEF LinksOf
  <2> QED BY <1>1, <2>2, <2>3, <2>4, <2>5, ControlLinks
<1>2. p.kind \in {"fsgn", "bsgn", "crit", "stop", "sync"} /\ q.kind \in {"fsgn", "bsgn", "crit", "stop", "sync"}
  BY DEF ControlKinds
<1>3. LastT[1] = "T"
  BY CoresApart DEF LastT
<1>4. CASE p.kind \in {"fsgn", "bsgn", "crit"} /\ q.kind \in {"fsgn", "bsgn", "crit"}
  BY <1>1, <1>4
<1>5. ASSUME NEW x \in net, x.kind \in {"stop", "sync"}
      PROVE  PacketOK(x) /\ x.dst \in Behind /\ x.st = Stamp(Rec(x.dst)) /\ x.src = LastT
  BY <1>5, PacketStamps
<1>6. CASE p.kind \in {"stop", "sync"} /\ q.kind \in {"stop", "sync"}
  <2>1. Place(Rec(p.dst)) = Place(Rec(q.dst))
    BY <1>5, <1>6, BehindTick
  <2>2. Stamp(Rec(p.dst)) = Stamp(Rec(q.dst)) /\ Rec(p.dst).phase = Rec(q.dst).phase
    BY <2>1 DEF Place, Stamp
  <2> QED BY <1>5, <1>6, <2>2 DEF PacketOK
<1>7. ASSUME NEW x \in net, x.kind \in {"stop", "sync"}, NEW y \in net, y.kind \in {"fsgn", "bsgn", "crit"}
      PROVE  x.src # y.src
  BY <1>1, <1>3, <1>5, <1>7
<1> QED BY <1>2, <1>4, <1>6, <1>7

\* A core that is not behind is in the current tick, the others are in the one
\* before.
LEMMA InvCounted == FlowAndMachine => CountedTogether
<1> SUFFICES ASSUME FlowAndMachine PROVE CountedTogether
  OBVIOUS
<1> DEFINE places == {Stamp(Rec(c)) : c \in Counted}
<1>1. LastT \in Counted /\ Counted \subseteq Cores
  BY LastSubFacts DEF Counted, LastT, Cores
<1>2. ASSUME NEW c \in Cores, c \notin Behind PROVE Stamp(Rec(c)) = CurStamp
  <2>1. Place(Rec(c)) = cur
    BY <1>2, FlowFacts DEF FlowAndMachine
  <2> QED BY <2>1 DEF Place, Stamp, CurStamp, cur
<1>3. ASSUME NEW c \in Behind PROVE CurStamp \in Barrier!Succ(Stamp(Rec(c)))
  <2>1. /\ Flow!MayLeave(Place(Rec(c)), tc[LastSub].tick_stop)
        /\ Flow!NextPlace(Place(Rec(c)), tc[LastSub].tick_stop) = cur
    BY FlowFacts DEF FlowAndMachine
  <2>2. Flow!Stamp(cur) \in Flow!Barrier!Succ(Flow!Stamp(Place(Rec(c))))
    BY <2>1, MachineGraph, Flow!NextStamp
  <2>3. CurStamp = Flow!Stamp(cur) /\ Stamp(Rec(c)) = Flow!Stamp(Place(Rec(c)))
    BY DEF CurStamp, Flow!Stamp, cur, Stamp, Place
  <2>4. \A p : Flow!Barrier!Succ(p) = Barrier!Succ(p)
    BY DEF Flow!Barrier!Succ, Barrier!Succ, Flow!Barrier!NextTick, Barrier!NextTick,
         Flow!Barrier!NextExample, Barrier!NextExample, Flow!Barrier!Positions, Barrier!Positions
  <2> QED BY <2>2, <2>3, <2>4
<1>4. ASSUME NEW c \in Behind, NEW d \in Behind PROVE Stamp(Rec(c)) = Stamp(Rec(d))
  <2>1. Place(Rec(c)) = Place(Rec(d))
    BY BehindTick
  <2> QED BY <2>1 DEF Place, Stamp
<1>5. \E p \in places, q \in places : places = {p, q} /\ (q = p \/ q \in Barrier!Succ(p))
  <2>1. CASE \A c \in Counted : c \notin Behind
    <3>1. places = {CurStamp}
      BY <1>1, <1>2, <2>1
    <3> QED BY <3>1
  <2>2. ASSUME NEW b \in Counted, b \in Behind
        PROVE  \E p \in places, q \in places : places = {p, q} /\ (q = p \/ q \in Barrier!Succ(p))
    <3>1. \A c \in Counted : Stamp(Rec(c)) \in {Stamp(Rec(b)), CurStamp}
      BY <1>1, <1>2, <1>4, <2>2
    <3>2. CASE \A c \in Counted : c \in Behind
      <4>1. places = {Stamp(Rec(b))}
        BY <1>4, <2>2, <3>2
      <4> QED BY <4>1
    <3>3. ASSUME NEW c \in Counted, c \notin Behind
          PROVE  places = {Stamp(Rec(b)), CurStamp}
      <4>1. Stamp(Rec(c)) = CurStamp
        BY <1>1, <1>2, <3>3
      <4> QED BY <2>2, <3>1, <4>1
    <3> QED BY <1>3, <2>2, <3>2, <3>3
  <2> QED BY <2>1, <2>2
<1>6. ASSUME NEW c \in Counted, Rec(c).done, NEW p \in places
      PROVE  p = Stamp(Rec(c)) \/ Stamp(Rec(c)) \in Barrier!Succ(p)
  <2>1. c \in Cores /\ c \notin Behind
    BY <1>1, <1>6 DEF FlowAndMachine, Flow!FlowInv, Flow!StageOK
  <2>2. Stamp(Rec(c)) = CurStamp
    BY <1>2, <2>1
  <2>3. PICK d \in Counted : p = Stamp(Rec(d))
    OBVIOUS
  <2> QED BY <1>1, <1>2, <1>3, <2>2, <2>3
<1> QED BY <1>5, <1>6 DEF CountedTogether

(***************************************************************************)
(* The invariants that the runs check.                                     *)
(***************************************************************************)
\* Every core of a machine of any size is always in a position of the stage,
\* what it is waiting for is something it waits for in this tick, and every
\* packet is addressed to a core of the network.
THEOREM TypeCorrect ==
  ASSUME AllTimely, LongPhases
  PROVE  Spec => []TypeOK
BY MachineInvariant, InvTypeOK, PTL

\* When the last T sends the stop or sync packets of a tick, no core has a
\* packet of the tick still to account for (tf_advance_tick, tb_advance_tick
\* and the scoreboards of all the cores).
THEOREM TickEndsQuiet ==
  ASSUME AllTimely, LongPhases
  PROVE  Spec => []TickQuiet
BY MachineInvariant, InvTickQuiet, PTL

\* When the last core has ended the stage (stage_done), no packet is left that
\* the next stage could take for one of its own, and no callback is pending.
THEOREM StageLeavesNothing ==
  ASSUME AllTimely, LongPhases
  PROVE  Spec => []StageEndsClean
BY MachineInvariant, InvStageEnds, PTL

\* A core never has two different control packets under way, so no handler
\* waits for the user event (the loops around spin1_trigger_user_event).
THEOREM UserEventNeverWaits ==
  ASSUME AllTimely, LongPhases
  PROVE  Spec => []UserEventFree
BY MachineInvariant, InvUserEvent, PTL

\* The weight and threshold cores are all in one tick or in two successive
\* ones, and none ends the stage while another has more than a tick to go.
THEOREM CountedLockstep ==
  ASSUME AllTimely, LongPhases
  PROVE  Spec => []CountedTogether
BY MachineInvariant, InvCounted, PTL

(***************************************************************************)
(* What a core has handled in the tick it is in.                           *)
(***************************************************************************)
LEMMA HandledFacts ==
  ASSUME FlowAndMachine, NEW c \in Cores
  PROVE  /\ \A l \in Flow!Handled(c) : l \in AllLinks /\ l[3] = c
         /\ c \notin Behind => Flow!Handled(c) = {l \in Got : l[3] = c}
         /\ c \in Behind => Flow!Handled(c) = {l \in LinksOf(Place(Rec(c))) : l[3] = c}
<1> DEFINE P == [d \in Cores |-> Place(Rec(d))]
<1>1. P[c] \in FlowPlaces /\ P[c] = Place(Rec(c))
  <2>1. P \in [Cores -> FlowPlaces]
    BY FlowPlacesFact DEF FlowAndMachine, Flow!FlowInv, Flow!TypeOK
  <2> QED BY <2>1
<1>2. TickLinks[P[c]] = LinksOf(Place(Rec(c))) /\ LinksOf(Place(Rec(c))) \subseteq AllLinks
  BY <1>1, LinksOfFacts
<1>3. Flow!Handled(c) = {l \in LinksOf(Place(Rec(c))) : l[3] = c /\ (c \in Behind \/ l \in Got)}
  BY <1>1, <1>2 DEF Flow!Handled
<1>4. c \notin Behind => Got \subseteq LinksOf(Place(Rec(c)))
  BY FlowFacts DEF FlowAndMachine
<1> QED BY <1>2, <1>3, <1>4

\* of one kind, for one unit
LEMMA HandledKinds ==
  ASSUME FlowAndMachine, NEW c \in Cores, NEW k
  PROVE  /\ HandledKind(k, c) \subseteq Into({k}, c)
         /\ \A u : HandledUnit(k, c, u) \subseteq IntoUnit(k, c, u)
         /\ c \notin Behind => /\ HandledKind(k, c) = Into({k}, c) \cap Got
                               /\ \A u : HandledUnit(k, c, u) = IntoUnit(k, c, u) \cap Got
<1>1. Got \subseteq AllLinks
  BY DEF Got, Sent
<1> QED BY <1>1, HandledFacts DEF HandledKind, HandledUnit, Into, IntoUnit

\* a core handles the packets of its phase
LEMMA HandledPhase ==
  ASSUME FlowAndMachine, NEW c \in Cores
  PROVE  /\ Rec(c).phase \in {F, B} /\ F # B
         /\ Rec(c).phase = B => \A u : HandledUnit("fwd", c, u) = {}
         /\ Rec(c).phase = F => /\ \A u : HandledUnit("bkp", c, u) = {}
                                /\ HandledKind("lds", c) = {}
<1>1. Place(Rec(c)) \in FlowPlaces
  <2> DEFINE P == [d \in Cores |-> Place(Rec(d))]
  <2>1. P \in [Cores -> FlowPlaces]
    BY FlowPlacesFact DEF FlowAndMachine, Flow!FlowInv, Flow!TypeOK
  <2>2. P[c] = Place(Rec(c))
    OBVIOUS
  <2> HIDE DEF P
  <2> QED BY <2>1, <2>2
<1>2. Rec(c).phase \in {F, B} /\ Place(Rec(c))[3] = Rec(c).phase /\ F # B
  <2>1. Place(Rec(c))[3] = Rec(c).phase
    BY DEF Place
  <2>2. Place(Rec(c))[3] \in {F, B}
    BY <1>1 DEF FlowPlaces
  <2> QED BY <2>1, <2>2 DEF F, B
<1>3. /\ Rec(c).phase = F => LinksOf(Place(Rec(c))) = ForwardLinks
      /\ Rec(c).phase = B => LinksOf(Place(Rec(c))) \subseteq BackpropLinks \cup DeltaSumLinks
  BY <1>2 DEF LinksOf
<1>4. Flow!Handled(c) \subseteq LinksOf(Place(Rec(c)))
  <2>1. c \notin Behind => Got \subseteq LinksOf(Place(Rec(c)))
    BY FlowFacts DEF FlowAndMachine
  <2> QED BY <2>1, HandledFacts
<1>5. /\ Rec(c).phase = F => \A l \in Flow!Handled(c) : l[1] \in {"fwd", "fsgn", "crit"}
      /\ Rec(c).phase = B => \A l \in Flow!Handled(c) : l[1] \in {"bkp", "bsgn", "lds"}
  BY <1>3, <1>4, LinkClass
<1> QED BY <1>2, <1>5 DEF HandledUnit, HandledKind

\* The scoreboards of a sum core count what it has handled.
SBoardsCount(s) ==
  S(s) \notin Behind =>
    /\ \A u \in Unit :
         /\ sc[s].sf_arrived[u] = Cardinality(HandledUnit("fwd", S(s), u))
         /\ sc[s].sb_arrived[u] = Cardinality(HandledUnit("bkp", S(s), u))
         /\ sc[s].sf_arrived[u] \in Nat /\ sc[s].sb_arrived[u] \in Nat
    /\ sc[s].s_lds_arrived = Cardinality(HandledKind("lds", S(s)))
    /\ sc[s].s_lds_arrived \in Nat

BoardsCount == FlowAndMachine => \A s \in Sub : SBoardsCount(s)

\* They do, in every phase.
LEMMA BoardsCountFact == BoardsCount
<1> SUFFICES ASSUME FlowAndMachine, NEW s \in Sub, S(s) \notin Behind
             PROVE  SBoardsCount(s)
  BY DEF BoardsCount, SBoardsCount
<1> DEFINE a == S(s)
           r == sc[s]
<1>1. a \in Cores /\ Rec(a) = r /\ SCoreOK(s)
  BY CoreFacts, RecFacts DEF FlowAndMachine, MachineInv, CoresOK
<1>2. (In(a, F) <=> r.phase = F) /\ (In(a, B) <=> r.phase = B)
  BY <1>1 DEF In
<1>3. /\ r.phase \in {F, B} /\ F # B
      /\ r.phase = B => \A u : HandledUnit("fwd", a, u) = {}
      /\ r.phase = F => /\ \A u : HandledUnit("bkp", a, u) = {}
                        /\ HandledKind("lds", a) = {}
  BY <1>1, HandledPhase
<1>4. /\ HandledKind("lds", a) = Into({"lds"}, a) \cap Got
      /\ \A u : HandledUnit("fwd", a, u) = IntoUnit("fwd", a, u) \cap Got
      /\ \A u : HandledUnit("bkp", a, u) = IntoUnit("bkp", a, u) \cap Got
  BY <1>1, HandledKinds
<1>5. Cardinality({}) = 0
  BY FS_EmptySet
<1>6. \A u \in Unit : NoneArrived[u] = 0
  BY DEF NoneArrived
<1>7. /\ \A u \in Unit : Cardinality(IntoUnit("fwd", a, u) \cap Got) \in Nat
      /\ \A u \in Unit : Cardinality(IntoUnit("bkp", a, u) \cap Got) \in Nat
      /\ Cardinality(Into({"lds"}, a) \cap Got) \in Nat
  BY CountsS, CountNat
<1> HIDE DEF r, a
<1>8. \A u \in Unit : r.sf_arrived[u] = Cardinality(HandledUnit("fwd", a, u))
  <2>1. CASE r.phase = F
    BY <1>1, <1>2, <1>4, <2>1 DEF SCoreOK, GotUnit, r, a
  <2>2. CASE r.phase = B
    BY <1>1, <1>3, <1>5, <1>6, <2>2 DEF SCoreOK, r
  <2> QED BY <1>3, <2>1, <2>2
<1>9. \A u \in Unit : r.sb_arrived[u] = Cardinality(HandledUnit("bkp", a, u))
  <2>1. CASE r.phase = B
    BY <1>1, <1>2, <1>4, <2>1 DEF SCoreOK, GotUnit, r, a
  <2>2. CASE r.phase = F
    BY <1>1, <1>3, <1>5, <1>6, <2>2 DEF SCoreOK, r
  <2> QED BY <1>3, <2>1, <2>2
<1>10. r.s_lds_arrived = Cardinality(HandledKind("lds", a))
  <2>1. CASE r.phase = B
    BY <1>1, <1>2, <1>4, <2>1 DEF SCoreOK, GotInto, r, a
  <2>2. CASE r.phase = F
    BY <1>1, <1>3, <1>5, <2>2 DEF SCoreOK, r
  <2> QED BY <1>3, <2>1, <2>2
<1> QED BY <1>4, <1>7, <1>8, <1>9, <1>10 DEF SBoardsCount, r, a

(***************************************************************************)
(* A step of the machine, for a core: p is what is taken from net.         *)
(***************************************************************************)
CoreStays(c) ==
  Place(Rec(c))' = Place(Rec(c)) /\ Flow!Handled(c)' = Flow!Handled(c)

CoreHandles(c, l) ==
  /\ Place(Rec(c))' = Place(Rec(c)) /\ c \notin Behind
  /\ l \in AllLinks /\ l[3] = c /\ l \notin Flow!Handled(c)
  /\ Flow!Handled(c)' = Flow!Handled(c) \cup {l}

\* A step leaves what a core has handled as it is, adds one link to it, or takes
\* the core to another tick,
LEMMA CoreSteps ==
  ASSUME FlowAndMachine, [Flow!Next]_(Flow!vars), NEW c \in Cores
  PROVE  \/ CoreStays(c)
         \/ \E l \in Sent \ Got : CoreHandles(c, l) /\ l \notin Sent' \ Got'
         \/ /\ c \in Behind /\ Flow!Handled(c)' = {}
            /\ Stamp(Rec(c)') # Stamp(Rec(c))
<1> DEFINE P == [d \in Cores |-> Place(Rec(d))]
<1>1. P[c] = Place(Rec(c)) /\ P'[c] = Place(Rec(c))'
  OBVIOUS
<1>2. Flow!Same(c) \/ Flow!Handles(c) \/ Flow!Enters(c)
  BY MachineGraph, Flow!HandledStep DEF FlowAndMachine
<1>3. ASSUME Flow!Same(c)
      PROVE  CoreStays(c)
  BY <1>1, <1>3 DEF Flow!Same, CoreStays
<1>4. ASSUME Flow!Handles(c)
      PROVE  \E l \in Sent \ Got : CoreHandles(c, l) /\ l \notin Sent' \ Got'
  <2>1. Sent \subseteq AllLinks
    BY DEF Sent
  <2>2. /\ P'[c] = P[c] /\ c \notin Behind
        /\ \E l \in Sent \ Got : /\ l[3] = c /\ l \notin Flow!Handled(c)
                                 /\ Flow!Handled(c)' = Flow!Handled(c) \cup {l}
                                 /\ l \notin Sent' \ Got'
    BY <1>4 DEF Flow!Handles
  <2> QED BY <1>1, <2>1, <2>2 DEF CoreHandles
<1>5. ASSUME Flow!Enters(c)
      PROVE  c \in Behind /\ Flow!Handled(c)' = {} /\ Stamp(Rec(c)') # Stamp(Rec(c))
  <2>1. /\ c \in Behind /\ Flow!Handled(c)' = {}
        /\ Flow!Stamp(P'[c]) # Flow!Stamp(P[c])
    BY <1>5 DEF Flow!Enters
  <2>2. \A r : Flow!Stamp(Place(r)) = Stamp(r)
    BY DEF Flow!Stamp, Stamp, Place
  <2>3. Flow!Stamp(Place(Rec(c)')) = Stamp(Rec(c)') /\ Flow!Stamp(Place(Rec(c))) = Stamp(Rec(c))
    BY <2>2
  <2> QED BY <1>1, <2>1, <2>3
<1> QED BY <1>2, <1>3, <1>4, <1>5

\* (the link delta sums of a tick end at the sum cores)
LEMMA LdsLinks == \A l \in AllLinks : l[1] = "lds" => l[3][1] = "S"
<1> SUFFICES ASSUME NEW l \in AllLinks, l[1] = "lds"
             PROVE  l[3][1] = "S"
  OBVIOUS
<1>1. DeltaSumKind(l)
  BY DeltaSumElim, LinkClass DEF AllLinks
<1>2. CASE \E to \in Sub, from \in Sub, u \in Unit : l = LdsW(to, from, u)
  BY <1>2, LinkTable, CoresApart
<1>3. CASE \E s \in Sub \ {FirstSub}, d \in Cores : l = LdsS(s, d) /\ d \in FsgRoute(s)
  <2>1. PICK s \in Sub \ {FirstSub}, d \in Cores : l = LdsS(s, d) /\ d \in FsgRoute(s)
    BY <1>3
  <2>2. d = S(RootOf(s))
    BY <2>1, FsgRouteFacts
  <2> QED BY <2>1, <2>2, LinkTable, CoresApart
<1> QED BY <1>1, <1>2, <1>3 DEF DeltaSumKind

\* and a step that takes nothing but p from net adds no link but that of p.
LEMMA CoreBy ==
  ASSUME FlowAndMachine, FlowAndMachine', [Flow!Next]_(Flow!vars), NEW c \in Cores, NEW p,
         \A q \in net : q.dst = c => q = p \/ q \in net',
         Stamp(Rec(c)') = Stamp(Rec(c))
  PROVE  CoreStays(c) \/ (p \in net \ net' /\ p.dst = c /\ CoreHandles(c, LinkOf(p)))
<1>1. CoreStays(c) \/ \E l \in Sent \ Got : CoreHandles(c, l) /\ l \notin Sent' \ Got'
  BY CoreSteps
<1>2. ASSUME NEW l \in Sent \ Got, CoreHandles(c, l), l \notin Sent' \ Got'
      PROVE  p \in net \ net' /\ p.dst = c /\ CoreHandles(c, LinkOf(p))
  <2>1. PICK q \in net : LinkOf(q) = l
    BY DEF Got, OnLink
  <2>2. l[3] = c /\ l \in AllLinks
    BY <1>2 DEF CoreHandles
  <2>3. q.dst = c /\ q.kind = l[1]
    BY <2>1, <2>2, LinkApart DEF LinkOf
  <2>4. ASSUME q \in net'
        PROVE  FALSE
    <3>1. Awaits(q)
      <4>1. l[1] \in {"fwd", "fsgn", "crit", "bkp", "bsgn", "lds"}
        BY <2>2, LinkClass DEF AllLinks
      <4>2. l[1] = "lds" => c[1] = "S"
        BY <2>2, LdsLinks
      <4> QED BY <2>3, <4>1, <4>2 DEF Awaits
    <3>2. PacketOK(q)'
      BY <2>4 DEF FlowAndMachine, MachineInv, NetOK
    <3>3. l \in Sent'
      BY <2>1, <3>1, <3>2 DEF PacketOK
    <3>4. OnLink(l)'
      BY <2>1, <2>4 DEF OnLink
    <3> QED BY <1>2, <3>3, <3>4 DEF Got
  <2> QED BY <1>2, <2>1, <2>3, <2>4
<1> QED BY <1>1, <1>2

\* for a sum core
NewlyHandled(s, l) ==
  /\ Place(sc'[s]) = Place(sc[s]) /\ S(s) \notin Behind
  /\ l \in AllLinks /\ l[3] = S(s) /\ l \notin Flow!Handled(S(s))
  /\ Flow!Handled(S(s))' = Flow!Handled(S(s)) \cup {l}

HandledSame(s) ==
  Place(sc'[s]) = Place(sc[s]) /\ Flow!Handled(S(s))' = Flow!Handled(S(s))

\* the same, on its own record
LEMMA HandledSteps ==
  ASSUME FlowAndMachine, [Flow!Next]_(Flow!vars), NEW s \in Sub
  PROVE  \/ HandledSame(s)
         \/ \E l \in Sent \ Got : NewlyHandled(s, l) /\ l \notin Sent' \ Got'
         \/ /\ S(s) \in Behind /\ Flow!Handled(S(s))' = {}
            /\ Stamp(sc'[s]) # Stamp(sc[s])
<1>1. S(s) \in Cores /\ Rec(S(s)) = sc[s] /\ Rec(S(s))' = sc'[s]
  BY CoreFacts, RecFacts
<1>2. Place(Rec(S(s)))' = Place(sc'[s]) /\ Place(Rec(S(s))) = Place(sc[s])
  BY <1>1
<1>3. /\ CoreStays(S(s)) => HandledSame(s)
      /\ \A l : CoreHandles(S(s), l) => NewlyHandled(s, l)
  BY <1>2 DEF CoreStays, CoreHandles, HandledSame, NewlyHandled
<1> QED BY <1>1, <1>3, CoreSteps

\* A step that removes at most one packet of a sum core, and does not move it to
\* another tick, hands it the link of that packet or nothing.
LEMMA HandledBy ==
  ASSUME FlowAndMachine, FlowAndMachine', [Flow!Next]_(Flow!vars), NEW s \in Sub, NEW p,
         \A q \in net : q.dst = S(s) => q = p \/ q \in net',
         Stamp(sc'[s]) = Stamp(sc[s])
  PROVE  HandledSame(s) \/ (p \in net \ net' /\ p.dst = S(s) /\ NewlyHandled(s, LinkOf(p)))
<1>1. S(s) \in Cores /\ Rec(S(s)) = sc[s] /\ Rec(S(s))' = sc'[s]
  BY CoreFacts, RecFacts
<1>2. Place(Rec(S(s)))' = Place(sc'[s]) /\ Place(Rec(S(s))) = Place(sc[s])
  BY <1>1
<1>3. /\ CoreStays(S(s)) => HandledSame(s)
      /\ \A l : CoreHandles(S(s), l) => NewlyHandled(s, l)
  BY <1>2 DEF CoreStays, CoreHandles, HandledSame, NewlyHandled
<1>4. Stamp(Rec(S(s))') = Stamp(Rec(S(s)))
  BY <1>1
<1> QED BY <1>1, <1>3, <1>4, CoreBy

(***************************************************************************)
(* Sums.                                                                   *)
(***************************************************************************)
LEMMA AddOne ==
  ASSUME NEW A, NEW x, x \notin A
  PROVE  SetToBag(A) (+) SetToBag({x}) = SetToBag(A \cup {x})
  BY DEF SetToBag, (+)

\* a bag with x added to it
Plus(b, x) == b (+) SetToBag({x})

\* links that differ in their source, or in their source or unit
Apart(X) == \A x, y \in X : x[2] = y[2] => x = y
UnitApart(X) == \A x, y \in X : x[2] = y[2] /\ x[4] = y[4] => x = y

\* One more product adds one element to the bag,
LEMMA PartsAdd ==
  ASSUME NEW X, NEW l, l \notin X, Apart(X \cup {l}), NEW st
  PROVE  Parts(X \cup {l}, st) = Plus(Parts(X, st), <<l[2], st>>)
<1> DEFINE A == {<<x[2], st>> : x \in X}
<1>1. <<l[2], st>> \notin A
  BY DEF Apart
<1>2. {<<x[2], st>> : x \in X \cup {l}} = A \cup {<<l[2], st>>}
  OBVIOUS
<1> HIDE DEF A
<1>3. SetToBag(A) (+) SetToBag({<<l[2], st>>}) = SetToBag(A \cup {<<l[2], st>>})
  BY <1>1, AddOne
<1> QED BY <1>2, <1>3 DEF Parts, A, Plus

\* so does one more link delta,
LEMMA UnitPartsAdd ==
  ASSUME NEW X, NEW l, l \notin X, UnitApart(X \cup {l}), NEW st
  PROVE  UnitParts(X \cup {l}, st) = Plus(UnitParts(X, st), <<l[2], l[4], st>>)
<1> DEFINE A == {<<x[2], x[4], st>> : x \in X}
<1>1. <<l[2], l[4], st>> \notin A
  BY DEF UnitApart
<1>2. {<<x[2], x[4], st>> : x \in X \cup {l}} = A \cup {<<l[2], l[4], st>>}
  OBVIOUS
<1> HIDE DEF A
<1>3. SetToBag(A) (+) SetToBag({<<l[2], l[4], st>>}) = SetToBag(A \cup {<<l[2], l[4], st>>})
  BY <1>1, AddOne
<1> QED BY <1>2, <1>3 DEF UnitParts, A, Plus

\* and without any the bag is empty.
LEMMA PartsNone ==
  \A st : Parts({}, st) = EmptyBag /\ UnitParts({}, st) = EmptyBag
<1> SUFFICES ASSUME NEW st PROVE Parts({}, st) = EmptyBag /\ UnitParts({}, st) = EmptyBag
  OBVIOUS
<1>1. {<<x[2], st>> : x \in {}} = {} /\ {<<x[2], x[4], st>> : x \in {}} = {}
  OBVIOUS
<1> QED BY <1>1 DEF Parts, UnitParts, EmptyBag

\* nothing is added up in the step
SameSums(r, q) ==
  /\ q.s_nets = r.s_nets /\ q.s_errors = r.s_errors
  /\ q.s_lds_part = r.s_lds_part /\ q.s_lds_arrived = r.s_lds_arrived

\* What is handled of the kinds a sum core adds up.
SameParts(s) ==
  /\ \A u : /\ HandledUnit("fwd", S(s), u)' = HandledUnit("fwd", S(s), u)
            /\ HandledUnit("bkp", S(s), u)' = HandledUnit("bkp", S(s), u)
  /\ HandledKind("lds", S(s))' = HandledKind("lds", S(s))

\* The sums of a core that neither adds anything up nor moves on stay right,
LEMMA SumsKept ==
  ASSUME NEW s, SumsOK(s), SameSums(sc[s], sc'[s]), Place(sc'[s]) = Place(sc[s]), SameParts(s)
  PROVE  SumsOK(s)'
<1>1. Stamp(sc'[s]) = Stamp(sc[s])
  BY DEF Place, Stamp
<1> QED BY <1>1 DEF SumsOK, SameSums, SameParts

\* and it adds nothing up when it handles nothing, or a packet of another kind.
LEMMA SamePartsWhen ==
  ASSUME NEW s,
         \/ HandledSame(s)
         \/ \E l : NewlyHandled(s, l) /\ l[1] \notin {"fwd", "bkp", "lds"}
  PROVE  SameParts(s) /\ Place(sc'[s]) = Place(sc[s])
<1>1. CASE HandledSame(s)
  BY <1>1 DEF HandledSame, SameParts, HandledUnit, HandledKind
<1>2. ASSUME NEW l, NewlyHandled(s, l), l[1] \notin {"fwd", "bkp", "lds"}
      PROVE  SameParts(s) /\ Place(sc'[s]) = Place(sc[s])
  BY <1>2 DEF NewlyHandled, SameParts, HandledUnit, HandledKind
<1> QED BY <1>1, <1>2

\* A step of other cores.
LEMMA SumsElsewhere ==
  ASSUME FlowAndMachine, FlowAndMachine', [Flow!Next]_(Flow!vars), NEW s \in Sub, SumsOK(s),
         \A q \in net : q.dst = S(s) => q \in net',
         sc'[s] = sc[s]
  PROVE  SumsOK(s)'
<1>1. \A p : HandledSame(s) \/ (p \in net \ net' /\ p.dst = S(s))
  BY HandledBy
<1>2. HandledSame(s)
  BY <1>1
<1> QED BY <1>2, SamePartsWhen, SumsKept DEF SameSums

\* A handler of the sum core that adds nothing up.
LEMMA SumsUntouched ==
  ASSUME FlowAndMachine, FlowAndMachine', [Flow!Next]_(Flow!vars), NEW s \in Sub, SumsOK(s),
         NEW p \in net, net \ {p} \subseteq net', p.kind \notin {"fwd", "bkp", "lds"},
         SameSums(sc[s], sc'[s]), Stamp(sc'[s]) = Stamp(sc[s])
  PROVE  SumsOK(s)'
<1>1. \A q \in net : q.dst = S(s) => q = p \/ q \in net'
  OBVIOUS
<1>2. HandledSame(s) \/ NewlyHandled(s, LinkOf(p))
  BY <1>1, HandledBy
<1>3. LinkOf(p)[1] = p.kind
  BY LinkApart DEF LinkOf
<1> QED BY <1>2, <1>3, SamePartsWhen, SumsKept

\* A sum core that takes a packet p it counts has not handled its link before.
LEMMA SumsTaken ==
  ASSUME AllTimely, FlowAndMachine, FlowAndMachine', [Flow!Next]_(Flow!vars),
         NEW p \in net, NEW s \in Sub, p.dst = S(s), p.kind \in {"fwd", "bkp", "lds"},
         InTime(sc[s], p), net \ {p} \subseteq net',
         \A q \in net' : q.kind \in {"stop", "sync"} => q \in net,
         tc' = tc, Place(sc'[s]) = Place(sc[s]),
         \/ p.kind = "fwd" /\ sc'[s].sf_arrived[p.u] = sc[s].sf_arrived[p.u] + 1
         \/ p.kind = "bkp" /\ sc'[s].sb_arrived[p.u] = sc[s].sb_arrived[p.u] + 1
         \/ p.kind = "lds" /\ sc'[s].s_lds_arrived = sc[s].s_lds_arrived + 1
  PROVE  NewlyHandled(s, LinkOf(p)) /\ p.st = Stamp(sc[s]) /\ Stamp(sc'[s]) = Stamp(sc[s])
<1>1. Awaits(p)
  BY CoresApart DEF Awaits
<1>2. S(s) \notin Behind /\ p.st = Stamp(sc[s]) /\ p.u \in Unit
  BY <1>1, SPacketFacts
<1>3. Stamp(sc'[s]) = Stamp(sc[s])
  BY DEF Place, Stamp
<1>4. S(s) \notin Behind'
  <2>1. Heading({"stop", "sync"})' \subseteq Heading({"stop", "sync"})
    BY DEF Heading
  <2> QED BY <1>2, <2>1 DEF Behind
<1>5. \A q \in net : q.dst = S(s) => q = p \/ q \in net'
  OBVIOUS
<1>6. HandledSame(s) \/ NewlyHandled(s, LinkOf(p))
  BY <1>3, <1>5, HandledBy
<1>7. ASSUME HandledSame(s)
      PROVE  FALSE
  <2>1. SBoardsCount(s) /\ SBoardsCount(s)'
    <3>1. BoardsCount'
      BY BoardsCountFact, PTL
    <3> QED BY <3>1, BoardsCountFact DEF BoardsCount
  <2>2. SameParts(s)
    BY <1>7, SamePartsWhen
  <2>3. /\ sc'[s].sf_arrived[p.u] = sc[s].sf_arrived[p.u] /\ sc[s].sf_arrived[p.u] \in Nat
        /\ sc'[s].sb_arrived[p.u] = sc[s].sb_arrived[p.u] /\ sc[s].sb_arrived[p.u] \in Nat
        /\ sc'[s].s_lds_arrived = sc[s].s_lds_arrived /\ sc[s].s_lds_arrived \in Nat
    BY <1>2, <1>4, <2>1, <2>2 DEF SBoardsCount, SameParts
  <2> QED BY <2>3
<1> QED BY <1>2, <1>3, <1>6, <1>7

\* What a sum core adds up when it has handled link l.
AddsUp(s, l) ==
  /\ \A u : /\ HandledUnit("fwd", S(s), u)' = HandledUnit("fwd", S(s), u)
                 \cup (IF l[1] = "fwd" /\ l[4] = u THEN {l} ELSE {})
            /\ HandledUnit("bkp", S(s), u)' = HandledUnit("bkp", S(s), u)
                 \cup (IF l[1] = "bkp" /\ l[4] = u THEN {l} ELSE {})
  /\ HandledKind("lds", S(s))' = HandledKind("lds", S(s)) \cup (IF l[1] = "lds" THEN {l} ELSE {})

\* That is all a newly handled link changes.
LEMMA NewAddsUp ==
  ASSUME NEW s, NEW l, NewlyHandled(s, l)
  PROVE  AddsUp(s, l)
<1>1. Flow!Handled(S(s))' = Flow!Handled(S(s)) \cup {l}
  BY DEF NewlyHandled
<1> QED BY <1>1 DEF AddsUp, HandledUnit, HandledKind

\* The bag of products of a unit, with the newly handled one,
LEMMA NewParts ==
  ASSUME FlowAndMachine, NEW s \in Sub, NEW l, NewlyHandled(s, l), NEW st, NEW k, l[1] = k
  PROVE  Parts(HandledUnit(k, S(s), l[4]) \cup {l}, st)
           = Plus(Parts(HandledUnit(k, S(s), l[4]), st), <<l[2], st>>)
<1> DEFINE X == HandledUnit(k, S(s), l[4])
<1>1. l \in AllLinks /\ l[3] = S(s) /\ l \notin Flow!Handled(S(s))
  BY DEF NewlyHandled
<1>2. \A x \in Flow!Handled(S(s)) : x \in AllLinks /\ x[3] = S(s)
  BY CoreFacts, HandledFacts
<1>3. /\ l \notin X
      /\ \A x \in X \cup {l} : x \in AllLinks /\ x[1] = k /\ x[3] = S(s) /\ x[4] = l[4]
  BY <1>1, <1>2 DEF HandledUnit
<1> HIDE DEF X
<1>4. \A x \in X \cup {l} : x = Link(k, x[2], S(s), l[4])
  BY <1>3, LinkTyped
<1>5. Apart(X \cup {l})
  BY <1>4 DEF Apart
<1>6. Parts(X \cup {l}, st) = Plus(Parts(X, st), <<l[2], st>>)
  BY <1>3, <1>5, PartsAdd
<1> QED BY <1>6 DEF X

\* and that of the link deltas.
LEMMA NewUnitParts ==
  ASSUME FlowAndMachine, NEW s \in Sub, NEW l, NewlyHandled(s, l), NEW st, l[1] = "lds"
  PROVE  /\ UnitParts(HandledKind("lds", S(s)) \cup {l}, st)
              = Plus(UnitParts(HandledKind("lds", S(s)), st), <<l[2], l[4], st>>)
         /\ Cardinality(HandledKind("lds", S(s)) \cup {l})
              = Cardinality(HandledKind("lds", S(s))) + 1
<1> DEFINE X == HandledKind("lds", S(s))
<1>1. l \in AllLinks /\ l[3] = S(s) /\ l \notin Flow!Handled(S(s))
  BY DEF NewlyHandled
<1>2. \A x \in Flow!Handled(S(s)) : x \in AllLinks /\ x[3] = S(s)
  BY CoreFacts, HandledFacts
<1>3. /\ l \notin X
      /\ \A x \in X \cup {l} : x \in AllLinks /\ x[1] = "lds" /\ x[3] = S(s)
  BY <1>1, <1>2 DEF HandledKind
<1>4. IsFiniteSet(X)
  <2>1. X \in SUBSET Into({"lds"}, S(s))
    BY CoreFacts, HandledKinds
  <2>2. IsFiniteSet(Into({"lds"}, S(s)))
    BY CountsS DEF Counts
  <2> QED BY <2>1, <2>2, FS_Subset
<1> HIDE DEF X
<1>5. Cardinality(X \cup {l}) = Cardinality(X) + 1
  BY <1>3, <1>4, FS_AddElement
<1>6. \A x \in X \cup {l} : x = Link("lds", x[2], S(s), x[4])
  BY <1>3, LinkTyped
<1>7. UnitApart(X \cup {l})
  BY <1>6 DEF UnitApart
<1>8. UnitParts(X \cup {l}, st) = Plus(UnitParts(X, st), <<l[2], l[4], st>>)
  BY <1>3, <1>7, UnitPartsAdd
<1> QED BY <1>5, <1>8 DEF X

\* sf_process
LEMMA SumsForward ==
  ASSUME AllTimely, FlowAndMachine, FlowAndMachine', [Flow!Next]_(Flow!vars),
         NEW p \in net, NEW s \in Sub, p.dst = S(s), SForward(p), UNCHANGED <<wc, ic, tc>>, SumsOK(s)
  PROVE  SumsOK(s)'
<1> DEFINE r == sc[s]
           l == LinkOf(p)
           st == Stamp(sc[s])
<1>0. p.dst[2] = s /\ p.dst[1] = "S"
  BY CoresApart
<1>1. /\ p.kind = "fwd" /\ InTime(sc[s], p) /\ net \ {p} \subseteq net'
      /\ \A q \in net' : q.kind \in {"stop", "sync"} => q \in net
  BY <1>0 DEF SForward, Pkt
<1>2. SShape(r) /\ DOMAIN sc = Sub /\ p.u \in Unit
  BY DEF FlowAndMachine, MachineInv, ShapeOK, NetOK, PacketOK
<1>3. sc'[s] = [r EXCEPT !.s_nets[p.u] = Plus(@, <<p.src, p.st>>),
                         !.sf_arrived[p.u] = @ + 1]
  BY <1>0, <1>2 DEF SForward, Plus
<1>4. DOMAIN r.s_nets = Unit /\ DOMAIN r.s_errors = Unit
  BY DEF SumsOK
<1>5. /\ sc'[s].s_nets = [r.s_nets EXCEPT ![p.u] = Plus(@, <<p.src, p.st>>)]
      /\ sc'[s].sf_arrived[p.u] = r.sf_arrived[p.u] + 1
      /\ sc'[s].s_errors = r.s_errors /\ sc'[s].s_lds_part = r.s_lds_part
      /\ sc'[s].s_lds_arrived = r.s_lds_arrived
      /\ Place(sc'[s]) = Place(r)
  BY <1>2, <1>3 DEF SShape, StartFields, Place
<1>6. NewlyHandled(s, l) /\ p.st = st /\ Stamp(sc'[s]) = st
  BY <1>1, <1>5, SumsTaken
<1>7. l[1] = "fwd" /\ l[2] = p.src /\ l[4] = p.u
  BY <1>1, LinkApart DEF LinkOf
<1> HIDE DEF r, l, st
<1>8. /\ AddsUp(s, l)
      /\ Parts(HandledUnit("fwd", S(s), p.u) \cup {l}, st)
           = Plus(Parts(HandledUnit("fwd", S(s), p.u), st), <<p.src, st>>)
  <2>1. AddsUp(s, l)
    BY <1>6, NewAddsUp
  <2>2. Parts(HandledUnit("fwd", S(s), l[4]) \cup {l}, st)
          = Plus(Parts(HandledUnit("fwd", S(s), l[4]), st), <<l[2], st>>)
    BY <1>6, <1>7, NewParts
  <2> QED BY <1>7, <2>1, <2>2
<1>9. /\ \A u : /\ HandledUnit("fwd", S(s), u)' = IF u = p.u THEN HandledUnit("fwd", S(s), u) \cup {l}
                                                             ELSE HandledUnit("fwd", S(s), u)
                /\ HandledUnit("bkp", S(s), u)' = HandledUnit("bkp", S(s), u)
      /\ HandledKind("lds", S(s))' = HandledKind("lds", S(s))
  BY <1>7, <1>8 DEF AddsUp
<1>10. /\ \A u \in Unit : /\ r.s_nets[u] = Parts(HandledUnit("fwd", S(s), u), st)
                          /\ r.s_errors[u] = Parts(HandledUnit("bkp", S(s), u), st)
       /\ r.s_lds_part = UnitParts(HandledKind("lds", S(s)), st)
       /\ r.s_lds_arrived = Cardinality(HandledKind("lds", S(s)))
  BY DEF SumsOK, r, st
<1>11. \A u \in Unit : sc'[s].s_nets[u] = Parts(HandledUnit("fwd", S(s), u)', st)
  <2> SUFFICES ASSUME NEW u \in Unit
               PROVE  sc'[s].s_nets[u] = Parts(HandledUnit("fwd", S(s), u)', st)
    OBVIOUS
  <2>1. CASE u = p.u
    <3> DEFINE X == HandledUnit("fwd", S(s), p.u)
    <3>1. sc'[s].s_nets[u] = Plus(r.s_nets[p.u], <<p.src, st>>)
      BY <1>2, <1>4, <1>5, <1>6, <2>1 DEF r
    <3>2. HandledUnit("fwd", S(s), u)' = X \cup {l}
      BY <1>9, <2>1
    <3>3. Parts(X \cup {l}, st) = Plus(Parts(X, st), <<p.src, st>>) /\ r.s_nets[p.u] = Parts(X, st)
      BY <1>2, <1>8, <1>10
    <3> HIDE DEF X
    <3> QED BY <3>1, <3>2, <3>3
  <2>2. CASE u # p.u
    BY <1>4, <1>5, <1>9, <1>10, <2>2 DEF r
  <2> QED BY <2>1, <2>2
<1>12. DOMAIN sc'[s].s_nets = Unit /\ DOMAIN sc'[s].s_errors = Unit
  BY <1>4, <1>5 DEF r
<1> QED BY <1>5, <1>6, <1>9, <1>10, <1>11, <1>12 DEF SumsOK

\* sb_process
LEMMA SumsBackprop ==
  ASSUME AllTimely, FlowAndMachine, FlowAndMachine', [Flow!Next]_(Flow!vars),
         NEW p \in net, NEW s \in Sub, p.dst = S(s), SBackprop(p), UNCHANGED <<wc, ic, tc>>, SumsOK(s)
  PROVE  SumsOK(s)'
<1> DEFINE r == sc[s]
           l == LinkOf(p)
           st == Stamp(sc[s])
           r1 == [sc[s] EXCEPT !.s_errors[p.u] = Plus(@, <<p.src, p.st>>),
                               !.sb_arrived[p.u] = @ + 1]
           r2 == [r1 EXCEPT !.sb_done = @ + 1]
<1>0. p.dst[2] = s /\ p.dst[1] = "S"
  BY CoresApart
<1>1. /\ p.kind = "bkp" /\ InTime(sc[s], p) /\ net \ {p} \subseteq net'
      /\ \A q \in net' : q.kind \in {"stop", "sync"} => q \in net
  BY <1>0 DEF SBackprop, SBReport, Multicast, Pkt
<1>2. SShape(r) /\ DOMAIN sc = Sub /\ p.u \in Unit
  BY DEF FlowAndMachine, MachineInv, ShapeOK, NetOK, PacketOK
<1>3. sc'[s] \in {r1, r2, SBDone(r2, "PROC")}
  BY <1>0, <1>2 DEF SBackprop, Plus
<1>4. DOMAIN r.s_nets = Unit /\ DOMAIN r.s_errors = Unit
  BY DEF SumsOK
<1>a. /\ DOMAIN r1 = DOMAIN r
      /\ \A f \in DOMAIN r \ {"s_errors", "sb_arrived"} : r1[f] = r[f]
      /\ r1.s_errors = [r.s_errors EXCEPT ![p.u] = Plus(@, <<p.src, p.st>>)]
      /\ r1.sb_arrived = [r.sb_arrived EXCEPT ![p.u] = @ + 1]
  BY <1>2 DEF SShape
<1> HIDE DEF r1
<1>b. DOMAIN r2 = DOMAIN r /\ \A f \in DOMAIN r \ {"sb_done"} : r2[f] = r1[f]
  BY <1>2, <1>a DEF SShape
<1> HIDE DEF r2
<1>c. /\ DOMAIN SBDone(r2, "PROC") = DOMAIN r
      /\ \A f \in DOMAIN r \ {"sb_thrds_pend", "sb_done"} : SBDone(r2, "PROC")[f] = r1[f]
  <2>1. "sb_thrds_pend" \in DOMAIN r2
    BY <1>2, <1>b DEF SShape
  <2>2. /\ DOMAIN SBDone(r2, "PROC") = DOMAIN r2
        /\ \A f \in DOMAIN r2 \ {"sb_thrds_pend"} : SBDone(r2, "PROC")[f] = r2[f]
    BY <2>1, SBDoneFields
  <2> QED BY <1>b, <2>2
<1>d. \A f \in DOMAIN r \ {"sb_thrds_pend", "sb_done"} : sc'[s][f] = r1[f]
  BY <1>3, <1>b, <1>c
<1>5. /\ sc'[s].s_errors = [r.s_errors EXCEPT ![p.u] = Plus(@, <<p.src, p.st>>)]
      /\ sc'[s].sb_arrived[p.u] = r.sb_arrived[p.u] + 1
      /\ sc'[s].s_nets = r.s_nets /\ sc'[s].s_lds_part = r.s_lds_part
      /\ sc'[s].s_lds_arrived = r.s_lds_arrived
      /\ Place(sc'[s]) = Place(r)
  <2>1. sc'[s].s_errors = r1.s_errors /\ sc'[s].sb_arrived = r1.sb_arrived
    BY <1>2, <1>d DEF SShape
  <2>2. \A f \in StartFields \cup {"s_nets", "s_lds_part", "s_lds_arrived"} : sc'[s][f] = r[f]
    BY <1>2, <1>a, <1>d DEF SShape, StartFields
  <2>3. Place(sc'[s]) = Place(r)
    BY <2>2 DEF StartFields, Place
  <2> QED BY <1>2, <1>a, <2>1, <2>2, <2>3 DEF SShape
<1>6. NewlyHandled(s, l) /\ p.st = st /\ Stamp(sc'[s]) = st
  BY <1>1, <1>5, SumsTaken
<1>7. l[1] = "bkp" /\ l[2] = p.src /\ l[4] = p.u
  BY <1>1, LinkApart DEF LinkOf
<1> HIDE DEF r, l, st
<1>8. /\ AddsUp(s, l)
      /\ Parts(HandledUnit("bkp", S(s), p.u) \cup {l}, st)
           = Plus(Parts(HandledUnit("bkp", S(s), p.u), st), <<p.src, st>>)
  <2>1. AddsUp(s, l)
    BY <1>6, NewAddsUp
  <2>2. Parts(HandledUnit("bkp", S(s), l[4]) \cup {l}, st)
          = Plus(Parts(HandledUnit("bkp", S(s), l[4]), st), <<l[2], st>>)
    BY <1>6, <1>7, NewParts
  <2> QED BY <1>7, <2>1, <2>2
<1>9. /\ \A u : /\ HandledUnit("bkp", S(s), u)' = IF u = p.u THEN HandledUnit("bkp", S(s), u) \cup {l}
                                                             ELSE HandledUnit("bkp", S(s), u)
                /\ HandledUnit("fwd", S(s), u)' = HandledUnit("fwd", S(s), u)
      /\ HandledKind("lds", S(s))' = HandledKind("lds", S(s))
  BY <1>7, <1>8 DEF AddsUp
<1>10. /\ \A u \in Unit : /\ r.s_nets[u] = Parts(HandledUnit("fwd", S(s), u), st)
                          /\ r.s_errors[u] = Parts(HandledUnit("bkp", S(s), u), st)
       /\ r.s_lds_part = UnitParts(HandledKind("lds", S(s)), st)
       /\ r.s_lds_arrived = Cardinality(HandledKind("lds", S(s)))
  BY DEF SumsOK, r, st
<1>11. \A u \in Unit : sc'[s].s_errors[u] = Parts(HandledUnit("bkp", S(s), u)', st)
  <2> SUFFICES ASSUME NEW u \in Unit
               PROVE  sc'[s].s_errors[u] = Parts(HandledUnit("bkp", S(s), u)', st)
    OBVIOUS
  <2>1. CASE u = p.u
    <3> DEFINE X == HandledUnit("bkp", S(s), p.u)
    <3>1. sc'[s].s_errors[u] = Plus(r.s_errors[p.u], <<p.src, st>>)
      BY <1>2, <1>4, <1>5, <1>6, <2>1 DEF r
    <3>2. HandledUnit("bkp", S(s), u)' = X \cup {l}
      BY <1>9, <2>1
    <3>3. Parts(X \cup {l}, st) = Plus(Parts(X, st), <<p.src, st>>) /\ r.s_errors[p.u] = Parts(X, st)
      BY <1>2, <1>8, <1>10
    <3> HIDE DEF X
    <3> QED BY <3>1, <3>2, <3>3
  <2>2. CASE u # p.u
    BY <1>4, <1>5, <1>9, <1>10, <2>2 DEF r
  <2> QED BY <2>1, <2>2
<1>12. DOMAIN sc'[s].s_nets = Unit /\ DOMAIN sc'[s].s_errors = Unit
  BY <1>4, <1>5 DEF r
<1> QED BY <1>5, <1>6, <1>9, <1>10, <1>11, <1>12 DEF SumsOK

\* s_lds_packet
LEMMA SumsLds ==
  ASSUME AllTimely, FlowAndMachine, FlowAndMachine', [Flow!Next]_(Flow!vars),
         NEW p \in net, NEW s \in Sub, p.dst = S(s), SLds(p), UNCHANGED <<wc, ic, tc>>, SumsOK(s)
  PROVE  SumsOK(s)'
<1> DEFINE r == sc[s]
           l == LinkOf(p)
           st == Stamp(sc[s])
           r1 == [sc[s] EXCEPT !.s_lds_part = Plus(@, <<p.src, p.u, p.st>>),
                               !.s_lds_arrived = @ + 1]
<1>0. p.dst[2] = s /\ p.dst[1] = "S"
  BY CoresApart
<1>1. /\ p.kind = "lds" /\ InTime(sc[s], p) /\ net \ {p} \subseteq net'
      /\ \A q \in net' : q.kind \in {"stop", "sync"} => q \in net
  BY <1>0 DEF SLds, SBReport, Multicast, Pkt
<1>2. SShape(r) /\ DOMAIN sc = Sub /\ p.u \in Unit
  BY DEF FlowAndMachine, MachineInv, ShapeOK, NetOK, PacketOK
<1>3. sc'[s] \in {r1, SBDone(r1, "LDSA")}
  BY <1>0, <1>2 DEF SLds, Plus
<1>4. DOMAIN r.s_nets = Unit /\ DOMAIN r.s_errors = Unit
  BY DEF SumsOK
<1>a. /\ DOMAIN r1 = DOMAIN r
      /\ \A f \in DOMAIN r \ {"s_lds_part", "s_lds_arrived"} : r1[f] = r[f]
      /\ r1.s_lds_part = Plus(r.s_lds_part, <<p.src, p.u, p.st>>)
      /\ r1.s_lds_arrived = r.s_lds_arrived + 1
  BY <1>2 DEF SShape
<1> HIDE DEF r1
<1>c. /\ DOMAIN SBDone(r1, "LDSA") = DOMAIN r
      /\ \A f \in DOMAIN r \ {"sb_thrds_pend"} : SBDone(r1, "LDSA")[f] = r1[f]
  <2>1. "sb_thrds_pend" \in DOMAIN r1
    BY <1>2, <1>a DEF SShape
  <2>2. /\ DOMAIN SBDone(r1, "LDSA") = DOMAIN r1
        /\ \A f \in DOMAIN r1 \ {"sb_thrds_pend"} : SBDone(r1, "LDSA")[f] = r1[f]
    BY <2>1, SBDoneFields
  <2> QED BY <1>a, <2>2
<1>d. \A f \in DOMAIN r \ {"sb_thrds_pend"} : sc'[s][f] = r1[f]
  BY <1>3, <1>c
<1>5. /\ sc'[s].s_lds_part = Plus(r.s_lds_part, <<p.src, p.u, p.st>>)
      /\ sc'[s].s_lds_arrived = r.s_lds_arrived + 1
      /\ sc'[s].s_nets = r.s_nets /\ sc'[s].s_errors = r.s_errors
      /\ Place(sc'[s]) = Place(r)
  <2>1. sc'[s].s_lds_part = r1.s_lds_part /\ sc'[s].s_lds_arrived = r1.s_lds_arrived
    BY <1>2, <1>d DEF SShape
  <2>2. \A f \in StartFields \cup {"s_nets", "s_errors"} : sc'[s][f] = r[f]
    BY <1>2, <1>a, <1>d DEF SShape, StartFields
  <2>3. Place(sc'[s]) = Place(r)
    BY <2>2 DEF StartFields, Place
  <2> QED BY <1>a, <2>1, <2>2, <2>3
<1>6. NewlyHandled(s, l) /\ p.st = st /\ Stamp(sc'[s]) = st
  BY <1>1, <1>5, SumsTaken
<1>7. l[1] = "lds" /\ l[2] = p.src /\ l[4] = p.u
  BY <1>1, LinkApart DEF LinkOf
<1> HIDE DEF r, l, st
<1>8. /\ AddsUp(s, l)
      /\ UnitParts(HandledKind("lds", S(s)) \cup {l}, st)
           = Plus(UnitParts(HandledKind("lds", S(s)), st), <<p.src, p.u, st>>)
      /\ Cardinality(HandledKind("lds", S(s)) \cup {l}) = Cardinality(HandledKind("lds", S(s))) + 1
  <2>1. AddsUp(s, l)
    BY <1>6, NewAddsUp
  <2>2. /\ UnitParts(HandledKind("lds", S(s)) \cup {l}, st)
             = Plus(UnitParts(HandledKind("lds", S(s)), st), <<l[2], l[4], st>>)
        /\ Cardinality(HandledKind("lds", S(s)) \cup {l}) = Cardinality(HandledKind("lds", S(s))) + 1
    BY <1>6, <1>7, NewUnitParts
  <2> QED BY <1>7, <2>1, <2>2
<1>9. /\ \A u : /\ HandledUnit("fwd", S(s), u)' = HandledUnit("fwd", S(s), u)
                /\ HandledUnit("bkp", S(s), u)' = HandledUnit("bkp", S(s), u)
      /\ HandledKind("lds", S(s))' = HandledKind("lds", S(s)) \cup {l}
  BY <1>7, <1>8 DEF AddsUp
<1>10. /\ \A u \in Unit : /\ r.s_nets[u] = Parts(HandledUnit("fwd", S(s), u), st)
                          /\ r.s_errors[u] = Parts(HandledUnit("bkp", S(s), u), st)
       /\ r.s_lds_part = UnitParts(HandledKind("lds", S(s)), st)
       /\ r.s_lds_arrived = Cardinality(HandledKind("lds", S(s)))
  BY DEF SumsOK, r, st
<1>11. /\ sc'[s].s_lds_part = UnitParts(HandledKind("lds", S(s))', st)
       /\ sc'[s].s_lds_arrived = Cardinality(HandledKind("lds", S(s))')
  BY <1>5, <1>6, <1>8, <1>9, <1>10
<1> QED BY <1>4, <1>5, <1>6, <1>9, <1>10, <1>11 DEF SumsOK, r

\* the sums at the start of a tick
SumFields == {"s_nets", "s_errors", "s_lds_part", "s_lds_arrived"}

SCleared(r, q) ==
  /\ r.phase = F => /\ q.s_nets = Nothing /\ q.s_errors = r.s_errors
                    /\ q.s_lds_part = r.s_lds_part /\ q.s_lds_arrived = r.s_lds_arrived
  /\ r.phase # F => /\ q.s_nets = r.s_nets /\ q.s_errors = Nothing
                    /\ q.s_lds_part = EmptyBag /\ q.s_lds_arrived = 0

\* sf_tick_init clears the nets, sb_tick_init the errors and the link deltas.
LEMMA STickInitClears ==
  ASSUME NEW s, NEW r, SShape(r), NEW t, t = STickInit(s, r)
  PROVE  SCleared(r, t) /\ DOMAIN t = DOMAIN r
<1>1. DOMAIN r = StartFields \cup
       {"s_nets", "sf_arrived", "s_fsgn_arrived", "s_errors", "sb_arrived", "sb_done",
        "s_bsgn_arrived", "sb_thrds_pend", "s_lds_part", "s_lds_arrived"}
  BY DEF SShape
<1>2. CASE r.phase = F
  <2>1. t = [r EXCEPT !.s_nets = Nothing, !.sf_arrived = NoneArrived, !.s_fsgn_arrived = 0]
    BY <1>2 DEF STickInit, SFTickInit
  <2> QED BY <1>1, <1>2, <2>1 DEF SCleared
<1>3. CASE r.phase # F
  <2> DEFINE x == [r EXCEPT !.sb_thrds_pend = sb_thrds_init(s) \cup LdsaThread(r)]
  <2>1. t = [x EXCEPT !.s_lds_part = EmptyBag, !.s_lds_arrived = 0,
                      !.s_errors = Nothing, !.sb_arrived = NoneArrived,
                      !.sb_done = 0, !.s_bsgn_arrived = 0]
    BY <1>3 DEF STickInit, SBTickInit
  <2>2. DOMAIN x = DOMAIN r /\ x.s_nets = r.s_nets
    BY <1>1
  <2> HIDE DEF x
  <2>3. /\ DOMAIN t = DOMAIN r /\ t.s_nets = x.s_nets /\ t.s_errors = Nothing
        /\ t.s_lds_part = EmptyBag /\ t.s_lds_arrived = 0
    BY <1>1, <2>1, <2>2
  <2> QED BY <1>3, <2>2, <2>3 DEF SCleared
<1> QED BY <1>2, <1>3

\* The advance itself leaves the sums alone.
LEMMA SAdvanceSums ==
  ASSUME NEW s, NEW r, SShape(r), NEW b, NEW q, q = SAdvance(s, r, b)
  PROVE  SCleared(r, q)
<1>1. PICK t : t = STickInit(s, r)
  OBVIOUS
<1>2. SCleared(r, t) /\ DOMAIN t = DOMAIN r
  BY <1>1, STickInitClears
<1>3. /\ StartFields \subseteq DOMAIN t /\ SumFields \subseteq DOMAIN t
      /\ SumFields \cap StartFields = {}
  BY <1>2 DEF SShape, StartFields, SumFields
<1>4. ASSUME NEW t1, DOMAIN t1 = DOMAIN t, \A f \in SumFields : t1[f] = t[f], q = AdvanceExample(t1)
      PROVE  \A f \in SumFields : q[f] = t[f]
  <2>1. Frame(t1, q, ExampleFields)
    BY <1>3, <1>4, AdvanceExampleFacts
  <2> QED BY <1>3, <1>4, <2>1 DEF Frame, ExampleFields, StartFields
<1>5. \A f \in SumFields : q[f] = t[f]
  <2>1. CASE r.phase = F /\ ~b
    <3>1. q = [t EXCEPT !.tick = @ + 1]
      BY <1>1, <2>1 DEF SAdvance, sf_advance_tick
    <3> QED BY <1>3, <3>1 DEF StartFields
  <2>2. CASE r.phase = F /\ b
    <3>1. q = sf_advance_event(t)
      BY <1>1, <2>2 DEF SAdvance, sf_advance_tick
    <3>2. CASE ~EndOfForward(t)
      <4>1. q = [t EXCEPT !.evt = @ + 1, !.tick = @ + 1]
        BY <3>1, <3>2, Zenon DEF sf_advance_event
      <4> QED BY <1>3, <4>1 DEF StartFields
    <3>3. CASE EndOfForward(t) /\ Training
      <4>1. q = [t EXCEPT !.evt = @ + 1, !.phase = B]
        BY <3>1, <3>3, Zenon DEF sf_advance_event
      <4> QED BY <1>3, <4>1 DEF StartFields
    <3>4. CASE EndOfForward(t) /\ ~Training
      <4> DEFINE t1 == [t EXCEPT !.tick = INIT_TICK]
      <4>1. q = AdvanceExample(t1)
        BY <3>1, <3>4, Zenon DEF sf_advance_event
      <4>2. DOMAIN t1 = DOMAIN t /\ \A f \in SumFields : t1[f] = t[f]
        BY <1>3 DEF StartFields
      <4> HIDE DEF t1
      <4> QED BY <1>4, <4>1, <4>2
    <3> QED BY <3>2, <3>3, <3>4
  <2>3. CASE r.phase # F /\ r.tick = END_TICK
    <3> DEFINE t1 == [t EXCEPT !.tick = INIT_TICK, !.phase = F]
    <3>1. q = AdvanceExample(t1)
      BY <1>1, <2>3 DEF SAdvance, sb_advance_tick
    <3>2. DOMAIN t1 = DOMAIN t /\ \A f \in SumFields : t1[f] = t[f]
      BY <1>3 DEF StartFields
    <3> HIDE DEF t1
    <3> QED BY <1>4, <3>1, <3>2
  <2>4. CASE r.phase # F /\ r.tick # END_TICK
    <3>1. q = [t EXCEPT !.tick = @ - 1]
      BY <1>1, <2>4 DEF SAdvance, sb_advance_tick
    <3> QED BY <1>3, <3>1 DEF StartFields
  <2> QED BY <2>1, <2>2, <2>3, <2>4
<1>6. /\ q.s_nets = t.s_nets /\ q.s_errors = t.s_errors
      /\ q.s_lds_part = t.s_lds_part /\ q.s_lds_arrived = t.s_lds_arrived
  BY <1>5 DEF SumFields
<1> QED BY <1>2, <1>6 DEF SCleared

\* A sum core that has handled nothing has added up nothing.
NoSums(q) ==
  /\ DOMAIN q.s_nets = Unit /\ DOMAIN q.s_errors = Unit
  /\ \A u \in Unit : q.s_nets[u] = EmptyBag /\ q.s_errors[u] = EmptyBag
  /\ q.s_lds_part = EmptyBag /\ q.s_lds_arrived = 0

\* s_nets and s_errors as they are cleared
LEMMA NothingFacts == DOMAIN Nothing = Unit /\ \A u \in Unit : Nothing[u] = EmptyBag
  BY DEF Nothing

NoneHandled(s) ==
  Flow!Handled(S(s)) = {} /\ NoSums(sc[s]) => SumsOK(s)

\* Its sums are right, then.
LEMMA NoneHandledSums == \A s : NoneHandled(s)
<1> SUFFICES ASSUME NEW s, Flow!Handled(S(s)) = {}, NoSums(sc[s])
             PROVE  SumsOK(s)
  BY DEF NoneHandled
<1>1. /\ \A k, u : HandledUnit(k, S(s), u) = {}
      /\ \A k : HandledKind(k, S(s)) = {}
  BY DEF HandledUnit, HandledKind
<1>2. Cardinality({}) = 0
  BY FS_EmptySet
<1>3. /\ DOMAIN sc[s].s_nets = Unit /\ DOMAIN sc[s].s_errors = Unit
      /\ \A u \in Unit : sc[s].s_nets[u] = EmptyBag /\ sc[s].s_errors[u] = EmptyBag
      /\ sc[s].s_lds_part = EmptyBag /\ sc[s].s_lds_arrived = 0
  BY DEF NoSums
<1>5. ASSUME NEW u \in Unit
      PROVE  /\ sc[s].s_nets[u] = Parts(HandledUnit("fwd", S(s), u), Stamp(sc[s]))
             /\ sc[s].s_errors[u] = Parts(HandledUnit("bkp", S(s), u), Stamp(sc[s]))
  BY <1>1, <1>3, PartsNone
<1>6. sc[s].s_lds_part = UnitParts(HandledKind("lds", S(s)), Stamp(sc[s]))
  BY <1>1, <1>3, PartsNone
<1>7. sc[s].s_lds_arrived = Cardinality(HandledKind("lds", S(s)))
  BY <1>1, <1>2, <1>3
<1> QED BY <1>3, <1>5, <1>6, <1>7 DEF SumsOK

\* what was not reset was empty
LEMMA ClearedSums ==
  ASSUME FlowAndMachine, NEW s \in Sub, SumsOK(s), NEW q, SCleared(sc[s], q)
  PROVE  NoSums(q)
<1> DEFINE r == sc[s]
<1>1. S(s) \in Cores /\ Rec(S(s)) = r
  BY CoreFacts, RecFacts
<1>2. /\ r.phase \in {F, B} /\ F # B
      /\ r.phase = B => \A u : HandledUnit("fwd", S(s), u) = {}
      /\ r.phase = F => /\ \A u : HandledUnit("bkp", S(s), u) = {}
                        /\ HandledKind("lds", S(s)) = {}
  BY <1>1, HandledPhase
<1>3. Cardinality({}) = 0
  BY FS_EmptySet
<1>4. SShape(r)
  BY DEF FlowAndMachine, MachineInv, ShapeOK
<1> HIDE DEF r
<1>5. /\ DOMAIN r.s_nets = Unit /\ DOMAIN r.s_errors = Unit
      /\ \A u \in Unit : /\ r.s_nets[u] = Parts(HandledUnit("fwd", S(s), u), Stamp(r))
                         /\ r.s_errors[u] = Parts(HandledUnit("bkp", S(s), u), Stamp(r))
      /\ r.s_lds_part = UnitParts(HandledKind("lds", S(s)), Stamp(r))
      /\ r.s_lds_arrived = Cardinality(HandledKind("lds", S(s)))
  BY DEF SumsOK, r
<1> HIDE DEF r
<1>6. sc[s] = r
  BY DEF r
<1>7. CASE r.phase = F
  <2>1. /\ q.s_nets = Nothing /\ q.s_errors = r.s_errors
        /\ q.s_lds_part = r.s_lds_part /\ q.s_lds_arrived = r.s_lds_arrived
    BY <1>6, <1>7 DEF SCleared
  <2>2. \A u \in Unit : r.s_errors[u] = EmptyBag
    BY <1>2, <1>5, <1>7, PartsNone
  <2>3. r.s_lds_part = EmptyBag /\ r.s_lds_arrived = 0
    BY <1>2, <1>3, <1>5, <1>7, PartsNone
  <2> QED BY <1>5, <2>1, <2>2, <2>3, NothingFacts DEF NoSums
<1>8. CASE r.phase # F
  <2>1. /\ q.s_nets = r.s_nets /\ q.s_errors = Nothing
        /\ q.s_lds_part = EmptyBag /\ q.s_lds_arrived = 0
    BY <1>6, <1>8 DEF SCleared
  <2>2. \A u \in Unit : r.s_nets[u] = EmptyBag
    BY <1>2, <1>5, <1>8, PartsNone
  <2> QED BY <1>5, <2>1, <2>2, NothingFacts DEF NoSums
<1> QED BY <1>7, <1>8

NoneHandledAll == \A s : NoneHandled(s)
\* as an operator, to be primed
LEMMA NoneHandledFact == NoneHandledAll
  BY NoneHandledSums DEF NoneHandledAll

\* A sum core advances to the next tick (sf_advance_tick, sb_advance_tick).
LEMMA SumsGo ==
  ASSUME FlowAndMachine, FlowAndMachine', [Flow!Next]_(Flow!vars),
         NEW p \in net, NEW s \in Sub, p.dst = S(s), SStop(p) \/ SSync(p),
         UNCHANGED <<wc, ic, tc>>, SumsOK(s)
  PROVE  SumsOK(s)'
<1> DEFINE a == p.dst
           r == sc[s]
           q == sc'[s]
<1>0. p.dst[2] = s
  BY CoresApart
<1>1. /\ p.kind \in {"stop", "sync"} /\ a[1] = "S" /\ net' = net \ {p}
      /\ p.kind = "stop" => sc' = [sc EXCEPT ![s] = sf_advance_tick(s, r, p.b)]
      /\ p.kind = "sync" => sc' = [sc EXCEPT ![s] = sb_advance_tick(s, r)]
  BY <1>0 DEF SStop, SSync
<1>2. a \in Cores /\ a = S(s) /\ DOMAIN sc = Sub /\ SShape(r)
  BY CoreFacts DEF FlowAndMachine, MachineInv, ShapeOK
<1>3. Rec(a) = r /\ Rec(a)' = q
  BY <1>2, RecFacts
<1>4. Others(a)
  BY <1>1, <1>2, CoresApart DEF Others
<1>5. Going(p)
  BY <1>1, <1>4 DEF Going
<1>6. /\ a \in Behind /\ a \notin Behind'
      /\ IF Rec(a).phase = F THEN p.kind = "stop" /\ p.b = tc[LastSub].tick_stop ELSE p.kind = "sync"
  BY <1>5, GoingFacts
<1>7. q = SAdvance(s, r, tc[LastSub].tick_stop)
  BY <1>1, <1>2, <1>3, <1>6 DEF SAdvance
<1>8. SCleared(r, q)
  BY <1>2, <1>7, SAdvanceSums
<1>9. NoSums(q)
  BY <1>8, ClearedSums
<1>10. Flow!Handled(S(s))' = {}
  <2>1. Flow!MayLeave(Place(r), tc[LastSub].tick_stop) /\ Flow!NextPlace(Place(r), tc[LastSub].tick_stop) = cur
    BY <1>3, <1>6, BehindFacts
  <2>2. Place(q) = cur
    BY <1>2, <1>7, <2>1, SAdvanceRecord
  <2>3. ~HandledSame(s) /\ \A l : ~NewlyHandled(s, l)
    <3>1. Place(q) # Place(r)
      BY <2>1, <2>2, MachineGraph, Flow!NextPlaceFacts
    <3> QED BY <3>1 DEF HandledSame, NewlyHandled
  <2> QED BY <2>3, HandledSteps
<1>11. NoSums(sc[s])'
  BY <1>9
<1>12. NoneHandled(s)'
  <2>1. NoneHandledAll'
    BY NoneHandledFact, PTL
  <2> QED BY <2>1 DEF NoneHandledAll
<1> QED BY <1>10, <1>11, <1>12 DEF NoneHandled

\* A sum core counts a sync generation packet (s_fsgn_packet, s_bsgn_packet),
LEMMA SumsSgn ==
  ASSUME FlowAndMachine, FlowAndMachine', [Flow!Next]_(Flow!vars),
         NEW p \in net, NEW s \in Sub, p.dst = S(s), SFsgn(p) \/ SBsgn(p), SumsOK(s)
  PROVE  SumsOK(s)'
<1> DEFINE r == sc[s]
<1>0. p.dst[2] = s
  BY CoresApart
<1>1. SShape(r) /\ DOMAIN sc = Sub
  BY DEF FlowAndMachine, MachineInv, ShapeOK
<1>2. DOMAIN r = StartFields \cup
       {"s_nets", "sf_arrived", "s_fsgn_arrived", "s_errors", "sb_arrived", "sb_done",
        "s_bsgn_arrived", "sb_thrds_pend", "s_lds_part", "s_lds_arrived"}
  BY <1>1 DEF SShape
<1>3. CASE SFsgn(p)
  <2>1. p.kind = "fsgn" /\ net \ {p} \subseteq net' /\ sc'[s] = [r EXCEPT !.s_fsgn_arrived = @ + 1]
    BY <1>0, <1>1, <1>3 DEF SFsgn
  <2>2. SameSums(sc[s], sc'[s]) /\ Stamp(sc'[s]) = Stamp(sc[s])
    BY <1>2, <2>1 DEF SameSums, Stamp, StartFields
  <2> QED BY <2>1, <2>2, SumsUntouched
<1>4. CASE SBsgn(p)
  <2> DEFINE r1 == [r EXCEPT !.s_bsgn_arrived = @ + 1]
  <2>1. /\ p.kind = "bsgn" /\ net \ {p} \subseteq net'
        /\ sc'[s] = IF r1.s_bsgn_arrived = bsgn_expected(s) THEN SBDone(r1, "BSGN") ELSE r1
    BY <1>0, <1>1, <1>4 DEF SBsgn
  <2>2. SameSums(r, r1) /\ Stamp(r1) = Stamp(r) /\ DOMAIN r1 = DOMAIN r
    BY <1>2 DEF SameSums, Stamp, StartFields
  <2> HIDE DEF r1
  <2>3. SameSums(r1, sc'[s]) /\ Stamp(sc'[s]) = Stamp(r1)
    <3>1. sc'[s] = r1 \/ sc'[s] = [r1 EXCEPT !.sb_thrds_pend = @ \ {"BSGN"}]
      BY <2>1 DEF SBDone
    <3> QED BY <1>2, <2>2, <3>1 DEF SameSums, Stamp, StartFields
  <2>4. SameSums(sc[s], sc'[s]) /\ Stamp(sc'[s]) = Stamp(sc[s])
    BY <2>2, <2>3 DEF SameSums
  <2> QED BY <2>1, <2>4, SumsUntouched
<1> QED BY <1>3, <1>4

\* or is told how the stage goes on (s_net_stop_packet).
LEMMA SumsNotice ==
  ASSUME FlowAndMachine, FlowAndMachine', [Flow!Next]_(Flow!vars),
         NEW p \in net, NEW s \in Sub, p.dst = S(s), SNetStop(p), SumsOK(s)
  PROVE  SumsOK(s)'
<1>0. p.dst[2] = s
  BY CoresApart
<1>1. SShape(sc[s]) /\ DOMAIN sc = Sub
  BY DEF FlowAndMachine, MachineInv, ShapeOK
<1>2. p.kind = "stpn" /\ net \ {p} \subseteq net' /\ sc'[s] = NetStop(sc[s], p.b)
  BY <1>0, <1>1 DEF SNetStop
<1>3. NetStopOf(sc[s], p.b, sc'[s]) /\ StartFields \subseteq DOMAIN sc[s]
  BY <1>1, <1>2, NetStopFacts DEF SShape
<1>4. Frame(sc[s], sc'[s], NetStopFields)
  BY <1>3 DEF NetStopOf
<1>5. SameSums(sc[s], sc'[s]) /\ Stamp(sc'[s]) = Stamp(sc[s])
  BY <1>1, <1>4 DEF Frame, SameSums, Stamp, SShape, StartFields, NetStopFields
<1> QED BY <1>2, <1>5, SumsUntouched

(***************************************************************************)
(* Every step of the machine, for the sum cores.                           *)
(***************************************************************************)
\* Only a sum core takes what is addressed to it.
LeavesSums ==
  sc' = sc /\ \A p \in net : p.dst[1] = "S" => p \in net'

TakesOne(p) ==
  /\ SPacket(p) /\ UNCHANGED <<wc, ic, tc>> /\ net \ {p} \subseteq net'
  /\ \A t \in Sub : t # p.dst[2] => sc'[t] = sc[t]

\* Every step leaves the sum cores alone or is a handler of one of them.
LEMMA SPacketsStay ==
  ASSUME [Next]_vars, DOMAIN sc = Sub
  PROVE  LeavesSums \/ \E p \in net : TakesOne(p)
<1>1. CASE WNext /\ UNCHANGED <<sc, ic, tc>>
  <2>1. CASE \E c \in WCores : WProcess(c)
    BY <1>1, <2>1 DEF WProcess, LeavesSums
  <2>2. ASSUME NEW p \in net, WPacket(p)
        PROVE  LeavesSums
    <3>1. p.dst \in WCores /\ net \ {p} \subseteq net'
      BY <2>2 DEF WPacket, WLdsa, WForward, WBackprop, WStop, WSync, WNetStop
    <3>2. p.dst[1] = "W"
      BY <3>1 DEF WCores, W
    <3> QED BY <1>1, <3>1, <3>2, CoresApart DEF LeavesSums
  <2> QED BY <1>1, <2>1, <2>2 DEF WNext
<1>2. CASE SNext /\ UNCHANGED <<wc, ic, tc>>
  <2>1. ASSUME NEW p \in net, SPacket(p)
        PROVE  TakesOne(p)
    <3>1. net \ {p} \subseteq net'
      BY <2>1 DEF SPacket, SForward, SBackprop, SLds, SFsgn, SBsgn, SStop, SSync, SNetStop
    <3>2. \E x : sc' = [sc EXCEPT ![p.dst[2]] = x]
      <4>1. CASE SForward(p)
        BY <4>1, Zenon DEF SForward
      <4>2. CASE SBackprop(p)
        BY <4>2, Zenon DEF SBackprop
      <4>3. CASE SLds(p)
        BY <4>3, Zenon DEF SLds
      <4>4. CASE SFsgn(p)
        BY <4>4, Zenon DEF SFsgn
      <4>5. CASE SBsgn(p)
        BY <4>5, Zenon DEF SBsgn
      <4>6. CASE SStop(p)
        BY <4>6, Zenon DEF SStop
      <4>7. CASE SSync(p)
        BY <4>7, Zenon DEF SSync
      <4>8. CASE SNetStop(p)
        BY <4>8, Zenon DEF SNetStop
      <4> QED BY <2>1, <4>1, <4>2, <4>3, <4>4, <4>5, <4>6, <4>7, <4>8 DEF SPacket
    <3> QED BY <1>2, <2>1, <3>1, <3>2 DEF TakesOne
  <2> QED BY <1>2, <2>1 DEF SNext
<1>3. CASE INext /\ UNCHANGED <<wc, sc, tc>>
  <2>1. ASSUME NEW p \in net, IPacket(p)
        PROVE  LeavesSums
    <3>1. p.dst[1] = "I" /\ net \ {p} \subseteq net'
      BY <2>1 DEF IPacket, IForward, IBackprop, IStop, ISync, INetStop
    <3> QED BY <1>3, <3>1 DEF LeavesSums
  <2> QED BY <1>3, <2>1 DEF INext
<1>4. CASE TNext /\ UNCHANGED <<wc, sc, ic>>
  <2>1. CASE TAdvance
    BY <1>4, <2>1 DEF TAdvance, LeavesSums
  <2>2. CASE \E s \in Sub : TProcess(s)
    BY <1>4, <2>2 DEF TProcess, LeavesSums
  <2>3. ASSUME NEW p \in net, TPacket(p)
        PROVE  LeavesSums
    <3>1. p.dst[1] = "T" /\ net \ {p} \subseteq net'
      BY <2>3 DEF TPacket, TForward, TCrit, TFsgn, TError, TBsgn, TStop, TSync, TNetStop
    <3> QED BY <1>4, <3>1 DEF LeavesSums
  <2> QED BY <1>4, <2>1, <2>2, <2>3 DEF TNext
<1>5. CASE UNCHANGED vars
  BY <1>5 DEF vars, LeavesSums
<1> QED BY <1>1, <1>2, <1>3, <1>4, <1>5 DEF Next, Terminated

\* The handler of a sum core, for its own sums,
LEMMA SumsTakes ==
  ASSUME AllTimely, FlowAndMachine, FlowAndMachine', [Flow!Next]_(Flow!vars),
         NEW p \in net, TakesOne(p), NEW s \in Sub, p.dst = S(s), SumsOK(s)
  PROVE  SumsOK(s)'
<1>1. SPacket(p) /\ UNCHANGED <<wc, ic, tc>> /\ net \ {p} \subseteq net'
  BY DEF TakesOne
<1>2. CASE SForward(p)
  BY <1>1, <1>2, SumsForward
<1>3. CASE SBackprop(p)
  BY <1>1, <1>3, SumsBackprop
<1>4. CASE SLds(p)
  BY <1>1, <1>4, SumsLds
<1>5. CASE SFsgn(p) \/ SBsgn(p)
  BY <1>5, SumsSgn
<1>6. CASE SStop(p) \/ SSync(p)
  BY <1>1, <1>6, SumsGo
<1>7. CASE SNetStop(p)
  BY <1>7, SumsNotice
<1> QED BY <1>1, <1>2, <1>3, <1>4, <1>5, <1>6, <1>7 DEF SPacket

\* and any step, for those of all.
LEMMA SumsStep ==
  ASSUME AllTimely, LongPhases, FlowAndMachine, SumsInv, [Next]_vars
  PROVE  SumsInv'
<1>1. FlowAndMachine' /\ [Flow!Next]_(Flow!vars)
  BY StepFlow
<1>2. DOMAIN sc = Sub
  BY DEF FlowAndMachine, MachineInv, ShapeOK
<1>3. ASSUME NEW s \in Sub
      PROVE  SumsOK(s)'
  <2>1. SumsOK(s)
    BY DEF SumsInv
  <2>2. CASE LeavesSums
    <3>1. sc'[s] = sc[s] /\ \A q \in net : q.dst = S(s) => q \in net'
      BY <2>2, CoresApart DEF LeavesSums
    <3> QED BY <1>1, <2>1, <3>1, SumsElsewhere
  <2>3. ASSUME NEW p \in net, TakesOne(p)
        PROVE  SumsOK(s)'
    <3>1. CASE p.dst = S(s)
      BY <1>1, <2>1, <2>3, <3>1, SumsTakes
    <3>2. CASE p.dst # S(s)
      <4>1. p.dst[1] = "S"
        BY <2>3 DEF TakesOne, SPacket, SForward, SBackprop, SLds, SFsgn, SBsgn, SStop, SSync, SNetStop
      <4>2. p.dst \in Cores
        BY DEF FlowAndMachine, MachineInv, NetOK, PacketOK
      <4>3. p.dst[2] # s
        BY <3>2, <4>1, <4>2, CoreKinds
      <4>4. sc'[s] = sc[s] /\ net \ {p} \subseteq net'
        BY <2>3, <4>3 DEF TakesOne
      <4> QED BY <1>1, <2>1, <3>2, <4>4, SumsElsewhere
    <3> QED BY <3>1, <3>2
  <2> QED BY <1>2, <2>2, <2>3, SPacketsStay
<1> QED BY <1>3 DEF SumsInv

\* At the start of a stage nothing has been added up.
LEMMA InitSums == Init => SumsInv
<1> SUFFICES ASSUME Init, NEW s \in Sub
             PROVE  SumsOK(s)
  BY DEF SumsInv
<1>0. PICK r : r = sc[s]
  OBVIOUS
<1> DEFINE own == [s_nets |-> Nothing, sf_arrived |-> NoneArrived, s_fsgn_arrived |-> 0,
      s_errors |-> Nothing, sb_arrived |-> NoneArrived, sb_done |-> 0,
      s_bsgn_arrived |-> 0, sb_thrds_pend |-> sb_thrds_init(s),
      s_lds_part |-> EmptyBag, s_lds_arrived |-> 0]
<1>1. r = Starting(own)
  BY <1>0 DEF Init, SInit, SInitRecord
<1>2. /\ DOMAIN own = {"s_nets", "sf_arrived", "s_fsgn_arrived", "s_errors", "sb_arrived",
                       "sb_done", "s_bsgn_arrived", "sb_thrds_pend", "s_lds_part",
                       "s_lds_arrived"}
      /\ own.s_nets = Nothing /\ own.s_errors = Nothing
      /\ own.s_lds_part = EmptyBag /\ own.s_lds_arrived = 0
  OBVIOUS
<1> HIDE DEF own
<1>3. DOMAIN own \cap StartFields = {}
  BY <1>2 DEF StartFields
<1>4. /\ DOMAIN r = StartFields \cup DOMAIN own
      /\ \A f \in DOMAIN own : r[f] = own[f]
  <2>1. DOMAIN Start = StartFields
    BY DEF Start, StartFields
  <2> QED BY <1>1, <1>3, <2>1 DEF Starting
<1>5. NoSums(r)
  BY <1>2, <1>4, NothingFacts DEF NoSums
<1>6. Flow!Handled(S(s)) = {}
  <2>1. Got = {} /\ Behind = {}
    BY InitFlow DEF Flow!Init
  <2> QED BY <2>1 DEF Flow!Handled
<1> QED BY <1>0, <1>5, <1>6, NoneHandledSums DEF NoneHandled

(***************************************************************************)
(* What a full scoreboard says.                                            *)
(***************************************************************************)
LEMMA FullNets ==
  ASSUME FlowAndMachine, NEW s \in Sub, NEW u \in Unit
  PROVE  /\ sc[s].sf_arrived[u] = fwd_expected => HandledUnit("fwd", S(s), u) = IntoUnit("fwd", S(s), u)
         /\ sc[s].sb_arrived[u] = bkp_expected => HandledUnit("bkp", S(s), u) = IntoUnit("bkp", S(s), u)
<1> DEFINE a == S(s)
           r == sc[s]
<1>1. a \in Cores /\ Rec(a) = r /\ SCoreOK(s)
  BY CoreFacts, RecFacts DEF FlowAndMachine, MachineInv, CoresOK
<1>2. r.phase \in {F, B} /\ F # B
  BY <1>1, HandledPhase
<1>3. NoneArrived[u] = 0 /\ fwd_expected # 0 /\ bkp_expected # 0
  BY ExpectedFacts DEF NoneArrived
<1>4. /\ Counts(IntoUnit("fwd", a, u), fwd_expected)
      /\ Counts(IntoUnit("bkp", a, u), bkp_expected)
  BY CountsS
<1>5. /\ r.sf_arrived[u] = fwd_expected => r.phase = F
      /\ r.sb_arrived[u] = bkp_expected => r.phase = B
  BY <1>1, <1>2, <1>3 DEF SCoreOK
<1>6. a \notin Behind =>
        /\ r.sf_arrived[u] = Cardinality(HandledUnit("fwd", a, u))
        /\ r.sb_arrived[u] = Cardinality(HandledUnit("bkp", a, u))
        /\ HandledUnit("fwd", a, u) = IntoUnit("fwd", a, u) \cap Got
        /\ HandledUnit("bkp", a, u) = IntoUnit("bkp", a, u) \cap Got
  BY <1>1, HandledKinds, BoardsCountFact DEF BoardsCount, SBoardsCount
<1>7. a \in Behind => Flow!Handled(a) = {l \in LinksOf(Place(r)) : l[3] = a}
  BY <1>1, HandledFacts
<1>8. /\ r.phase = F => LinksOf(Place(r)) = ForwardLinks
      /\ r.phase = B => BackpropLinks \subseteq LinksOf(Place(r)) /\ LinksOf(Place(r)) \subseteq AllLinks
  BY <1>2 DEF LinksOf, Place, AllLinks
<1>9. /\ IntoUnit("fwd", a, u) = {l \in ForwardLinks : l[1] = "fwd" /\ l[3] = a /\ l[4] = u}
      /\ IntoUnit("bkp", a, u) = {l \in BackpropLinks : l[1] = "bkp" /\ l[3] = a /\ l[4] = u}
  BY LinkClass DEF IntoUnit, AllLinks
<1> HIDE DEF a, r
<1>10. ASSUME r.sf_arrived[u] = fwd_expected
       PROVE  HandledUnit("fwd", a, u) = IntoUnit("fwd", a, u)
  <2>1. CASE a \in Behind
    BY <1>5, <1>7, <1>8, <1>9, <1>10, <2>1 DEF HandledUnit
  <2>2. CASE a \notin Behind
    <3>1. Cardinality(IntoUnit("fwd", a, u) \cap Got) = Cardinality(IntoUnit("fwd", a, u))
      BY <1>4, <1>6, <1>10, <2>2 DEF Counts
    <3>2. IntoUnit("fwd", a, u) \subseteq Got
      BY <1>4, <3>1, CountFull DEF Counts
    <3> QED BY <1>6, <2>2, <3>2
  <2> QED BY <2>1, <2>2
<1>11. ASSUME r.sb_arrived[u] = bkp_expected
       PROVE  HandledUnit("bkp", a, u) = IntoUnit("bkp", a, u)
  <2>1. CASE a \in Behind
    <3>1. HandledUnit("bkp", a, u) = {l \in LinksOf(Place(r)) : l[3] = a /\ l[1] = "bkp" /\ l[4] = u}
      BY <1>7, <2>1 DEF HandledUnit
    <3>2. BackpropLinks \subseteq LinksOf(Place(r)) /\ LinksOf(Place(r)) \subseteq AllLinks
      BY <1>5, <1>8, <1>11
    <3> QED BY <1>9, <3>1, <3>2 DEF IntoUnit
  <2>2. CASE a \notin Behind
    <3>1. Cardinality(IntoUnit("bkp", a, u) \cap Got) = Cardinality(IntoUnit("bkp", a, u))
      BY <1>4, <1>6, <1>11, <2>2 DEF Counts
    <3>2. IntoUnit("bkp", a, u) \subseteq Got
      BY <1>4, <3>1, CountFull DEF Counts
    <3> QED BY <1>6, <2>2, <3>2
  <2> QED BY <2>1, <2>2
<1> QED BY <1>10, <1>11 DEF a, r

\* The bags of SumsExact,
LEMMA InvSumsExact == FlowAndMachine /\ SumsInv => SumsExact
<1> SUFFICES ASSUME FlowAndMachine, SumsInv, NEW s \in Sub, NEW u \in Unit
             PROVE  LET r == sc[s] IN
                    /\ r.sf_arrived[u] = fwd_expected =>
                         r.s_nets[u] = SetToBag({<<W(s, from), Stamp(r)>> : from \in Sub})
                    /\ r.sb_arrived[u] = bkp_expected =>
                         r.s_errors[u] = SetToBag({<<W(to, s), Stamp(r)>> : to \in Sub})
  BY DEF SumsExact
<1> DEFINE r == sc[s]
           st == Stamp(sc[s])
<1>1. /\ r.s_nets[u] = Parts(HandledUnit("fwd", S(s), u), st)
      /\ r.s_errors[u] = Parts(HandledUnit("bkp", S(s), u), st)
  BY DEF SumsInv, SumsOK
<1> HIDE DEF st
<1>2. ASSUME r.sf_arrived[u] = fwd_expected
      PROVE  r.s_nets[u] = SetToBag({<<W(s, from), st>> : from \in Sub})
  <2>1. HandledUnit("fwd", S(s), u) = {FwdWS(s, from, u) : from \in Sub}
    BY <1>2, FullNets, IntoS
  <2>2. {<<l[2], st>> : l \in {FwdWS(s, from, u) : from \in Sub}} = {<<W(s, from), st>> : from \in Sub}
    BY LinkTable
  <2> QED BY <1>1, <2>1, <2>2 DEF Parts
<1>3. ASSUME r.sb_arrived[u] = bkp_expected
      PROVE  r.s_errors[u] = SetToBag({<<W(to, s), st>> : to \in Sub})
  <2>1. HandledUnit("bkp", S(s), u) = {BkpWS(to, s, u) : to \in Sub}
    BY <1>3, FullNets, IntoS
  <2>2. {<<l[2], st>> : l \in {BkpWS(to, s, u) : to \in Sub}} = {<<W(to, s), st>> : to \in Sub}
    BY LinkTable
  <2> QED BY <1>1, <2>1, <2>2 DEF Parts
<1> QED BY <1>2, <1>3 DEF st

\* and that of LdsExact.
LEMMA InvLdsExact == FlowAndMachine /\ SumsInv => LdsExact
<1> SUFFICES ASSUME FlowAndMachine, SumsInv, NEW s \in Sub, sc[s].s_lds_arrived = lds_expected(s)
             PROVE  sc[s].s_lds_part = SetToBag({x \in Feeders(s) \X Unit \X {Stamp(sc[s])} :
                                                   x[1][1] = "W" \/ x[2] = 0})
  BY DEF LdsExact
<1> DEFINE H == HandledKind("lds", S(s))
           X == Into({"lds"}, S(s))
           st == Stamp(sc[s])
<1>1. sc[s].s_lds_part = UnitParts(H, st) /\ sc[s].s_lds_arrived = Cardinality(H)
  BY DEF SumsInv, SumsOK
<1>2. S(s) \in Cores /\ H \subseteq X
  BY CoreFacts, HandledKinds
<1>3. IsFiniteSet(X) /\ Cardinality(X) = lds_expected(s)
  BY CountsS DEF Counts
<1>4. X = {LdsW(s, from, u) : from \in Sub, u \in Unit} \cup {LdsS(x, S(s)) : x \in RootsTo(s)}
  BY IntoS
<1> HIDE DEF H, X, st
<1>5. H = X
  <2>1. X \cap H = H
    BY <1>2
  <2>2. X \subseteq H
    BY <1>1, <1>3, <2>1, CountFull
  <2> QED BY <1>2, <2>2
<1>6. RootsTo(s) = {x \in Sub : FsgRoute(x) = {S(s)}}
  BY FsgRouteFacts, LastSubFacts, CoresApart DEF RootsTo, LastT
<1>7. {<<l[2], l[4], st>> : l \in X} = {x \in Feeders(s) \X Unit \X {st} : x[1][1] = "W" \/ x[2] = 0}
  <2> DEFINE Y == {x \in Feeders(s) \X Unit \X {st} : x[1][1] = "W" \/ x[2] = 0}
  <2>1. ASSUME NEW l \in X
        PROVE  <<l[2], l[4], st>> \in Y
    <3>1. CASE \E from \in Sub, u \in Unit : l = LdsW(s, from, u)
      BY <3>1, LinkTable, CoresApart DEF Feeders
    <3>2. CASE \E x \in RootsTo(s) : l = LdsS(x, S(s))
      BY <1>6, <3>2, LinkTable, UnitFacts DEF Feeders
    <3> QED BY <1>4, <2>1, <3>1, <3>2
  <2>2. ASSUME NEW y \in Y
        PROVE  \E l \in X : y = <<l[2], l[4], st>>
    <3>1. PICK f \in Feeders(s), u \in Unit : y = <<f, u, st>> /\ (f[1] = "W" \/ u = 0)
      OBVIOUS
    <3>2. CASE \E from \in Sub : f = W(s, from)
      <4>1. PICK from \in Sub : f = W(s, from)
        BY <3>2
      <4>2. LdsW(s, from, u) \in X /\ LdsW(s, from, u)[2] = f /\ LdsW(s, from, u)[4] = u
        BY <1>4, <4>1, LinkTable
      <4> QED BY <3>1, <4>2
    <3>3. CASE \E t \in RootsTo(s) : f = S(t)
      <4>1. PICK t \in RootsTo(s) : f = S(t)
        BY <3>3
      <4>2. LdsS(t, S(s)) \in X /\ LdsS(t, S(s))[2] = f /\ LdsS(t, S(s))[4] = 0 /\ f[1] = "S"
        BY <1>4, <4>1, LinkTable, CoresApart
      <4> QED BY <3>1, <4>2
    <3> QED BY <1>6, <3>1, <3>2, <3>3 DEF Feeders
  <2> QED BY <2>1, <2>2
<1> QED BY <1>1, <1>5, <1>7 DEF UnitParts, st

(***************************************************************************)
(* Sums are exact.                                                         *)
(***************************************************************************)
\* What a sum core has added up is what it has handled in the tick it is in,
\* of every link once: sf_tick_init and sb_tick_init clear what the tick needs
\* cleared, and the counters of the scoreboards and the sums are never apart.
THEOREM SumsInvariant ==
  ASSUME AllTimely, LongPhases
  PROVE  Spec => [](FlowAndMachine /\ SumsInv)
<1>1. Init => FlowAndMachine /\ SumsInv
  BY InitInv, InitSums
<1>2. FlowAndMachine /\ SumsInv /\ [Next]_vars => (FlowAndMachine /\ SumsInv)'
  BY StepFlow, SumsStep
<1> QED BY <1>1, <1>2, PTL DEF Spec

\* A sum core that sends a net or an error on (sf_process, sb_process) sends the
\* sum of exactly one partial product of each weight core, all of this tick.
THEOREM SumsAreExact ==
  ASSUME AllTimely, LongPhases
  PROVE  Spec => []SumsExact
  BY SumsInvariant, InvSumsExact, PTL

\* A sum core that passes its link delta sum on (s_lds_packet) has got every
\* partial sum of its weight cores, and those of the roots below it, once and all
\* of this tick.
THEOREM LinkDeltaSumsExact ==
  ASSUME AllTimely, LongPhases
  PROVE  Spec => []LdsExact
  BY SumsInvariant, InvLdsExact, PTL
=============================================================================
