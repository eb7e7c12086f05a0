--------------------------- MODULE TickFlowProofs ---------------------------
(***************************************************************************)
(* The invariant of TickFlow, and that it implements TickBarrier, for      *)
(* every graph that satisfies FlowAssumption.                              *)
(***************************************************************************)
EXTENDS TickFlow, TLAPS

(***************************************************************************)
(* Places.                                                                 *)
(***************************************************************************)
LEMMA PlaceFacts ==
  ASSUME NEW e \in 0 .. NumEpochs, NEW x \in 0 .. NumExamples - 1, NEW f \in Phases,
         NEW t \in 1 .. NumTicks, NEW v \in 0 .. NumEvents
  PROVE  <<e, x, f, t, v>> \in Places /\ Stamp(<<e, x, f, t, v>>) = <<e, x, f, t>>
  BY DEF Places, Stamp

\* From a place that may be left the next one is a place of the stage.
LEMMA NextPlaceFacts ==
  ASSUME FlowAssumption(Places), NEW p, NEW b, MayLeave(p, b)
  PROVE  /\ NextPlace(p, b) \in Places
         /\ NextPlace(p, b)[3] = "F" => NextPlace(p, b)[5] < NumEvents
         /\ NextPlace(p, b)[1] < NumEpochs \/ EpochOver(NextPlace(p, b))
         /\ Stamp(NextPlace(p, b)) # Stamp(p)
<1>1. PICK e \in 0 .. NumEpochs, x \in 0 .. NumExamples - 1, f \in Phases,
           t \in 1 .. NumTicks, v \in 0 .. NumEvents : p = <<e, x, f, t, v>>
  BY DEF MayLeave, Places
<1>2. p[1] = e /\ p[2] = x /\ p[3] = f /\ p[4] = t /\ p[5] = v
  BY <1>1
<1>3. e < NumEpochs /\ (f = "F" => v < NumEvents) /\ (f = "F" /\ t = NumTicks => b)
  BY <1>2 DEF MayLeave
<1>4. NumEpochs \in Nat \ {0} /\ NumExamples \in Nat \ {0}
        /\ NumEvents \in Nat \ {0} /\ NumTicks \in Nat \ {0}
  BY DEF FlowAssumption
<1>5. PICK q : q = NextExample(p)
  OBVIOUS
<1>6. /\ q \in Places /\ q[3] = "F" /\ q[5] = 0
      /\ q[1] < NumEpochs \/ EpochOver(q)
      /\ Stamp(q) # Stamp(p)
  <2>1. CASE x + 1 = NumExamples
    <3>1. q = <<e + 1, 0, "F", 1, 0>>
      BY <1>2, <1>5, <2>1 DEF NextExample
    <3> QED BY <1>2, <1>3, <1>4, <3>1 DEF Places, Phases, Stamp, EpochOver
  <2>2. CASE x + 1 # NumExamples
    <3>1. q = <<e, x + 1, "F", 1, 0>>
      BY <1>2, <1>5, <2>2 DEF NextExample
    <3> QED BY <1>2, <1>3, <1>4, <2>2, <3>1 DEF Places, Phases, Stamp, EpochOver
  <2> QED BY <2>1, <2>2
<1>7. CASE NextPlace(p, b) = q
  BY <1>4, <1>6, <1>7
<1>8. CASE NextPlace(p, b) # q
  <2>1. CASE f = "B"
    <3>1. t # 1 /\ NextPlace(p, b) = <<e, x, "B", t - 1, v>>
      BY <1>2, <1>5, <1>8, <2>1 DEF NextPlace
    <3> QED BY <1>2, <1>3, <1>4, <2>1, <3>1 DEF Places, Phases, Stamp
  <2>2. CASE f = "F" /\ ~b
    <3>1. NextPlace(p, b) = <<e, x, "F", t + 1, v>>
      BY <1>2, <2>2 DEF NextPlace
    <3> QED BY <1>2, <1>3, <1>4, <2>2, <3>1 DEF Places, Phases, Stamp
  <2>3. CASE f = "F" /\ b /\ ~EndOfForward(p)
    <3>1. NextPlace(p, b) = <<e, x, "F", t + 1, v + 1>>
      BY <1>2, <2>3 DEF NextPlace
    <3>2. v + 1 < NumEvents /\ t # NumTicks
      BY <1>2, <1>4, <2>3 DEF EndOfForward
    <3>3. v + 1 \in 0 .. NumEvents /\ t + 1 \in 1 .. NumTicks
      BY <1>4, <3>2
    <3>4. "F" \in Phases
      BY DEF Phases
    <3>5. NextPlace(p, b) \in Places /\ Stamp(NextPlace(p, b)) = <<e, x, "F", t + 1>>
      BY <3>1, <3>3, <3>4, PlaceFacts
    <3>6. Stamp(p) = <<e, x, "F", t>>
      BY <1>1, <2>3, PlaceFacts
    <3>7. NextPlace(p, b)[5] = v + 1 /\ NextPlace(p, b)[1] = e
      BY <3>1
    <3> QED BY <1>3, <1>4, <3>2, <3>5, <3>6, <3>7
  <2>4. CASE f = "F" /\ b /\ EndOfForward(p)
    <3>1. NextPlace(p, b) = <<e, x, "B", t, v + 1>>
      BY <1>2, <1>5, <1>8, <2>4 DEF NextPlace
    <3>2. v + 1 \in 0 .. NumEvents
      BY <1>3, <1>4, <2>4
    <3>4. "B" \in Phases
      BY DEF Phases
    <3>5. NextPlace(p, b) \in Places /\ Stamp(NextPlace(p, b)) = <<e, x, "B", t>>
      BY <3>1, <3>2, <3>4, PlaceFacts
    <3>6. Stamp(p) = <<e, x, "F", t>>
      BY <1>1, <2>4, PlaceFacts
    <3>7. NextPlace(p, b)[3] = "B" /\ NextPlace(p, b)[1] = e
      BY <3>1
    <3> QED BY <1>3, <1>4, <3>5, <3>6, <3>7
  <2> QED BY <2>1, <2>2, <2>3, <2>4 DEF Phases
<1> QED BY <1>7, <1>8

\* The next place is of a later tick: the example is a later one, or the phase
\* is, or the tick, counted up in FORWARD and down in BACKPROP.
LEMMA NextPlaceLater ==
  ASSUME FlowAssumption(Places), NEW p, NEW b, MayLeave(p, b),
         NEW q, q = NextPlace(p, b)
  PROVE  \/ q[1] > p[1]
         \/ q[1] = p[1] /\ q[2] > p[2]
         \/ q[1] = p[1] /\ q[2] = p[2] /\ q[3] = "B" /\ p[3] = "F"
         \/ q[1] = p[1] /\ q[2] = p[2] /\ q[3] = p[3]
              /\ IF q[3] = "F" THEN q[4] > p[4] ELSE q[4] < p[4]
<1>1. PICK e \in 0 .. NumEpochs, x \in 0 .. NumExamples - 1, f \in Phases,
           t \in 1 .. NumTicks, v \in 0 .. NumEvents : p = <<e, x, f, t, v>>
  BY DEF MayLeave, Places
<1>2. p[1] = e /\ p[2] = x /\ p[3] = f /\ p[4] = t /\ p[5] = v
  BY <1>1
<1>3. e \in Int /\ x \in Int /\ t \in Int
  BY DEF FlowAssumption
<1>4. CASE q = NextExample(p)
  <2>1. q = <<e + 1, 0, "F", 1, 0>> \/ q = <<e, x + 1, "F", 1, 0>>
    BY <1>2, <1>4, Zenon DEF NextExample
  <2>2. q[1] = e + 1 \/ (q[1] = e /\ q[2] = x + 1)
    BY <2>1
  <2> QED BY <1>2, <1>3, <2>2
<1>5. CASE f = "B" /\ q # NextExample(p)
  <2>1. q = <<e, x, "B", t - 1, v>>
    BY <1>2, <1>5, Zenon DEF NextPlace
  <2> QED BY <1>2, <1>3, <1>5, <2>1
<1>6. CASE f = "F" /\ q # NextExample(p)
  <2>1. q = <<e, x, "F", t + 1, v>> \/ q = <<e, x, "F", t + 1, v + 1>>
          \/ q = <<e, x, "B", t, v + 1>>
    BY <1>2, <1>6, Zenon DEF NextPlace
  <2>2. q[1] = e /\ q[2] = x /\ ((q[3] = "F" /\ q[4] = t + 1) \/ q[3] = "B")
    BY <2>1
  <2> QED BY <1>2, <1>3, <1>6, <2>2
<1> QED BY <1>4, <1>5, <1>6 DEF Phases

\* The first tick of the stage is not come back to.
LEMMA NotFirstAgain ==
  ASSUME FlowAssumption(Places), NEW p, NEW b, MayLeave(p, b)
  PROVE  Stamp(NextPlace(p, b)) # Stamp(First)
<1>1. PICK e \in 0 .. NumEpochs, x \in 0 .. NumExamples - 1, f \in Phases,
           t \in 1 .. NumTicks, v \in 0 .. NumEvents : p = <<e, x, f, t, v>>
  BY DEF MayLeave, Places
<1>2. p[1] = e /\ p[2] = x /\ p[3] = f /\ p[4] = t /\ p[5] = v
  BY <1>1
<1>3. NumEpochs \in Nat /\ NumExamples \in Nat /\ NumTicks \in Nat
  BY DEF FlowAssumption
<1>4. \/ NextPlace(p, b) = <<e + 1, 0, "F", 1, 0>> \/ NextPlace(p, b) = <<e, x + 1, "F", 1, 0>>
      \/ \E w, k : NextPlace(p, b) = <<e, x, "B", k, w>>
      \/ \E w : NextPlace(p, b) = <<e, x, "F", t + 1, w>>
  BY <1>2, Zenon DEF NextPlace, NextExample
<1>5. e \in Nat /\ x \in Nat /\ t \in Nat /\ t # 0
  BY <1>3
<1> QED BY <1>4, <1>5 DEF Stamp, First

\* The stage starts in a place.
LEMMA FirstFacts ==
  ASSUME FlowAssumption(Places)
  PROVE  First \in Places /\ First[3] = "F" /\ First[5] < NumEvents /\ First[1] < NumEpochs
  BY DEF FlowAssumption, First, Places, Phases

(***************************************************************************)
(* When the last T has handled all it waits for, all is handled.           *)
(***************************************************************************)
LEMMA TickComplete ==
  ASSUME FlowAssumption(Places), FlowInv, NEW l \in sent, l[3] \notin behind,
         Final[cur] \subseteq got \cup {l}
  PROVE  got \cup {l} = Links[cur] /\ sent = Links[cur] /\ behind = {}
<1>1. cur \in Places
  BY DEF FlowInv, RangeOK
<1>2. got \cup {l} \subseteq sent /\ sent \subseteq Links[cur]
  BY DEF FlowInv, FlowOK
<1>3. \A x \in got \cup {l} : Deps[x] \cap Links[cur] \subseteq got \cup {l}
  BY <1>2 DEF FlowInv, FlowOK
<1>4. got \cup {l} = Links[cur]
  BY <1>1, <1>2, <1>3 DEF FlowAssumption
<1>5. ASSUME NEW c \in behind
      PROVE  FALSE
  <2>1. c \in Cores
    BY DEF FlowInv, TypeOK
  <2>2. PICK x \in Links[cur] : x[2] = c \/ x[3] = c
    BY <1>1, <2>1 DEF FlowAssumption
  <2>3. x \in got \cup {l}
    BY <1>4
  <2>4. x \in sent
    BY <1>2, <2>3
  <2> QED BY <2>2, <2>3, <2>4 DEF FlowInv, FlowOK
<1> QED BY <1>2, <1>4, <1>5

(***************************************************************************)
(* The invariant.                                                          *)
(***************************************************************************)
LEMMA InitInv == FlowAssumption(Places) /\ Init => FlowInv
<1> SUFFICES ASSUME FlowAssumption(Places), Init PROVE FlowInv
  OBVIOUS
<1>1. \A c \in Cores : place[c] = First
  BY DEF Init
<1>2. cur = First
  BY <1>1 DEF FlowAssumption, Init, cur
<1>3. TypeOK
  BY FirstFacts DEF Init, TypeOK
<1>4. PlaceOK /\ RangeOK
  BY <1>1, <1>2, FirstFacts DEF Init, PlaceOK, RangeOK
<1>5. FlowOK /\ StageOK
  BY DEF Init, FlowOK, StageOK
<1> QED BY <1>3, <1>4, <1>5 DEF FlowInv

\* Packets that become due, and at most one that is handled.
LEMMA SendsInv ==
  ASSUME FlowAssumption(Places), FlowInv, Sends, got \subseteq got', got' \subseteq sent,
         \A l \in got' : l[3] \notin behind
  PROVE  FlowInv'
<1>1. cur' = cur
  BY DEF Sends, cur
<1>2. TypeOK' /\ PlaceOK' /\ RangeOK'
  BY <1>1 DEF Sends, stage, FlowInv, TypeOK, PlaceOK, RangeOK
<1>3. FlowOK'
  BY <1>1 DEF Sends, FlowInv, FlowOK
<1>4. StageOK'
  BY <1>1 DEF Sends, stage, FlowInv, StageOK
<1> QED BY <1>2, <1>3, <1>4 DEF FlowInv

\* The last T ends the tick: all packets have been sent and handled
\* (NothingLeft).
LEMMA DecideInv ==
  ASSUME FlowAssumption(Places), FlowInv, NEW l \in sent, l[3] \notin behind, Decide(l)
  PROVE  FlowInv'
<1>1. behind = {} /\ behind' = Cores /\ place' = place /\ stop' \in BOOLEAN
  BY TickComplete DEF Decide, FlowInv, TypeOK
<1>2. LastT \in Cores /\ cur = place[LastT] /\ cur \in Places /\ cur[1] < NumEpochs
  BY <1>1 DEF FlowAssumption, cur, FlowInv, RangeOK, StageOK
<1>3. cur' = NextPlace(cur, stop')
  BY <1>1, <1>2 DEF cur
<1>4. MayLeave(cur, stop')
  BY <1>1, <1>2 DEF Decide, MayLeave, FlowInv, RangeOK
<1>5. \A c \in Cores : place[c] = cur
  BY <1>1 DEF FlowInv, PlaceOK
<1>6. TypeOK' /\ PlaceOK'
  BY <1>1, <1>3, <1>5 DEF Decide, stage, FlowInv, TypeOK, PlaceOK
<1>7. RangeOK'
  BY <1>1, <1>2, <1>3, <1>4, <1>5, NextPlaceFacts DEF FlowInv, RangeOK
<1>8. FlowOK'
  BY DEF Decide, FlowOK
<1>9. StageOK'
  <2>1. ~over /\ notices = {}
    BY DEF FlowInv, StageOK
  <2> QED BY <2>1 DEF Decide, stage, FlowInv, StageOK
<1> QED BY <1>6, <1>7, <1>8, <1>9 DEF FlowInv

\* A core leaves the tick that was ended.
LEMMA AdvanceInv ==
  ASSUME FlowAssumption(Places), FlowInv, NEW c \in Cores, Advance(c)
  PROVE  FlowInv'
<1>1. c \in behind /\ c # LastT /\ LastT \in Cores
  BY DEF Advance, FlowAssumption
<1>2. place' = [place EXCEPT ![c] = cur] /\ place \in [Cores -> Places] /\ cur \in Places
  BY <1>1 DEF Advance, FlowInv, PlaceOK, TypeOK, RangeOK
<1>3. behind' = behind \ {c} /\ stop' = stop /\ sent' = sent /\ got' = got
        /\ notices' = notices /\ over' = over
  BY DEF Advance, packets
<1>4. place'[LastT] = place[LastT] /\ cur' = cur
  BY <1>1, <1>2, <1>3 DEF cur
<1>5. TypeOK'
  BY <1>1, <1>2, <1>3 DEF Advance, FlowInv, TypeOK
<1>6. PlaceOK' /\ RangeOK'
  BY <1>1, <1>2, <1>3, <1>4 DEF FlowInv, TypeOK, PlaceOK, RangeOK
<1>7. FlowOK'
  BY <1>3, <1>4 DEF FlowInv, FlowOK
<1>8. StageOK'
  BY <1>1, <1>3, <1>4 DEF Advance, FlowInv, StageOK
<1> QED BY <1>5, <1>6, <1>7, <1>8 DEF FlowInv

\* The last T leaves it, and may end the epoch.
LEMMA AdvanceLastInv ==
  ASSUME FlowAssumption(Places), FlowInv, AdvanceLast
  PROVE  FlowInv'
<1>1. LastT \in behind /\ LastT \in Cores /\ ~over /\ notices = {} /\ fin = {}
  BY DEF AdvanceLast, FlowAssumption, FlowInv, StageOK
<1>2. place' = [place EXCEPT ![LastT] = cur] /\ place \in [Cores -> Places] /\ cur \in Places
  BY DEF AdvanceLast, FlowInv, TypeOK, RangeOK
<1>3. behind' = behind \ {LastT} /\ stop' = stop /\ sent' = sent /\ got' = got
  BY DEF AdvanceLast, packets
<1>4. cur' = cur
  BY <1>1, <1>2, <1>3 DEF cur
<1>5. cur[1] < NumEpochs \/ EpochOver(cur)
  BY <1>1 DEF FlowInv, RangeOK
<1>6. TypeOK'
  <2>1. over' \in BOOLEAN /\ notices' \subseteq Cores \ {LastT} /\ fin' \subseteq Cores
    BY <1>1 DEF AdvanceLast, FlowInv, TypeOK, stage
  <2> QED BY <1>1, <1>2, <1>3, <2>1 DEF FlowInv, TypeOK
<1>7. PlaceOK'
  BY <1>1, <1>2, <1>3, <1>4 DEF FlowInv, PlaceOK
<1>8. RangeOK'
  <2>1. cur[1] < NumEpochs \/ over'
    <3>1. cur[1] \in 0 .. NumEpochs
      BY <1>2 DEF Places
    <3> QED BY <1>5, <3>1 DEF AdvanceLast, FlowAssumption
  <2> QED BY <1>2, <1>3, <1>4, <2>1 DEF FlowInv, RangeOK
<1>9. FlowOK'
  BY <1>3, <1>4 DEF FlowInv, FlowOK
<1>10. StageOK'
  <2>1. CASE EpochOver(cur)
    BY <1>1, <1>3, <1>4, <2>1 DEF AdvanceLast, FlowInv, StageOK
  <2>2. CASE ~EpochOver(cur)
    BY <1>1, <1>3, <1>4, <2>2 DEF AdvanceLast, FlowInv, StageOK, stage
  <2> QED BY <2>1, <2>2
<1> QED BY <1>6, <1>7, <1>8, <1>9, <1>10 DEF FlowInv

\* A core learns how the epoch ended.
LEMMA NoticeInv ==
  ASSUME FlowAssumption(Places), FlowInv, NEW c \in Cores, Notice(c)
  PROVE  FlowInv'
<1>1. place' = place /\ behind' = behind /\ stop' = stop /\ sent' = sent /\ got' = got
        /\ over' = over
  BY DEF Notice, packets
<1>2. cur' = cur
  BY <1>1 DEF cur
<1>3. TypeOK' /\ PlaceOK' /\ RangeOK' /\ FlowOK'
  BY <1>1, <1>2 DEF Notice, FlowInv, TypeOK, PlaceOK, RangeOK, FlowOK
<1>4. StageOK'
  BY <1>1, <1>2 DEF Notice, FlowInv, StageOK
<1> QED BY <1>3, <1>4 DEF FlowInv

\* The invariant is inductive.
LEMMA StepInv == FlowAssumption(Places) /\ FlowInv /\ [Next]_vars => FlowInv'
<1> SUFFICES ASSUME FlowAssumption(Places), FlowInv, [Next]_vars PROVE FlowInv'
  OBVIOUS
<1>1. CASE Start
  BY <1>1, SendsInv DEF Start, FlowInv, FlowOK
<1>2. ASSUME NEW l \in sent, Handle(l)
      PROVE  FlowInv'
  BY <1>2, SendsInv DEF Handle, FlowInv, FlowOK
<1>3. ASSUME NEW l \in sent, Decide(l)
      PROVE  FlowInv'
  BY <1>3, DecideInv DEF Decide
<1>4. CASE AdvanceLast
  BY <1>4, AdvanceLastInv
<1>5. ASSUME NEW c \in Cores, Advance(c) \/ Notice(c)
      PROVE  FlowInv'
  BY <1>5, AdvanceInv, NoticeInv
<1>6. CASE UNCHANGED vars
  <2>1. cur' = cur
    BY <1>6 DEF vars, cur
  <2> QED BY <1>6, <2>1 DEF vars, packets, stage, FlowInv, TypeOK, PlaceOK, RangeOK, FlowOK, StageOK
<1> QED BY <1>1, <1>2, <1>3, <1>4, <1>5, <1>6 DEF Next

\* No core handles a packet of a tick it is not in, and the tick is over only
\* when all its packets have been handled, whatever the graph.
THEOREM FlowInvariant ==
  ASSUME FlowAssumption(Places)
  PROVE  Spec => []FlowInv
<1>1. Init => FlowInv
  BY InitInv
<1>2. FlowInv /\ [Next]_vars => FlowInv'
  BY StepInv
<1> QED BY <1>1, <1>2, PTL DEF Spec

\* The packets of its tick a core has handled stay the same, or one more is,
\* or it enters a tick, with none.
Same(c) == place'[c] = place[c] /\ Handled(c)' = Handled(c)
Handles(c) ==
  /\ place'[c] = place[c] /\ c \notin behind
  /\ \E l \in sent \ got : /\ l[3] = c /\ l \notin Handled(c)
                          /\ Handled(c)' = Handled(c) \cup {l}
                          /\ l \notin sent' \ got'
Enters(c) ==
  c \in behind /\ Stamp(place'[c]) # Stamp(place[c]) /\ Handled(c)' = {}

LEMMA HandledStep ==
  ASSUME FlowAssumption(Places), FlowInv, [Next]_vars, NEW c \in Cores
  PROVE  Same(c) \/ Handles(c) \/ Enters(c)
<1>1. /\ place \in [Cores -> Places] /\ got \subseteq sent /\ sent \subseteq Links[cur]
      /\ \A l \in got : l[3] \notin behind
      /\ c \notin behind => place[c] = cur
  BY DEF FlowInv, FlowOK, TypeOK, PlaceOK
<1>2. CASE Start \/ UNCHANGED vars \/ \E d \in Cores : Notice(d)
  <2>1. place' = place /\ behind' = behind /\ got' = got
    BY <1>2 DEF Start, Sends, Notice, vars, packets
  <2> QED BY <2>1 DEF Handled, Same
<1>3. ASSUME NEW l \in sent, Handle(l)
      PROVE  Same(c) \/ Handles(c)
  <2>1. place' = place /\ behind' = behind /\ got' = got \cup {l} /\ l \notin got
          /\ l[3] \notin behind
    BY <1>3 DEF Handle, Sends
  <2>2. CASE l[3] = c
    <3>1. l \in Links[place[c]] /\ l \notin Handled(c)
      BY <1>1, <2>1, <2>2 DEF Handled
    <3>2. Handled(c)' = Handled(c) \cup {l}
      BY <2>1, <2>2, <3>1 DEF Handled
    <3> QED BY <2>1, <2>2, <3>1, <3>2 DEF Handles
  <2>3. CASE l[3] # c
    BY <2>1, <2>3 DEF Handled, Same
  <2> QED BY <2>2, <2>3
<1>4. ASSUME NEW l \in sent, Decide(l)
      PROVE  Same(c) \/ Handles(c)
  <2>1. /\ place' = place /\ behind' = Cores /\ sent' = {} /\ l \notin got
        /\ l[3] = LastT /\ l[3] \notin behind /\ Final[cur] \subseteq got \cup {l}
    BY <1>4 DEF Decide, stage
  <2>2. got \cup {l} = Links[cur] /\ behind = {}
    BY <2>1, TickComplete
  <2>3. Handled(c)' = {x \in Links[cur] : x[3] = c}
    BY <1>1, <2>1, <2>2 DEF Handled
  <2>4. Handled(c) = {x \in Links[cur] : x[3] = c /\ x \in got}
    BY <1>1, <2>2 DEF Handled
  <2>5. CASE c = LastT
    <3>1. l \notin Handled(c) /\ Handled(c)' = Handled(c) \cup {l}
      BY <2>1, <2>2, <2>3, <2>4, <2>5
    <3> QED BY <2>1, <2>2, <2>5, <3>1 DEF Handles
  <2>6. CASE c # LastT
    BY <2>1, <2>2, <2>3, <2>4, <2>6 DEF Same
  <2> QED BY <2>5, <2>6
<1>5. ASSUME NEW d \in Cores, \/ Advance(d)
                            \/ (d = LastT /\ AdvanceLast)
      PROVE  Same(c) \/ Enters(c)
  <2>1. d \in behind /\ behind' = behind \ {d} /\ got' = got
    BY <1>5 DEF Advance, AdvanceLast, packets
  <2>2. place' = [place EXCEPT ![d] = NextPlace(place[d], stop)]
    BY <1>5, <2>1 DEF Advance, AdvanceLast, FlowInv, PlaceOK
  <2>3. CASE d = c
    <3>1. place'[c] = NextPlace(place[c], stop) /\ MayLeave(place[c], stop)
      BY <1>1, <2>1, <2>2, <2>3 DEF FlowInv, RangeOK
    <3>2. Stamp(place'[c]) # Stamp(place[c])
      BY <3>1, NextPlaceFacts
    <3>3. Handled(c)' = {}
      BY <1>1, <2>1, <2>3 DEF Handled
    <3> QED BY <2>1, <2>3, <3>2, <3>3 DEF Enters
  <2>4. CASE d # c
    BY <1>1, <2>1, <2>2, <2>4 DEF Handled, Same
  <2> QED BY <2>3, <2>4
<1>6. LastT \in Cores
  BY DEF FlowAssumption
<1>7. \/ Start \/ UNCHANGED vars \/ \E d \in Cores : Notice(d)
      \/ \E l \in sent : Handle(l) \/ Decide(l)
      \/ \E d \in Cores : Advance(d) \/ (d = LastT /\ AdvanceLast)
  BY <1>6 DEF Next
<1> QED BY <1>2, <1>3, <1>4, <1>5, <1>7

\* A core that stays where it is stays behind.
LEMMA StaysBehind ==
  ASSUME FlowAssumption(Places), FlowInv, [Next]_vars, NEW c \in behind, place'[c] = place[c]
  PROVE  c \in behind'
<1>1. /\ place \in [Cores -> Places] /\ behind \subseteq Cores
      /\ \A d \in behind : NextPlace(place[d], stop) # place[d] /\ NextPlace(place[d], stop) = cur
  BY NextPlaceFacts DEF FlowInv, TypeOK, PlaceOK, RangeOK
<1>2. CASE Start \/ UNCHANGED vars \/ (\E d \in Cores : Notice(d)) \/ \E l \in sent : Handle(l)
  BY <1>2 DEF Start, Handle, Sends, Notice, vars
<1>3. CASE \E l \in sent : Decide(l)
  BY <1>1, <1>3 DEF Decide
<1>4. ASSUME NEW d \in Cores, Advance(d)
      PROVE  c \in behind'
  BY <1>1, <1>4 DEF Advance
<1>5. CASE AdvanceLast
  BY <1>1, <1>5 DEF AdvanceLast
<1> QED BY <1>2, <1>3, <1>4, <1>5 DEF Next

(***************************************************************************)
(* Lockstep.                                                               *)
(***************************************************************************)
LEMMA NextStamp ==
  ASSUME FlowAssumption(Places), NEW p, NEW b, MayLeave(p, b)
  PROVE  Stamp(NextPlace(p, b)) \in Barrier!Succ(Stamp(p))
<1>1. PICK e \in 0 .. NumEpochs, x \in 0 .. NumExamples - 1, f \in Phases,
           t \in 1 .. NumTicks, v \in 0 .. NumEvents : p = <<e, x, f, t, v>>
  BY DEF MayLeave, Places
<1>2. p[1] = e /\ p[2] = x /\ p[3] = f /\ p[4] = t /\ p[5] = v
  BY <1>1
<1>3. Stamp(p) = <<e, x, f, t>>
  BY <1>1, PlaceFacts
<1>4. PICK q : q = NextPlace(p, b)
  OBVIOUS
<1>5. Stamp(q) \in Barrier!Positions
  BY <1>4, NextPlaceFacts DEF Places, Barrier!Positions, Phases, Stamp
<1>6. Stamp(NextExample(p)) = Barrier!NextExample(Stamp(p))
  BY <1>2, <1>3 DEF NextExample, Barrier!NextExample, Stamp
<1>7. \/ f = "B" /\ Stamp(q) = IF t = 1 THEN Barrier!NextExample(Stamp(p))
                                        ELSE Barrier!NextTick(Stamp(p))
      \/ f = "F" /\ Stamp(q) = Barrier!NextTick(Stamp(p))
      \/ f = "F" /\ Stamp(q) = IF Training THEN <<e, x, "B", t>>
                                            ELSE Barrier!NextExample(Stamp(p))
  <2>1. CASE f = "B"
    BY <1>2, <1>3, <1>4, <1>6, <2>1 DEF NextPlace, Stamp, Barrier!NextTick
  <2>2. CASE f = "F" /\ (~b \/ ~EndOfForward(p))
    BY <1>2, <1>3, <1>4, <2>2 DEF NextPlace, Stamp, Barrier!NextTick
  <2>3. CASE f = "F" /\ b /\ EndOfForward(p)
    BY <1>2, <1>3, <1>4, <1>6, <2>3 DEF NextPlace, Stamp
  <2> QED BY <2>1, <2>2, <2>3 DEF Phases
<1>8. Stamp(p)[1] = e /\ Stamp(p)[2] = x /\ Stamp(p)[3] = f /\ Stamp(p)[4] = t
  BY <1>3
<1> QED BY <1>4, <1>5, <1>7, <1>8 DEF Barrier!Succ

\* A core that leaves the tick moves the barrier on.
LEMMA MoveStep ==
  ASSUME FlowAssumption(Places), FlowInv, NEW c \in behind,
         place' = [place EXCEPT ![c] = cur],
         fin' \in {fin, IF EpochOver(cur) THEN fin \cup {c} ELSE fin}
  PROVE  Barrier!Move(c)
<1> DEFINE pos == [d \in Cores |-> Stamp(place[d])]
           q == Stamp(cur)
<1>1. c \in Cores /\ place \in [Cores -> Places] /\ MayLeave(place[c], stop)
        /\ cur = NextPlace(place[c], stop)
  BY DEF FlowInv, TypeOK, PlaceOK, RangeOK
<1>2. q \in Barrier!Succ(pos[c]) /\ q # pos[c]
  BY <1>1, NextStamp, NextPlaceFacts
<1>3. pos' = [pos EXCEPT ![c] = q]
  <2>1. \A d \in Cores : place'[d] = IF d = c THEN cur ELSE place[d]
    BY <1>1
  <2> QED BY <1>1, <2>1
<1>4. \A d \in Cores : pos[d] \in {pos[c], q}
  BY <1>1 DEF FlowInv, PlaceOK
<1>5. \A d \in fin : pos[d] # pos[c]
  BY <1>1, <1>2 DEF FlowInv, TypeOK, PlaceOK, StageOK
<1>6. Barrier!EpochOver(q) <=> EpochOver(cur)
  BY DEF Barrier!EpochOver, EpochOver, Stamp
<1> QED BY <1>2, <1>3, <1>4, <1>5, <1>6 DEF Barrier!Move

\* A step of the machine that takes a core to another tick, or ends its
\* stage, is a step of the tick barrier by that core.
LEMMA LockstepStep ==
  ASSUME FlowAssumption(Places), FlowInv, [Next]_vars, NEW c \in Cores,
         Stamp(place[c])' # Stamp(place[c]) \/ (c \in fin)' # (c \in fin)
  PROVE  Barrier!Move(c) \/ Barrier!Finish(c)
<1>1. CASE Start \/ (\E l \in sent : Handle(l)) \/ UNCHANGED vars
  BY <1>1 DEF Start, Handle, Sends, stage, vars
<1>2. CASE \E l \in sent : Decide(l)
  BY <1>2 DEF Decide, stage
<1>3. CASE AdvanceLast
  <2>1. LastT \in behind /\ place' = [place EXCEPT ![LastT] = cur]
    BY <1>3 DEF AdvanceLast
  <2>2. ~over /\ fin = {}
    BY <2>1 DEF FlowInv, StageOK
  <2>3. fin' \in {fin, IF EpochOver(cur) THEN fin \cup {LastT} ELSE fin}
    BY <1>3, <2>2 DEF AdvanceLast, stage
  <2>4. c = LastT
    BY <2>1, <2>3 DEF FlowInv, TypeOK
  <2> QED BY <2>1, <2>3, <2>4, MoveStep
<1>4. ASSUME NEW d \in Cores, Advance(d)
      PROVE  Barrier!Move(c)
  <2>1. d \in behind /\ cur = NextPlace(place[d], stop)
    BY <1>4 DEF Advance, FlowInv, PlaceOK
  <2>2. place' = [place EXCEPT ![d] = cur]
    BY <1>4, <2>1 DEF Advance, FlowInv, TypeOK
  <2>3. fin' \in {fin, IF EpochOver(cur) THEN fin \cup {d} ELSE fin}
    BY <1>4 DEF Advance, FlowInv, StageOK
  <2>4. c = d
    BY <2>1, <2>2, <2>3 DEF FlowInv, TypeOK
  <2> QED BY <2>1, <2>2, <2>3, <2>4, MoveStep
<1>5. ASSUME NEW d \in Cores, Notice(d)
      PROVE  Barrier!Finish(c)
  <2>1. place' = place
    BY <1>5 DEF Notice
  <2>2. d = c /\ over /\ c \notin behind /\ fin' = fin \cup {c}
    BY <1>5, <2>1 DEF Notice
  <2>3. place[c] = cur /\ EpochOver(cur)
    BY <2>2 DEF FlowInv, PlaceOK, StageOK
  <2>4. Barrier!EpochOver(Stamp(cur))
    BY <2>3 DEF EpochOver, Barrier!EpochOver, Stamp
  <2>5. ASSUME NEW e \in Cores
        PROVE  Stamp(place[e]) = Stamp(cur) \/ Stamp(cur) \in Barrier!Succ(Stamp(place[e]))
    <3>1. CASE e \in behind
      BY <3>1, NextStamp DEF FlowInv, PlaceOK, RangeOK
    <3>2. CASE e \notin behind
      BY <3>2 DEF FlowInv, PlaceOK
    <3> QED BY <3>1, <3>2
  <2>6. [e \in Cores |-> Stamp(place[e])]' = [e \in Cores |-> Stamp(place[e])]
    BY <2>1
  <2> QED BY <2>2, <2>3, <2>4, <2>5, <2>6 DEF Barrier!Finish
<1> QED BY <1>1, <1>2, <1>3, <1>4, <1>5 DEF Next

\* The cores go through the ticks in lockstep, whatever the graph.
THEOREM FlowLockstep ==
  ASSUME FlowAssumption(Places)
  PROVE  Spec => Barrier!Spec
<1>1. Init => Barrier!Init
  <2> SUFFICES ASSUME Init PROVE Barrier!Init
    OBVIOUS
  <2>1. [c \in Cores |-> Stamp(place[c])] = [c \in Cores |-> Barrier!First]
    BY DEF Init, First, Stamp, Barrier!First
  <2> QED BY <2>1 DEF Init, Barrier!Init
<1>2. FlowInv /\ [Next]_vars => [Barrier!Next]_(Barrier!vars)
  <2> SUFFICES ASSUME FlowInv, [Next]_vars PROVE [Barrier!Next]_(Barrier!vars)
    OBVIOUS
  <2>1. CASE \E c \in Cores : Stamp(place[c])' # Stamp(place[c]) \/ (c \in fin)' # (c \in fin)
    BY <2>1, LockstepStep DEF Barrier!Next
  <2>2. CASE \A c \in Cores : Stamp(place[c])' = Stamp(place[c]) /\ (c \in fin)' = (c \in fin)
    <3>1. fin' = fin
      <4>1. fin \subseteq Cores /\ fin' \subseteq Cores
        BY StepInv DEF FlowInv, TypeOK
      <4> QED BY <2>2, <4>1
    <3> QED BY <2>2, <3>1 DEF Barrier!vars
  <2> QED BY <2>1, <2>2
<1>3. Spec => []FlowInv
  BY FlowInvariant
<1> QED BY <1>1, <1>2, <1>3, PTL DEF Spec, Barrier!Spec
=============================================================================
