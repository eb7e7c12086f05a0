------------------------ MODULE CriterionChainProofs ------------------------
(***************************************************************************)
(* The criterion chain is correct for every network: any number of groups, *)
(* of subgroups of a group, and any last output group.                     *)
(***************************************************************************)
EXTENDS CriterionChain, FiniteSetTheorems, TLAPS

(***************************************************************************)
(* The shape of the chain.                                                 *)
(***************************************************************************)
Children(s) == {x \in Sub \ {LastSub} : Up(x) = s}

LEMMA LastSubFacts == LastSub \in Sub /\ IsGroupLast(LastSub)
  BY ChainAssumption DEF LastSub, IsGroupLast

LEMMA UpFacts ==
  ASSUME NEW x \in Sub
  PROVE  /\ Up(x) \in Sub
         /\ x # LastSub => Up(x) # x
         /\ x # LastSub /\ Up(x) # LastSub => Up(Up(x)) = LastSub /\ Children(x) = {}
<1>1. Group[x] \in Groups /\ Last[Group[x]] \in Sub /\ Group[Last[Group[x]]] = Group[x]
  BY ChainAssumption
<1>2. Up(x) \in Sub
  BY <1>1, LastSubFacts DEF Up
<1>3. x # LastSub => Up(x) # x
  BY DEF Up, IsGroupLast
<1>4. ASSUME x # LastSub, Up(x) # LastSub
      PROVE  Up(Up(x)) = LastSub /\ Children(x) = {}
  <2>1. ~IsGroupLast(x) /\ Up(x) = Last[Group[x]]
    BY <1>4 DEF Up
  <2>2. IsGroupLast(Up(x))
    BY <1>1, <2>1 DEF IsGroupLast
  <2>3. Up(Up(x)) = LastSub
    BY <2>2 DEF Up
  <2>4. ASSUME NEW y \in Sub, Up(y) = x
        PROVE  FALSE
    <3>1. Group[y] \in Groups /\ Group[Last[Group[y]]] = Group[y]
      BY ChainAssumption
    <3>2. x = Last[Group[y]]
      BY <1>4, <2>4 DEF Up
    <3> QED BY <3>1, <3>2, <2>1 DEF IsGroupLast
  <2> QED BY <2>3, <2>4 DEF Children
<1> QED BY <1>2, <1>3, <1>4

\* The host writes the right number of criterion packets into every core:
\* crit_expected (threshold_vertex.py) counts the criterion links that end in
\* the core (mlp_network.py).
LEMMA ChildrenCount ==
  ASSUME NEW s \in Sub
  PROVE  /\ IsFiniteSet(Children(s))
         /\ Cardinality(Children(s)) = crit_expected(s)
<1> DEFINE Mates == Peers(s) \ {s}
           Others == Groups \ {LastOutGroup}
           Heads == {Last[g] : g \in Others}
           f == [g \in Others |-> Last[g]]
<1>1. IsFiniteSet(Children(s)) /\ IsFiniteSet(Peers(s)) /\ s \in Peers(s)
  <2>1. Children(s) \in SUBSET Sub /\ Peers(s) \in SUBSET Sub
    BY DEF Children, Peers
  <2> QED BY <2>1, FS_Subset, ChainAssumption DEF Peers
<1>2. IsFiniteSet(Mates) /\ Cardinality(Mates) = Cardinality(Peers(s)) - 1
  BY <1>1, FS_RemoveElement
<1>3. CASE ~IsGroupLast(s)
  <2>1. ASSUME NEW x \in Sub, Up(x) = s
        PROVE  FALSE
    <3>1. Group[x] \in Groups /\ Group[Last[Group[x]]] = Group[x]
      BY ChainAssumption
    <3>2. s = Last[Group[x]]
      BY <1>3, <2>1, LastSubFacts DEF Up
    <3> QED BY <3>1, <3>2, <1>3 DEF IsGroupLast
  <2>2. Children(s) = {}
    BY <2>1 DEF Children
  <2> QED BY <1>1, <1>3, <2>2, FS_EmptySet DEF crit_expected
<1>4. ASSUME IsGroupLast(s), NEW x \in Sub
      PROVE  x \in Mates <=> ~IsGroupLast(x) /\ Last[Group[x]] = s
  BY <1>4, ChainAssumption DEF Peers, IsGroupLast
<1>5. CASE IsGroupLast(s) /\ s # LastSub
  <2>1. ASSUME NEW x \in Sub \ {LastSub}
        PROVE  Up(x) = s <=> x \in Mates
    BY <1>4, <1>5 DEF Up
  <2>2. LastSub \notin Mates
    BY <1>4, <1>5, LastSubFacts
  <2>3. Children(s) = Mates
    BY <2>1, <2>2 DEF Children, Peers
  <2>4. Cardinality(Peers(s)) \in Nat
    BY <1>1, FS_CardinalityType
  <2> QED BY <1>1, <1>2, <1>5, <2>3, <2>4 DEF crit_expected
<1>6. CASE s = LastSub
  <2>1. f \in Bijection(Others, Heads)
    BY ChainAssumption DEF Bijection, Injection, Surjection, IsInjective
  <2>2. Groups # {} /\ IsFiniteSet(Groups)
    <3>1. Last \in Injection(Groups, Sub)
      BY ChainAssumption DEF Injection, IsInjective
    <3> QED BY <3>1, FS_Injection, ChainAssumption
  <2>3. IsFiniteSet(Others) /\ Cardinality(Others) = Cardinality(Groups) - 1
    BY <2>2, FS_RemoveElement, ChainAssumption
  <2>4. IsFiniteSet(Heads) /\ Cardinality(Heads) = Cardinality(Groups) - 1
    BY <2>1, <2>3, FS_Bijection DEF ExistsBijection
  <2>5. ASSUME NEW x \in Sub
        PROVE  x \in Heads <=> IsGroupLast(x) /\ x # LastSub
    BY ChainAssumption DEF IsGroupLast, LastSub
  <2>6. Children(s) = Mates \cup Heads
    <3>1. IsGroupLast(s)
      BY <1>6, LastSubFacts
    <3>2. ASSUME NEW x \in Sub
          PROVE  x \in Children(s) <=> x \in Mates \/ x \in Heads
      BY <1>4, <1>6, <2>5, <3>1 DEF Children, Up
    <3>3. Mates \subseteq Sub /\ Heads \subseteq Sub /\ Children(s) \subseteq Sub
      BY ChainAssumption DEF Peers, Children
    <3> QED BY <3>2, <3>3
  <2>7. Mates \cap Heads = {}
    <3>1. IsGroupLast(s)
      BY <1>6, LastSubFacts
    <3>2. Mates \subseteq Sub
      BY DEF Peers
    <3> QED BY <1>4, <2>5, <3>1, <3>2
  <2>8. Cardinality(Mates \cup Heads) = Cardinality(Mates) + Cardinality(Heads)
    <3>1. Cardinality(Mates \cap Heads) = 0
      BY <2>7, FS_EmptySet
    <3>2. Cardinality(Mates) \in Nat /\ Cardinality(Heads) \in Nat
      BY <1>2, <2>4, FS_CardinalityType
    <3>3. Cardinality(Mates \cup Heads)
            = Cardinality(Mates) + Cardinality(Heads) - Cardinality(Mates \cap Heads)
      <4> HIDE DEF Mates, Heads
      <4> QED BY <1>2, <2>4, FS_Union
    <3> HIDE DEF Mates, Heads
    <3> QED BY <3>1, <3>2, <3>3
  <2>9. Cardinality(Peers(s)) \in Nat /\ Cardinality(Groups) \in Nat
    BY <1>1, <2>2, FS_CardinalityType
  <2> QED BY <1>1, <1>2, <1>6, <2>4, <2>6, <2>8, <2>9, LastSubFacts DEF crit_expected
<1> QED BY <1>3, <1>5, <1>6

(***************************************************************************)
(* The inductive invariant.  A core that is in the current tick has        *)
(* counted the children that have reported, but for those whose packet is  *)
(* in flight; it has reported only if it has counted them all.  A core     *)
(* that is behind has nothing left to do in its tick, and nothing of the   *)
(* current one has been taken for it.                                      *)
(***************************************************************************)
\* the children of s whose report is in, if n is what is in flight
GotIn(s, n) ==
  {x \in Children(s) : ~Behind(x) /\ reported[x] /\ \A p \in n : p.src # x}
Got(s) == GotIn(s, net)

DoneThreads(s) ==
  (IF proc[s] THEN {"PROC"} ELSE {})
    \cup (IF arrived[s] = crit_expected(s) THEN {"CRIT"} ELSE {})
    \cup (IF s = LastSub /\ fsgn THEN {"FSGN"} ELSE {})
PendingThreads(s) == tf_thrds_init(s) \ DoneThreads(s)

Ready(s) == proc[s] /\ Got(s) = Children(s) /\ (s = LastSub => fsgn)

NetOK ==
  \A p \in net :
    /\ ~Behind(p.src) /\ reported[p.src]
    /\ p.tick = Current /\ p.b = Aggregate(p.src)

BehindOK(s) ==
  /\ proc[s] /\ arrived[s] = crit_expected(s)
  /\ Got(s) = {}
  /\ s = LastSub => fsgn

CountOK(s) ==
  /\ arrived[s] = Cardinality(Got(s))
  /\ prev[s] <=> \A x \in Got(s) : Aggregate(x)

PendOK(s) ==
  /\ reported[s] => Ready(s) /\ s # LastSub
  /\ ~reported[s] => pend[s] = PendingThreads(s) /\ pend[s] # {}

CoreOK(s) == IF Behind(s) THEN BehindOK(s) ELSE CountOK(s) /\ PendOK(s)

IInv == TypeOK /\ Lockstep /\ NetOK /\ \A s \in Sub : CoreOK(s)

LEMMA GotFacts ==
  ASSUME NEW s \in Sub, NEW n
  PROVE  /\ GotIn(s, n) \subseteq Children(s)
         /\ IsFiniteSet(GotIn(s, n))
         /\ Cardinality(GotIn(s, n)) \in Nat
         /\ Cardinality(GotIn(s, n)) <= crit_expected(s)
         /\ Cardinality(GotIn(s, n)) = crit_expected(s) => GotIn(s, n) = Children(s)
<1>1. GotIn(s, n) \in SUBSET Children(s)
  BY DEF GotIn
<1> QED BY <1>1, ChildrenCount, FS_Subset, FS_CardinalityType

LEMMA InitInv == Init => IInv
<1> SUFFICES ASSUME Init PROVE IInv
  OBVIOUS
<1>1. TypeOK
  BY DEF Init, TypeOK, tf_thrds_init, Thread
<1>2. Lockstep /\ NetOK
  BY LastSubFacts DEF Init, Lockstep, NetOK, Current, Behind
<1>3. ASSUME NEW s \in Sub
      PROVE  CoreOK(s)
  <2>1. ~Behind(s) /\ Got(s) = {}
    BY DEF Init, Behind, Got, GotIn, Children
  <2>2. CountOK(s)
    BY <2>1, FS_EmptySet DEF Init, CountOK
  <2>3. pend[s] = PendingThreads(s) /\ pend[s] # {} /\ ~reported[s]
    BY DEF Init, PendingThreads, DoneThreads, tf_thrds_init
  <2> QED BY <2>1, <2>2, <2>3 DEF CoreOK, PendOK
<1> QED BY <1>1, <1>2, <1>3 DEF IInv

(***************************************************************************)
(* A core goes on with the current tick.  Work says what Process,          *)
(* ReceiveCrit and ReceiveFsgn have in common: core s alone has changed,   *)
(* n is what is left in flight, and the scoreboard has kept up with n.     *)
(***************************************************************************)
Work(s, n) ==
  /\ ~Behind(s) /\ ~reported[s]
  /\ tick' = tick
  /\ \A t \in Sub \ {s} :
       /\ proc'[t] = proc[t] /\ met'[t] = met[t]
       /\ arrived'[t] = arrived[t] /\ prev'[t] = prev[t]
  /\ s # LastSub => fsgn' = fsgn
  /\ n \subseteq net /\ \A p \in net \ n : Up(p.src) = s
  /\ arrived'[s] = Cardinality(GotIn(s, n))
  /\ prev'[s] <=> \A x \in GotIn(s, n) : Aggregate(x)

LEMMA WorkFacts ==
  ASSUME IInv, NEW s \in Sub, NEW n, Work(s, n)
  PROVE  /\ \A t \in Sub \ {s} : GotIn(t, n) = Got(t) /\ Aggregate(t)' = Aggregate(t)
         /\ \A p \in n : p \in Packet /\ p.src # s /\ p.src \in Sub
         /\ \A t \in Sub : s \notin GotIn(t, n)
<1>1. \A p \in net : p \in Packet /\ reported[p.src]
  BY DEF IInv, TypeOK, NetOK
<1>2. \A p \in n : p \in Packet /\ p.src # s /\ p.src \in Sub
  BY <1>1 DEF Work, Packet
<1>3. ASSUME NEW t \in Sub \ {s}
      PROVE  GotIn(t, n) = Got(t)
  <2>1. ASSUME NEW x \in Children(t)
        PROVE  (\A p \in n : p.src # x) <=> (\A p \in net : p.src # x)
    BY <1>3 DEF Work, Children
  <2> QED BY <2>1 DEF Got, GotIn
<1>4. \A t \in Sub \ {s} : Aggregate(t)' = Aggregate(t)
  BY DEF Work, Aggregate
<1>5. \A t \in Sub : s \notin GotIn(t, n)
  BY DEF Work, GotIn
<1> QED BY <1>2, <1>3, <1>4, <1>5

\* Nothing changes for the other cores.
LEMMA OthersOK ==
  ASSUME IInv, NEW s \in Sub, NEW n, Work(s, n), NEW t \in Sub \ {s},
         Behind(t)' = Behind(t), reported'[t] = reported[t], pend'[t] = pend[t],
         Got(t)' = Got(t)
  PROVE  CoreOK(t)'
<1>1. /\ proc'[t] = proc[t]
      /\ arrived'[t] = arrived[t] /\ prev'[t] = prev[t]
      /\ t = LastSub => fsgn' = fsgn
  BY DEF Work
<1>2. \A x \in Got(t) : Aggregate(x)' = Aggregate(x)
  BY WorkFacts DEF GotIn, Children
<1>3. CoreOK(t)
  BY DEF IInv
<1>4. PendingThreads(t)' = PendingThreads(t)
  BY <1>1 DEF PendingThreads, DoneThreads, tf_thrds_init
<1>5. Ready(t)' = Ready(t)
  BY <1>1 DEF Ready
<1>6. BehindOK(t) => BehindOK(t)'
  BY <1>1 DEF BehindOK
<1>7. CountOK(t) => CountOK(t)'
  BY <1>1, <1>2 DEF CountOK
<1>8. PendOK(t) => PendOK(t)'
  BY <1>1, <1>4, <1>5 DEF PendOK
<1> QED BY <1>3, <1>6, <1>7, <1>8 DEF CoreOK

\* Other threads of the core are still pending.
LEMMA QuietStep ==
  ASSUME IInv, NEW s \in Sub, NEW n, Work(s, n), TypeOK',
         net' = n, UNCHANGED <<reported, decision>>,
         \A t \in Sub \ {s} : pend'[t] = pend[t],
         pend'[s] = PendingThreads(s)', pend'[s] # {}
  PROVE  IInv'
<1>1. /\ \A t \in Sub : Behind(t)' = Behind(t) /\ reported'[t] = reported[t]
      /\ Current' = Current
  BY DEF decision, Behind, Current, Work
<1>2. \A t \in Sub : Got(t)' = GotIn(t, n)
  BY <1>1 DEF Got, GotIn, Children
<1>3. Lockstep'
  BY <1>1 DEF IInv, Lockstep, Work
<1>4. NetOK'
  <2> SUFFICES ASSUME NEW p \in n
               PROVE  /\ ~Behind(p.src)' /\ reported'[p.src]
                      /\ p.tick = Current' /\ p.b = Aggregate(p.src)'
    BY DEF NetOK
  <2>1. p \in net
    BY DEF Work
  <2> QED BY <1>1, <2>1, WorkFacts DEF IInv, NetOK
<1>5. CoreOK(s)'
  <2>1. ~Behind(s)' /\ ~reported'[s]
    BY <1>1 DEF Work
  <2>2. CountOK(s)'
    <3>1. \A x \in GotIn(s, n) : Aggregate(x)' = Aggregate(x)
      BY WorkFacts DEF GotIn, Children
    <3> QED BY <1>2, <3>1 DEF CountOK, Work
  <2> QED BY <2>1, <2>2 DEF CoreOK, PendOK
<1>6. ASSUME NEW t \in Sub \ {s}
      PROVE  CoreOK(t)'
  <2>1. Got(t)' = Got(t)
    BY <1>2, WorkFacts
  <2> QED BY <1>1, <2>1, OthersOK
<1> QED BY <1>3, <1>4, <1>5, <1>6 DEF IInv

\* A core with no thread pending has the whole tick behind it.
LEMMA AllDone ==
  ASSUME IInv, NEW s \in Sub, NEW n, Work(s, n), TypeOK', PendingThreads(s)' = {}
  PROVE  /\ proc'[s] /\ GotIn(s, n) = Children(s)
         /\ arrived'[s] = crit_expected(s)
         /\ s = LastSub => fsgn'
<1>1. /\ "PROC" \in tf_thrds_init(s)
      /\ crit_expected(s) # 0 => "CRIT" \in tf_thrds_init(s)
      /\ s = LastSub => "FSGN" \in tf_thrds_init(s)
  BY DEF tf_thrds_init
<1>2. tf_thrds_init(s) \subseteq DoneThreads(s)'
  BY DEF PendingThreads, tf_thrds_init
<1>3. proc'[s] /\ (s = LastSub => fsgn')
  BY <1>1, <1>2 DEF DoneThreads
<1>4. crit_expected(s) # 0 => arrived'[s] = crit_expected(s)
  BY <1>1, <1>2 DEF DoneThreads
<1>5. arrived'[s] = crit_expected(s)
  BY <1>4, GotFacts DEF Work
<1> QED BY <1>3, <1>5, GotFacts DEF Work

\* The last thread is done, and the core reports.
LEMMA ReportStep ==
  ASSUME IInv, NEW s \in Sub, NEW n, Work(s, n), TypeOK',
         PendingThreads(s)' = {}, s # LastSub,
         reported' = [reported EXCEPT ![s] = TRUE],
         net' = n \cup {[src |-> s, b |-> Aggregate(s)', tick |-> tick[s]]},
         UNCHANGED <<pend, decision>>
  PROVE  IInv'
<1>1. /\ \A t \in Sub : Behind(t)' = Behind(t)
      /\ \A t \in Sub \ {s} : reported'[t] = reported[t]
      /\ reported'[s] /\ Current' = Current
  BY DEF decision, Behind, Current, Work, IInv, TypeOK
<1>2. ASSUME NEW t \in Sub
      PROVE  Got(t)' = GotIn(t, n)
  <2>1. ASSUME NEW x \in Children(t)
        PROVE  x \in Got(t)' <=> x \in GotIn(t, n)
    <3>1. CASE x = s
      <4> DEFINE pkt == [src |-> s, b |-> Aggregate(s)', tick |-> tick[s]]
      <4>1. pkt \in net' /\ pkt.src = x
        BY <3>1
      <4>2. x \notin Got(t)'
        BY <4>1 DEF Got, GotIn
      <4> QED BY <3>1, <4>2, WorkFacts
    <3>2. CASE x # s
      <4>1. x \in Sub
        BY DEF Children
      <4>2. (\A p \in net' : p.src # x) <=> (\A p \in n : p.src # x)
        BY <3>2
      <4> QED BY <1>1, <3>2, <4>1, <4>2 DEF Got, GotIn
    <3> QED BY <3>1, <3>2
  <2>2. Got(t)' \subseteq Children(t)
    BY DEF Got, GotIn, Children
  <2> QED BY <2>1, <2>2, GotFacts
<1>3. Lockstep'
  BY <1>1 DEF IInv, Lockstep, Work
<1>4. NetOK'
  <2>1. ASSUME NEW p \in n
        PROVE  /\ ~Behind(p.src)' /\ reported'[p.src]
               /\ p.tick = Current' /\ p.b = Aggregate(p.src)'
    <3>1. p \in net
      BY DEF Work
    <3> QED BY <1>1, <3>1, WorkFacts DEF IInv, NetOK
  <2>2. tick[s] = Current
    BY DEF IInv, Lockstep, Work
  <2>3. ~Behind(s)' /\ reported'[s] /\ tick[s] = Current'
    BY <1>1, <2>2 DEF Work
  <2> QED BY <2>1, <2>3 DEF NetOK
<1>5. CoreOK(s)'
  <2>1. ~Behind(s)'
    BY <1>1 DEF Work
  <2>2. CountOK(s)'
    <3>1. \A x \in GotIn(s, n) : Aggregate(x)' = Aggregate(x)
      BY WorkFacts DEF GotIn, Children
    <3> QED BY <1>2, <3>1 DEF CountOK, Work
  <2>3. Ready(s)'
    BY <1>2, AllDone DEF Ready, Children
  <2> QED BY <1>1, <2>1, <2>2, <2>3 DEF CoreOK, PendOK
<1>6. ASSUME NEW t \in Sub \ {s}
      PROVE  CoreOK(t)'
  <2>1. Got(t)' = Got(t) /\ pend' = pend
    BY <1>2, WorkFacts
  <2> QED BY <1>1, <2>1, OthersOK
<1> QED BY <1>3, <1>4, <1>5, <1>6 DEF IInv

\* The last thread of the last T is done, and it decides: its children have
\* reported to it, and theirs to them.
LEMMA DecideStep ==
  ASSUME IInv, NEW n, Work(LastSub, n), TypeOK', PendingThreads(LastSub)' = {},
         net' = n, group_crit' = Aggregate(LastSub)',
         stp' = Sub \ {LastSub}, advance' = TRUE
  PROVE  IInv' /\ DecisionStep
<1>1. /\ LastSub \in Sub /\ ~advance /\ Current = tick[LastSub]
      /\ GotIn(LastSub, n) = Children(LastSub)
      /\ proc'[LastSub] /\ arrived'[LastSub] = crit_expected(LastSub) /\ fsgn'
  BY LastSubFacts, AllDone DEF Work, Behind, Current
<1>2. ASSUME NEW x \in Children(LastSub)
      PROVE  x \in Sub \ {LastSub} /\ ~Behind(x) /\ reported[x] /\ \A p \in n : p.src # x
  BY <1>1 DEF GotIn, Children
<1>3. ASSUME NEW x \in Sub \ {LastSub}, ~Behind(x), reported[x]
      PROVE  /\ proc[x] /\ Got(x) = Children(x) /\ arrived[x] = crit_expected(x)
             /\ prev[x] <=> \A y \in Children(x) : Aggregate(y)
  <2>1. CountOK(x) /\ Ready(x)
    BY <1>3 DEF IInv, CoreOK, PendOK
  <2> QED BY <2>1, ChildrenCount DEF CountOK, Ready
<1>4. ASSUME NEW x \in Sub \ {LastSub}
      PROVE  ~Behind(x) /\ reported[x] /\ \A p \in n : p.src # x
  <2>1. CASE Up(x) = LastSub
    BY <1>2, <2>1 DEF Children
  <2>2. CASE Up(x) # LastSub
    <3>1. Up(x) \in Sub \ {LastSub} /\ Up(x) \in Children(LastSub)
      BY <2>2, UpFacts DEF Children
    <3>2. Got(Up(x)) = Children(Up(x)) /\ x \in Children(Up(x))
      BY <1>2, <1>3, <3>1 DEF Children
    <3>3. x \in GotIn(Up(x), net)
      BY <3>2 DEF Got
    <3> QED BY <3>3 DEF GotIn, Work
  <2> QED BY <2>1, <2>2
<1>5. n = {}
  <2>1. \A p \in n : p.src \in Sub \ {LastSub}
    BY <1>1, WorkFacts
  <2> QED BY <1>4, <2>1
<1>6. \A t \in Sub : tick[t] = tick[LastSub] /\ tick'[t] = tick[t]
  BY <1>1, <1>4 DEF IInv, Lockstep, Work, Behind
<1>7. \A t \in Sub : proc'[t] /\ arrived'[t] = crit_expected(t)
  <2>1. \A t \in Sub \ {LastSub} : proc'[t] = proc[t] /\ arrived'[t] = arrived[t]
    BY DEF Work
  <2> QED BY <1>1, <1>3, <1>4, <2>1
<1>8. \A t \in Sub : Behind(t)'
  BY DEF Behind
<1>9. Lockstep'
  <2>1. tick[LastSub] \in Nat
    BY <1>1 DEF IInv, TypeOK
  <2> QED BY <1>6, <1>8, <1>1, <2>1 DEF Lockstep, Current
<1>10. ASSUME NEW t \in Sub
       PROVE  CoreOK(t)'
  <2>1. Got(t)' = {}
    BY <1>8 DEF Got, GotIn, Children
  <2> QED BY <1>1, <1>7, <1>8, <2>1 DEF CoreOK, BehindOK
<1>11. IInv'
  BY <1>5, <1>9, <1>10 DEF IInv, NetOK
<1>12. group_crit' = \A t \in Sub : met'[t]
  <2>1. prev'[LastSub] <=> \A x \in Children(LastSub) : Aggregate(x)
    BY <1>1 DEF Work
  <2>2. ASSUME NEW x \in Sub \ {LastSub}, Up(x) # LastSub
        PROVE  Aggregate(x) = met[x]
    BY <1>3, <1>4, <2>2, UpFacts DEF Aggregate, IInv, TypeOK
  <2>3. ASSUME NEW x \in Children(LastSub)
        PROVE  Aggregate(x) <=> met[x] /\ \A y \in Children(x) : met[y]
    <3>1. prev[x] <=> \A y \in Children(x) : Aggregate(y)
      BY <1>2, <1>3
    <3>2. \A y \in Children(x) : y \in Sub \ {LastSub} /\ Up(y) # LastSub
      BY <1>2 DEF Children
    <3>3. \A y \in Children(x) : Aggregate(y) = met[y]
      BY <2>2, <3>2
    <3> QED BY <3>1, <3>3 DEF Aggregate
  <2>4. (\A x \in Children(LastSub) : Aggregate(x))
          <=> \A x \in Sub \ {LastSub} : met[x]
    <3>1. ASSUME \A x \in Children(LastSub) : Aggregate(x), NEW x \in Sub \ {LastSub}
          PROVE  met[x]
      <4>1. CASE x \in Children(LastSub)
        BY <2>3, <3>1, <4>1
      <4>2. CASE x \notin Children(LastSub)
        <5>1. Up(x) # LastSub
          BY <4>2 DEF Children
        <5>2. Up(x) \in Children(LastSub) /\ x \in Children(Up(x))
          BY <5>1, UpFacts DEF Children
        <5> QED BY <2>3, <3>1, <5>2
      <4> QED BY <4>1, <4>2
    <3>2. ASSUME \A x \in Sub \ {LastSub} : met[x], NEW x \in Children(LastSub)
          PROVE  Aggregate(x)
      BY <1>2, <2>3, <3>2 DEF Children
    <3> QED BY <3>1, <3>2
  <2>5. \A x \in Sub \ {LastSub} : met'[x] = met[x]
    BY DEF Work
  <2>6. Aggregate(LastSub)' <=> \A t \in Sub : met'[t]
    BY <1>1, <2>1, <2>4, <2>5 DEF Aggregate
  <2>7. Aggregate(LastSub)' \in BOOLEAN
    BY <1>1 DEF Aggregate, TypeOK
  <2> QED BY <2>6, <2>7
<1> QED BY <1>6, <1>7, <1>11, <1>12 DEF DecisionStep

(***************************************************************************)
(* The actions of a tick.                                                  *)
(***************************************************************************)
LEMMA WorkStep ==
  ASSUME IInv, NEW s \in Sub, NEW n, NEW thread \in Thread, Work(s, n),
         TypeOK', ThreadDone(s, thread, n),
         PendingThreads(s)' = PendingThreads(s) \ {thread}
  PROVE  IInv' /\ DecisionStep
<1>1. pend[s] = PendingThreads(s) /\ pend[s] # {}
  BY DEF IInv, CoreOK, PendOK, Work
<1>2. pend \in [Sub -> SUBSET Thread]
  BY DEF IInv, TypeOK
<1>3. CASE /\ pend[s] # {thread}
           /\ pend' = [pend EXCEPT ![s] = @ \ {thread}]
           /\ net' = n
           /\ UNCHANGED <<reported, decision>>
  <2>1. /\ \A t \in Sub \ {s} : pend'[t] = pend[t]
        /\ pend'[s] = PendingThreads(s)' /\ pend'[s] # {}
    BY <1>1, <1>2, <1>3
  <2>2. IInv'
    BY <1>3, <2>1, QuietStep
  <2>3. advance' = advance
    BY <1>3 DEF decision
  <2> QED BY <2>2, <2>3 DEF DecisionStep
<1>4. CASE /\ pend[s] = {thread} /\ s # LastSub
           /\ reported' = [reported EXCEPT ![s] = TRUE]
           /\ net' = n \cup {[src |-> s, b |-> Aggregate(s)', tick |-> tick[s]]}
           /\ UNCHANGED <<pend, decision>>
  <2>1. PendingThreads(s)' = {}
    BY <1>1, <1>4
  <2>2. IInv'
    BY <1>4, <2>1, ReportStep
  <2>3. advance' = advance
    BY <1>4 DEF decision
  <2> QED BY <2>2, <2>3 DEF DecisionStep
<1>5. CASE /\ pend[s] = {thread} /\ s = LastSub
           /\ group_crit' = Aggregate(s)'
           /\ stp' = Sub \ {LastSub} /\ advance' = TRUE /\ net' = n
  <2>1. PendingThreads(s)' = {}
    BY <1>1, <1>5
  <2> QED BY <1>5, <2>1, DecideStep
<1> QED BY <1>3, <1>4, <1>5 DEF ThreadDone, stop_link

LEMMA ThreadDoneType ==
  ASSUME TypeOK, NEW s \in Sub, NEW thread, NEW n \in SUBSET net, ThreadDone(s, thread, n),
         met' \in [Sub -> BOOLEAN], prev' \in [Sub -> BOOLEAN]
  PROVE  /\ pend' \in [Sub -> SUBSET Thread] /\ reported' \in [Sub -> BOOLEAN]
         /\ advance' \in BOOLEAN /\ group_crit' \in BOOLEAN
         /\ stp' \subseteq Sub \ {LastSub}
         /\ \A p \in net' : p \in Packet
<1>1. Aggregate(s)' \in BOOLEAN /\ tick[s] \in Nat
  BY DEF Aggregate, TypeOK
<1>2. s # LastSub => [src |-> s, b |-> Aggregate(s)', tick |-> tick[s]] \in Packet
  BY <1>1 DEF Packet
<1>3. \A p \in net' : p \in Packet
  BY <1>2 DEF ThreadDone, TypeOK
<1>4. pend' \in [Sub -> SUBSET Thread] /\ reported' \in [Sub -> BOOLEAN]
  BY DEF ThreadDone, TypeOK
<1> QED BY <1>1, <1>3, <1>4 DEF ThreadDone, TypeOK, decision, stop_link

LEMMA ProcessStep ==
  ASSUME IInv, NEW s \in Sub, Process(s)
  PROVE  IInv' /\ DecisionStep
<1>1. TypeOK'
  <2>1. TypeOK
    BY DEF IInv
  <2>2. /\ tick' = tick /\ arrived' = arrived /\ prev' = prev /\ fsgn' = fsgn
        /\ proc' \in [Sub -> BOOLEAN] /\ met' \in [Sub -> BOOLEAN]
    BY <2>1 DEF Process, TypeOK
  <2> QED BY <2>1, <2>2, ThreadDoneType DEF Process, TypeOK
<1>2. ~proc[s] /\ CoreOK(s)
  BY DEF Process, IInv
<1>3. ~Behind(s) /\ ~reported[s] /\ CountOK(s)
  BY <1>2 DEF CoreOK, BehindOK, PendOK, Ready
<1>4. Work(s, net)
  BY <1>3 DEF Process, Work, CountOK, Got, IInv, TypeOK
<1>5. PendingThreads(s)' = PendingThreads(s) \ {"PROC"}
  <2>1. proc'[s]
    BY DEF Process, IInv, TypeOK
  <2>2. DoneThreads(s)' = DoneThreads(s) \cup {"PROC"}
    BY <1>2, <2>1 DEF Process, DoneThreads
  <2> QED BY <2>2 DEF PendingThreads, tf_thrds_init
<1> QED BY <1>1, <1>4, <1>5, WorkStep DEF Process, Thread

LEMMA ReceiveFsgnStep ==
  ASSUME IInv, ReceiveFsgn
  PROVE  IInv' /\ DecisionStep
<1>1. TypeOK'
  BY LastSubFacts, ThreadDoneType DEF IInv, ReceiveFsgn, TypeOK, board
<1>2. ~fsgn /\ CoreOK(LastSub) /\ LastSub \in Sub
  BY LastSubFacts DEF ReceiveFsgn, IInv
<1>3. ~Behind(LastSub) /\ ~reported[LastSub] /\ CountOK(LastSub)
  BY <1>2 DEF CoreOK, BehindOK, PendOK
<1>4. Work(LastSub, net)
  BY <1>3 DEF ReceiveFsgn, Work, CountOK, Got, board
<1>5. PendingThreads(LastSub)' = PendingThreads(LastSub) \ {"FSGN"}
  <2>1. DoneThreads(LastSub)' = DoneThreads(LastSub) \cup {"FSGN"}
    BY <1>2 DEF ReceiveFsgn, DoneThreads, board
  <2> QED BY <2>1 DEF PendingThreads, tf_thrds_init
<1> QED BY <1>1, <1>2, <1>4, <1>5, WorkStep DEF ReceiveFsgn, Thread

LEMMA ReceiveCritStep ==
  ASSUME IInv, NEW p \in net, ReceiveCrit(p)
  PROVE  IInv' /\ DecisionStep
<1> DEFINE s == Up(p.src)
           n == net \ {p}
<1>1. /\ p \in Packet /\ p.src \in Sub \ {LastSub} /\ s \in Sub
      /\ p.src \in Children(s)
      /\ ~Behind(p.src) /\ reported[p.src] /\ p.b = Aggregate(p.src)
      /\ p.tick = Current /\ p.tick = tick[s]
  BY UpFacts DEF IInv, TypeOK, NetOK, Packet, Children, ReceiveCrit
<1> HIDE DEF s
<1>2. p.src \notin Got(s)
  BY DEF Got, GotIn
<1>3. ~Behind(s)
  <2>1. tick[LastSub] \in Nat
    BY LastSubFacts DEF IInv, TypeOK
  <2> QED BY <1>1, <2>1 DEF IInv, Lockstep, Current
<1>4. ~reported[s] /\ CountOK(s)
  BY <1>1, <1>2, <1>3 DEF IInv, CoreOK, PendOK, Ready
<1>5. GotIn(s, n) = Got(s) \cup {p.src}
  <2>1. ASSUME NEW q \in net, q.src = p.src
        PROVE  q = p
    <3>1. q.tick = p.tick /\ q.b = p.b
      BY <1>1, <2>1 DEF IInv, NetOK
    <3> QED BY <1>1, <2>1, <3>1 DEF IInv, TypeOK, Packet
  <2> QED BY <1>1, <2>1 DEF Got, GotIn
<1>6. Cardinality(GotIn(s, n)) = Cardinality(Got(s)) + 1
  BY <1>1, <1>2, <1>5, GotFacts, FS_AddElement DEF Got
<1>7. /\ tick' = tick /\ proc' = proc /\ met' = met /\ fsgn' = fsgn
      /\ prev' = [prev EXCEPT ![s] = @ /\ p.b]
      /\ arrived' = [arrived EXCEPT ![s] = @ + 1]
  BY DEF ReceiveCrit, s
<1>8. /\ prev \in [Sub -> BOOLEAN] /\ arrived \in [Sub -> Nat] /\ p.b \in BOOLEAN
      /\ pend \in [Sub -> SUBSET Thread]
  BY <1>1 DEF IInv, TypeOK, Packet
<1>9. Work(s, n)
  <2>1. arrived'[s] = Cardinality(GotIn(s, n))
    BY <1>1, <1>4, <1>6, <1>7, <1>8 DEF CountOK
  <2>2. prev'[s] <=> \A x \in GotIn(s, n) : Aggregate(x)
    BY <1>1, <1>4, <1>5, <1>7, <1>8 DEF CountOK
  <2>3. \A q \in net \ n : Up(q.src) = s
    BY DEF s
  <2> QED BY <1>3, <1>4, <1>7, <1>8, <2>1, <2>2, <2>3 DEF Work
<1>10. arrived[s] # crit_expected(s) /\ crit_expected(s) # 0
  <2>1. Cardinality(GotIn(s, n)) <= crit_expected(s) /\ crit_expected(s) \in Nat
    BY <1>1, GotFacts, ChildrenCount, FS_CardinalityType
  <2> QED BY <1>1, <1>4, <1>6, <1>8, <2>1 DEF CountOK
<1>11. TypeOK /\ met' \in [Sub -> BOOLEAN] /\ prev' \in [Sub -> BOOLEAN]
       /\ arrived' \in [Sub -> Nat]
  BY <1>1, <1>7, <1>8 DEF IInv, TypeOK
<1>12. CASE arrived[s] + 1 = crit_expected(s) /\ ThreadDone(s, "CRIT", n)
  <2>1. TypeOK'
    <3> n \in SUBSET net
      OBVIOUS
    <3> HIDE DEF n
    <3> QED BY <1>1, <1>7, <1>11, <1>12, ThreadDoneType DEF TypeOK
  <2>2. DoneThreads(s)' = DoneThreads(s) \cup {"CRIT"}
    BY <1>1, <1>7, <1>8, <1>10, <1>12 DEF DoneThreads
  <2>3. PendingThreads(s)' = PendingThreads(s) \ {"CRIT"}
    BY <2>2 DEF PendingThreads, tf_thrds_init
  <2> HIDE DEF n
  <2> QED BY <1>1, <1>9, <1>12, <2>1, <2>3, WorkStep DEF Thread
<1>13. CASE /\ arrived[s] + 1 # crit_expected(s)
            /\ net' = n /\ UNCHANGED <<pend, reported, decision>>
  <2>1. TypeOK'
    BY <1>7, <1>11, <1>13 DEF TypeOK, decision
  <2>2. DoneThreads(s)' = DoneThreads(s)
    BY <1>1, <1>7, <1>8, <1>10, <1>13 DEF DoneThreads
  <2>3. PendingThreads(s)' = PendingThreads(s)
    BY <2>2 DEF PendingThreads, tf_thrds_init
  <2>4. pend[s] = PendingThreads(s) /\ pend[s] # {}
    BY <1>1, <1>3, <1>4 DEF IInv, CoreOK, PendOK
  <2>5. advance' = advance
    BY <1>13 DEF decision
  <2> HIDE DEF n
  <2> QED BY <1>1, <1>9, <1>13, <2>1, <2>3, <2>4, <2>5, QuietStep DEF DecisionStep
<1> QED BY <1>12, <1>13 DEF ReceiveCrit, s

(***************************************************************************)
(* A core that is behind joins the current tick.                           *)
(***************************************************************************)
LEMMA AdvanceStep ==
  ASSUME IInv, NEW s \in Sub, Behind(s), AdvanceTick(s), TypeOK',
         net' = net, ~Behind(s)', Current' = Current,
         \A t \in Sub \ {s} : Behind(t)' = Behind(t),
         IF s = LastSub THEN ~fsgn' ELSE fsgn' = fsgn
  PROVE  IInv'
<1>1. TypeOK /\ Lockstep /\ NetOK /\ BehindOK(s)
  BY DEF IInv, CoreOK
<1>2. /\ ~proc'[s] /\ arrived'[s] = 0 /\ prev'[s] /\ ~reported'[s]
      /\ pend'[s] = tf_thrds_init(s) /\ tick'[s] = tick[s] + 1
      /\ s = LastSub => ~fsgn'
  BY <1>1 DEF AdvanceTick, TypeOK
<1>3. ASSUME NEW t \in Sub \ {s}
      PROVE  /\ proc'[t] = proc[t] /\ arrived'[t] = arrived[t] /\ prev'[t] = prev[t]
             /\ reported'[t] = reported[t] /\ pend'[t] = pend[t] /\ tick'[t] = tick[t]
             /\ Aggregate(t)' = Aggregate(t) /\ (t = LastSub => fsgn' = fsgn)
  BY <1>1 DEF AdvanceTick, TypeOK, Aggregate
<1>4. ASSUME NEW t \in Sub
      PROVE  Got(t)' = Got(t) /\ s \notin Got(t)
  <2>1. ASSUME NEW x \in Children(t)
        PROVE  x \in Got(t)' <=> x \in Got(t)
    <3>1. CASE x = s
      BY <1>2, <3>1 DEF Got, GotIn
    <3>2. CASE x # s
      BY <1>3, <3>2 DEF Got, GotIn, Children
    <3> QED BY <3>1, <3>2
  <2>2. Got(t)' \subseteq Children(t) /\ Got(t) \subseteq Children(t)
    BY DEF Got, GotIn, Children
  <2> QED BY <2>1, <2>2 DEF Got, GotIn
<1>5. Lockstep'
  <2>1. tick'[s] = Current
    <3>1. tick[LastSub] \in Nat
      BY <1>1, LastSubFacts DEF TypeOK
    <3> QED BY <1>1, <1>2, <3>1 DEF Lockstep, Current
  <2> QED BY <1>1, <1>3, <2>1 DEF Lockstep
<1>6. NetOK'
  <2> SUFFICES ASSUME NEW p \in net
               PROVE  /\ ~Behind(p.src)' /\ reported'[p.src]
                      /\ p.tick = Current' /\ p.b = Aggregate(p.src)'
    BY DEF NetOK
  <2>1. p.src \in Sub \ {s}
    BY <1>1 DEF NetOK, TypeOK, Packet
  <2> QED BY <1>1, <1>3, <2>1 DEF NetOK
<1>7. CoreOK(s)'
  <2>1. Got(s)' = {}
    BY <1>1, <1>4 DEF BehindOK
  <2>2. CountOK(s)'
    BY <1>2, <2>1, FS_EmptySet DEF CountOK
  <2>3. PendingThreads(s)' = tf_thrds_init(s) /\ tf_thrds_init(s) # {}
    BY <1>2 DEF PendingThreads, DoneThreads, tf_thrds_init
  <2> QED BY <1>2, <2>2, <2>3 DEF CoreOK, PendOK
<1>8. ASSUME NEW t \in Sub \ {s}
      PROVE  CoreOK(t)'
  <2>1. \A x \in Got(t) : Aggregate(x)' = Aggregate(x)
    BY <1>3, <1>4 DEF Got, GotIn, Children
  <2>2. PendingThreads(t)' = PendingThreads(t)
    BY <1>3 DEF PendingThreads, DoneThreads, tf_thrds_init
  <2>3. Ready(t)' = Ready(t)
    BY <1>3, <1>4 DEF Ready
  <2>4. BehindOK(t) => BehindOK(t)'
    BY <1>3, <1>4 DEF BehindOK
  <2>5. CountOK(t) => CountOK(t)'
    BY <1>3, <1>4, <2>1 DEF CountOK
  <2>6. PendOK(t) => PendOK(t)'
    BY <1>3, <2>2, <2>3 DEF PendOK
  <2> QED BY <2>4, <2>5, <2>6 DEF IInv, CoreOK
<1> QED BY <1>5, <1>6, <1>7, <1>8 DEF IInv

LEMMA AdvanceType ==
  ASSUME TypeOK, NEW s \in Sub, AdvanceTick(s)
  PROVE  /\ tick' \in [Sub -> Nat] /\ arrived' \in [Sub -> Nat]
         /\ proc' \in [Sub -> BOOLEAN] /\ met' \in [Sub -> BOOLEAN]
         /\ prev' \in [Sub -> BOOLEAN] /\ reported' \in [Sub -> BOOLEAN]
         /\ pend' \in [Sub -> SUBSET Thread]
<1>1. tf_thrds_init(s) \in SUBSET Thread
  BY DEF tf_thrds_init, Thread
<1> QED BY <1>1 DEF TypeOK, AdvanceTick

LEMMA ReceiveStopStep ==
  ASSUME IInv, NEW s \in Sub, ReceiveStop(s)
  PROVE  IInv' /\ DecisionStep
<1>1. TypeOK /\ s \in stp /\ stp' = stp \ {s} /\ s # LastSub /\ net' = net
  BY DEF IInv, TypeOK, ReceiveStop
<1>2. TypeOK'
  BY <1>1, AdvanceType DEF ReceiveStop, TypeOK
<1>3. tick'[LastSub] = tick[LastSub] /\ advance' = advance /\ fsgn' = fsgn
  BY <1>1 DEF ReceiveStop, AdvanceTick, TypeOK
<1>4. /\ Behind(s) /\ ~Behind(s)' /\ Current' = Current
      /\ \A t \in Sub \ {s} : Behind(t)' = Behind(t)
  BY <1>1, <1>3 DEF Behind, Current
<1>5. AdvanceTick(s) /\ (IF s = LastSub THEN ~fsgn' ELSE fsgn' = fsgn)
  BY <1>1, <1>3 DEF ReceiveStop
<1>6. IInv'
  BY <1>1, <1>2, <1>4, <1>5, AdvanceStep
<1> QED BY <1>3, <1>6 DEF DecisionStep

LEMMA AdvanceLastStep ==
  ASSUME IInv, AdvanceLast
  PROVE  IInv' /\ DecisionStep
<1>1. /\ TypeOK /\ LastSub \in Sub /\ net' = net
      /\ advance /\ ~advance' /\ ~fsgn' /\ stp' = stp
  BY LastSubFacts DEF IInv, AdvanceLast
<1>2. TypeOK'
  BY <1>1, AdvanceType DEF AdvanceLast, TypeOK
<1>3. tick'[LastSub] = tick[LastSub] + 1
  BY <1>1 DEF AdvanceLast, AdvanceTick, TypeOK
<1>4. /\ Behind(LastSub) /\ ~Behind(LastSub)' /\ Current' = Current
      /\ \A t \in Sub \ {LastSub} : Behind(t)' = Behind(t)
  BY <1>1, <1>3 DEF Behind, Current
<1> QED BY <1>1, <1>2, <1>4, AdvanceStep DEF AdvanceLast, DecisionStep

LEMMA NextStep == IInv /\ [Next]_vars => IInv' /\ [DecisionStep]_vars
<1> SUFFICES ASSUME IInv, [Next]_vars
             PROVE  IInv' /\ [DecisionStep]_vars
  OBVIOUS
<1>1. CASE \E s \in Sub : Process(s) \/ ReceiveStop(s)
  BY <1>1, ProcessStep, ReceiveStopStep
<1>2. CASE \E p \in net : ReceiveCrit(p)
  BY <1>2, ReceiveCritStep
<1>3. CASE ReceiveFsgn
  BY <1>3, ReceiveFsgnStep
<1>4. CASE AdvanceLast
  BY <1>4, AdvanceLastStep
<1>5. CASE UNCHANGED vars
  <2>1. \A s \in Sub :
          /\ Behind(s)' = Behind(s) /\ Aggregate(s)' = Aggregate(s) /\ Got(s)' = Got(s)
          /\ PendingThreads(s)' = PendingThreads(s)
    BY <1>5 DEF vars, board, decision, Behind, Aggregate, Got, GotIn, Children,
                PendingThreads, DoneThreads, tf_thrds_init
  <2>2. Current' = Current
    BY <1>5 DEF vars, decision, Current
  <2>3. NetOK'
    BY <1>5, <2>2 DEF vars, board, decision, IInv, NetOK, Behind, Aggregate
  <2>4. \A s \in Sub : CoreOK(s)'
    <3> SUFFICES ASSUME NEW s \in Sub PROVE CoreOK(s)'
      OBVIOUS
    <3>1. \A x \in Got(s) : Aggregate(x)' = Aggregate(x)
      BY <2>1 DEF Got, GotIn, Children
    <3> QED BY <1>5, <2>1, <3>1
            DEF vars, board, decision, IInv, CoreOK, BehindOK, CountOK, PendOK, Ready
  <2>5. TypeOK' /\ Lockstep'
    BY <1>5, <2>1, <2>2 DEF vars, board, decision, IInv, TypeOK, Lockstep
  <2> QED BY <1>5, <2>3, <2>4, <2>5 DEF IInv
<1> QED BY <1>1, <1>2, <1>3, <1>4, <1>5 DEF Next, Terminated

LEMMA IInvSound == IInv => TypeOK /\ Lockstep /\ ScoreboardSound
<1> SUFFICES ASSUME IInv PROVE ScoreboardSound
  BY DEF IInv
<1>1. ASSUME NEW s \in Sub
      PROVE  arrived[s] <= crit_expected(s)
  <2>1. CoreOK(s) /\ crit_expected(s) \in Nat
    BY ChildrenCount, FS_CardinalityType DEF IInv
  <2> QED BY <2>1, GotFacts DEF CoreOK, BehindOK, CountOK, Got
<1> QED BY <1>1 DEF IInv, NetOK, ScoreboardSound

(***************************************************************************)
(* The theorems.                                                           *)
(***************************************************************************)
\* Every variable of the chain keeps its type; in particular the last T never
\* sends a criterion packet to itself (process_t.c, send_stop_crit).
THEOREM TypeCorrect == Spec => []TypeOK
  BY InitInv, NextStep, IInvSound, PTL DEF Spec

\* The threshold cores of any network are in the same tick, or in two
\* successive ones while the stop packets of a tick are delivered.
THEOREM LockstepHolds == Spec => []Lockstep
  BY InitInv, NextStep, IInvSound, PTL DEF Spec

\* No scoreboard is ever over-counted, and no criterion is counted in another
\* tick than it was sent in, whatever the shape of the network: the count that
\* the host writes into a core is that of the links that end there.
THEOREM ScoreboardsSound == Spec => []ScoreboardSound
  BY InitInv, NextStep, IInvSound, PTL DEF Spec

\* The last T decides only when all units of the network have been processed,
\* and by the criteria of all subgroups in this tick.
THEOREM DecisionsComplete == Spec => DecisionComplete
  BY InitInv, NextStep, PTL DEF Spec, DecisionComplete
=============================================================================
