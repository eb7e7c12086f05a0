--------------------------- MODULE PDP2StepProofs ---------------------------
(***************************************************************************)
(* First the links of the machine graph, for a network of any shape: how   *)
(* many lead into a core, and that a tick in which the last T has handled  *)
(* all it waits for is complete (FlowAssumption of TickFlow).  Then the    *)
(* steps of the machine inside a tick: each handler counts the packet it   *)
(* is given, and sends what has become due.                                *)
(***************************************************************************)
EXTENDS PDP2Flow, FiniteSetTheorems, WellFoundedInduction, TLAPS

(***************************************************************************)
(* Finite sets and sets of numbers.                                        *)
(***************************************************************************)
LEMMA ImageCard ==
  ASSUME NEW A, IsFiniteSet(A), NEW f, \A x, y \in A : f[x] = f[y] => x = y
  PROVE  IsFiniteSet({f[x] : x \in A}) /\ Cardinality({f[x] : x \in A}) = Cardinality(A)
<1>1. PICK R : R = {f[x] : x \in A}
  OBVIOUS
<1>2. [x \in A |-> f[x]] \in Bijection(A, R)
  BY <1>1 DEF Bijection, Injection, Surjection, IsInjective
<1>3. ExistsBijection(A, R)
  BY <1>2 DEF ExistsBijection
<1> QED BY <1>1, <1>3, FS_Bijection

\* Cardinalities of disjoint sets add up.
LEMMA DisjointCard ==
  ASSUME NEW X, NEW Y, IsFiniteSet(X), IsFiniteSet(Y), X \cap Y = {}
  PROVE  IsFiniteSet(X \cup Y) /\ Cardinality(X \cup Y) = Cardinality(X) + Cardinality(Y)
<1>1. Cardinality(X \cap Y) = 0
  BY FS_EmptySet
<1>2. Cardinality(X) \in Nat /\ Cardinality(Y) \in Nat
  BY FS_CardinalityType
<1>3. /\ IsFiniteSet(X \cup Y)
      /\ Cardinality(X \cup Y) = Cardinality(X) + Cardinality(Y) - Cardinality(X \cap Y)
  BY FS_Union
<1> QED BY <1>1, <1>2, <1>3

\* counting the elements of X that are in a set G, to which l is added
LEMMA CountAdd ==
  ASSUME NEW X, IsFiniteSet(X), NEW G, NEW l, l \notin G
  PROVE  Cardinality(X \cap (G \cup {l})) =
           IF l \in X THEN Cardinality(X \cap G) + 1 ELSE Cardinality(X \cap G)
<1>1. IsFiniteSet(X \cap G)
  <2>1. X \cap G \in SUBSET X
    OBVIOUS
  <2> QED BY <2>1, FS_Subset
<1>2. CASE l \in X
  <2>1. X \cap (G \cup {l}) = (X \cap G) \cup {l}
    BY <1>2
  <2>2. Cardinality((X \cap G) \cup {l}) = Cardinality(X \cap G) + 1
    BY <1>1, FS_AddElement
  <2> QED BY <1>2, <2>1, <2>2
<1>3. CASE l \notin X
  <2>1. X \cap (G \cup {l}) = X \cap G
    BY <1>3
  <2> QED BY <1>3, <2>1
<1> QED BY <1>2, <1>3

\* A set has been counted in full when the count is its cardinality.
LEMMA CountFull ==
  ASSUME NEW X, IsFiniteSet(X), NEW G
  PROVE  /\ Cardinality(X \cap G) \in Nat
         /\ Cardinality(X \cap G) <= Cardinality(X)
         /\ Cardinality(X \cap G) = Cardinality(X) <=> X \subseteq G
<1>1. X \cap G \in SUBSET X
  OBVIOUS
<1>2. /\ IsFiniteSet(X \cap G) /\ Cardinality(X \cap G) <= Cardinality(X)
      /\ Cardinality(X) = Cardinality(X \cap G) => X = X \cap G
  BY <1>1, FS_Subset
<1>3. Cardinality(X \cap G) \in Nat
  BY <1>2, FS_CardinalityType
<1>4. X \subseteq G => X \cap G = X
  OBVIOUS
<1> QED BY <1>2, <1>3, <1>4

\* Numbers have a least one,
LEMMA Least ==
  ASSUME NEW X \in SUBSET Nat, X # {}
  PROVE  \E x \in X : \A y \in X : x <= y
<1>1. \E x \in X : \A y \in X : ~ (<<y, x>> \in OpToRel(<, Nat))
  BY NatLessThanWellFounded, WFMin
<1>2. \A x, y \in X : <<y, x>> \in OpToRel(<, Nat) <=> y < x
  BY DEF OpToRel
<1>3. \A x, y \in X : ~ (y < x) => x <= y
  OBVIOUS
<1> QED BY <1>1, <1>2, <1>3

\* and bounded ones a greatest one.
LEMMA Greatest ==
  ASSUME NEW n \in Nat, NEW X \in SUBSET (1 .. n), X # {}
  PROVE  \E x \in X : \A y \in X : y <= x
<1>1. PICK Y : Y = {n - x : x \in X}
  OBVIOUS
<1>2. Y \in SUBSET Nat /\ Y # {}
  <2>1. \A x \in X : n - x \in Nat
    OBVIOUS
  <2> QED BY <1>1, <2>1
<1>3. PICK y \in Y : \A z \in Y : y <= z
  BY <1>2, Least
<1>4. PICK x \in X : y = n - x
  BY <1>1, <1>3
<1>5. ASSUME NEW z \in X
      PROVE  z <= x
  <2>1. n - z \in Y /\ z \in Int /\ x \in Int
    BY <1>1
  <2> QED BY <1>3, <1>4, <2>1
<1> QED BY <1>5

(***************************************************************************)
(* Sets.                                                                   *)
(***************************************************************************)
(***************************************************************************)
(* Subgroups.                                                              *)
(***************************************************************************)
LEMMA SubFacts ==
  /\ Sub = 1 .. Len(Group) /\ Len(Group) \in Nat /\ Group \in [Sub -> Nat]
  /\ IsFiniteSet(Sub) /\ Sub # {} /\ Sub \subseteq Nat \ {0} /\ FirstSub \in Sub
  /\ \A s \in Sub : FirstSub <= s
<1>1. Sub = 1 .. Len(Group) /\ Len(Group) \in Nat /\ Group \in [Sub -> Nat]
  BY GraphAssumption DEF Sub
<1>2. IsFiniteSet(Sub)
  BY <1>1, FS_Interval
<1>3. Sub # {}
  BY GraphAssumption DEF Groups
<1> QED BY <1>1, <1>2, <1>3 DEF FirstSub

\* The first subgroup of a group is the least of it,
LEMMA GroupFirstFacts ==
  ASSUME NEW s \in Sub
  PROVE  GroupFirst(s) \in Peers(s) /\ \A x \in Peers(s) : GroupFirst(s) <= x
<1>1. Peers(s) \in SUBSET Nat /\ Peers(s) # {}
  BY SubFacts DEF Peers
<1>2. \E t \in Peers(s) : \A x \in Peers(s) : t <= x
  BY <1>1, Least
<1> QED BY <1>2 DEF GroupFirst

\* and the last one the greatest.
LEMMA GroupLastFacts ==
  ASSUME NEW s \in Sub
  PROVE  GroupLast(s) \in Peers(s) /\ \A x \in Peers(s) : x <= GroupLast(s)
<1>1. Peers(s) \in SUBSET (1 .. Len(Group)) /\ Peers(s) # {}
  BY SubFacts DEF Peers
<1>2. \E t \in Peers(s) : \A x \in Peers(s) : x <= t
  BY <1>1, SubFacts, Greatest
<1> QED BY <1>2 DEF GroupLast

\* the first and the last subgroup of a group do not depend on the member
LEMMA PeersFacts ==
  ASSUME NEW s \in Sub, NEW t \in Peers(s)
  PROVE  /\ t \in Sub /\ s \in Peers(s) /\ Peers(t) = Peers(s)
         /\ GroupFirst(t) = GroupFirst(s) /\ GroupLast(t) = GroupLast(s)
<1>1. t \in Sub /\ s \in Peers(s) /\ Peers(t) = Peers(s)
  BY DEF Peers
<1> QED BY <1>1 DEF GroupFirst, GroupLast

\* The last T is that of the last subgroup of the last output group.
LEMMA LastSubFacts ==
  LastSub \in Sub /\ Group[LastSub] = LastOutGroup /\ LastSub = GroupLast(LastSub)
<1>1. PICK s \in Sub : Group[s] = LastOutGroup
  BY GraphAssumption DEF Groups
<1>2. GroupLast(s) \in Peers(s)
  BY GroupLastFacts
<1>3. GroupLast(s) \in Sub /\ Group[GroupLast(s)] = LastOutGroup
        /\ GroupLast(s) = GroupLast(GroupLast(s))
  BY <1>1, <1>2, PeersFacts DEF Peers
<1> QED BY <1>3 DEF LastSub

\* The first subgroup heads its own group.
LEMMA FirstSubFacts == FirstSub = GroupFirst(FirstSub)
<1>1. FirstSub \in Peers(FirstSub)
  BY SubFacts DEF Peers
<1>2. GroupFirst(FirstSub) \in Sub /\ GroupFirst(FirstSub) <= FirstSub
  BY <1>1, SubFacts, GroupFirstFacts, PeersFacts
<1> QED BY <1>2, SubFacts

(***************************************************************************)
(* Routes.                                                                 *)
(***************************************************************************)
\* where the packets of the sync generation tree and the criterion chain go
RootOf(s) == IF s = GroupFirst(s) THEN FirstSub ELSE GroupFirst(s)
HeadOf(s) == IF s = GroupLast(s) THEN LastSub ELSE GroupLast(s)

\* Sync generation and link delta sums go up to the first root, and on to the
\* last T.
LEMMA FsgRouteFacts ==
  ASSUME NEW s \in Sub
  PROVE  /\ s = FirstSub => FsgRoute(s) = {LastT}
         /\ s # FirstSub => FsgRoute(s) = {S(RootOf(s))} /\ RootOf(s) \in Sub /\ RootOf(s) # s
         /\ s # FirstSub /\ RootOf(s) # FirstSub => RootOf(RootOf(s)) = FirstSub
<1>1. GroupFirst(s) \in Sub /\ GroupFirst(s) = GroupFirst(GroupFirst(s))
  BY GroupFirstFacts, PeersFacts
<1>2. s = FirstSub => FsgRoute(s) = {LastT}
  BY DEF FsgRoute
<1>3. s # FirstSub /\ s = GroupFirst(s) => FsgRoute(s) = {S(FirstSub)}
  BY DEF FsgRoute
<1>4. s # FirstSub /\ s # GroupFirst(s) => FsgRoute(s) = {S(GroupFirst(s))}
  BY DEF FsgRoute
<1> QED BY <1>1, <1>2, <1>3, <1>4, SubFacts DEF RootOf

\* Criteria go to the head of the group, and on to the last T.
LEMMA StpRouteFacts ==
  ASSUME NEW s \in Sub
  PROVE  /\ s = LastSub => StpRoute(s) = Cores \ {LastT}
         /\ s # LastSub => StpRoute(s) = {T(HeadOf(s))} /\ HeadOf(s) \in Sub /\ HeadOf(s) # s
         /\ s # LastSub /\ HeadOf(s) # LastSub => HeadOf(HeadOf(s)) = LastSub
<1>1. GroupLast(s) \in Sub /\ GroupLast(s) = GroupLast(GroupLast(s))
  BY GroupLastFacts, PeersFacts
<1>2. s = LastSub => StpRoute(s) = Cores \ {LastT}
  BY DEF StpRoute
<1>3. s # LastSub /\ s = GroupLast(s) => StpRoute(s) = {T(LastSub)}
  BY DEF StpRoute, LastT
<1>4. s # LastSub /\ s # GroupLast(s) => StpRoute(s) = {T(GroupLast(s))}
  BY DEF StpRoute
<1> QED BY <1>1, <1>2, <1>3, <1>4, LastSubFacts DEF HeadOf

RootsTo(s) == {x \in Sub \ {FirstSub} : RootOf(x) = s}
HeadsTo(s) == {x \in Sub \ {LastSub} : HeadOf(x) = s}

\* a subgroup of each group
LEMMA GroupsCard ==
  ASSUME NEW f, NEW H, \A s \in Sub : f[s] \in Peers(s) /\ \A t \in Peers(s) : f[t] = f[s],
         H = {x \in Sub : f[x] = x}
  PROVE  IsFiniteSet(H) /\ IsFiniteSet(Groups) /\ Cardinality(H) = Cardinality(Groups)
<1>1. H \in SUBSET Sub
  OBVIOUS
<1>2. IsFiniteSet(H)
  BY <1>1, SubFacts, FS_Subset
<1>3. \A x, y \in H : Group[x] = Group[y] => x = y
  <2> SUFFICES ASSUME NEW x \in H, NEW y \in H, Group[x] = Group[y] PROVE x = y
    OBVIOUS
  <2>1. y \in Peers(x)
    BY DEF Peers
  <2> QED BY <2>1
<1>4. {Group[x] : x \in H} = Groups
  <2>1. ASSUME NEW s \in Sub
        PROVE  f[s] \in H /\ Group[f[s]] = Group[s]
    <3>1. f[s] \in Peers(s) /\ f[f[s]] = f[s]
      OBVIOUS
    <3> QED BY <3>1 DEF Peers
  <2> QED BY <1>1, <2>1 DEF Groups
<1> QED BY <1>2, <1>3, <1>4, ImageCard

\* fsgn_expected counts the roots that send to a root
LEMMA RootsCount ==
  ASSUME NEW s \in Sub
  PROVE  IsFiniteSet(RootsTo(s)) /\ Cardinality(RootsTo(s)) = FromRoots(s)
<1> DEFINE Mates == Peers(s) \ {s}
           H == {x \in Sub : GroupFirst(x) = x}
           Others == H \ {FirstSub}
<1>1. IsFiniteSet(RootsTo(s)) /\ IsFiniteSet(Peers(s)) /\ s \in Peers(s)
  <2>1. RootsTo(s) \in SUBSET Sub /\ Peers(s) \in SUBSET Sub
    BY DEF RootsTo, Peers
  <2> QED BY <2>1, SubFacts, FS_Subset DEF Peers
<1>2. IsFiniteSet(Mates) /\ Cardinality(Mates) = Cardinality(Peers(s)) - 1
  BY <1>1, FS_RemoveElement
<1>3. \A x \in Sub : GroupFirst(x) \in Peers(x) /\ \A t \in Peers(x) : GroupFirst(t) = GroupFirst(x)
  BY GroupFirstFacts, PeersFacts
<1>4. IsFiniteSet(H) /\ IsFiniteSet(Groups) /\ Cardinality(H) = Cardinality(Groups)
  <2>1. PICK f : f = [x \in Sub |-> GroupFirst(x)]
    OBVIOUS
  <2>2. \A x \in Sub : f[x] = GroupFirst(x) /\ Peers(x) \subseteq Sub
    BY <2>1 DEF Peers
  <2>3. \A x \in Sub : f[x] \in Peers(x) /\ \A t \in Peers(x) : f[t] = f[x]
    BY <1>3, <2>2
  <2>4. H = {x \in Sub : f[x] = x}
    BY <2>2
  <2> QED BY <2>3, <2>4, GroupsCard
<1>5. IsFiniteSet(Others) /\ Cardinality(Others) = Cardinality(Groups) - 1
  <2>1. FirstSub \in H
    BY FirstSubFacts, SubFacts
  <2> HIDE DEF H
  <2> QED BY <1>4, <2>1, FS_RemoveElement
<1>6. Cardinality(Peers(s)) \in Nat /\ Cardinality(Groups) \in Nat
  BY <1>1, <1>4, FS_CardinalityType
<1>7. CASE s # GroupFirst(s)
  <2>1. RootsTo(s) = {}
    BY <1>3, <1>7, FirstSubFacts, SubFacts DEF RootsTo, RootOf, Peers
  <2> QED BY <1>7, <2>1, FS_EmptySet DEF FromRoots
<1>8. ASSUME s = GroupFirst(s), NEW x \in Sub
      PROVE  x \in Mates <=> GroupFirst(x) # x /\ GroupFirst(x) = s
  BY <1>3, <1>8 DEF Peers
<1>9. CASE s = GroupFirst(s) /\ s # FirstSub
  <2>1. RootsTo(s) = Mates
    BY <1>8, <1>9, FirstSubFacts DEF RootsTo, RootOf, Peers
  <2> QED BY <1>1, <1>2, <1>6, <1>9, <2>1 DEF FromRoots
<1>10. CASE s = FirstSub
  <2>1. RootsTo(s) = Mates \cup Others
    BY <1>8, <1>10, FirstSubFacts DEF RootsTo, RootOf, Peers
  <2>2. Mates \cap Others = {}
    BY <1>8, <1>10, FirstSubFacts
  <2>3. Cardinality(Mates \cup Others) = Cardinality(Mates) + Cardinality(Others)
    <3> HIDE DEF Mates, Others
    <3> QED BY <1>2, <1>5, <2>2, DisjointCard
  <2> HIDE DEF Mates, Others
  <2> QED BY <1>1, <1>2, <1>5, <1>6, <1>10, <2>1, <2>3, FirstSubFacts DEF FromRoots
<1> QED BY <1>7, <1>9, <1>10

\* crit_expected counts the links of the criterion chain that end in a T core
LEMMA HeadsCount ==
  ASSUME NEW s \in Sub
  PROVE  IsFiniteSet(HeadsTo(s)) /\ Cardinality(HeadsTo(s)) = crit_expected(s)
<1> DEFINE Mates == Peers(s) \ {s}
           H == {x \in Sub : GroupLast(x) = x}
           Others == H \ {LastSub}
<1>1. IsFiniteSet(HeadsTo(s)) /\ IsFiniteSet(Peers(s)) /\ s \in Peers(s)
  <2>1. HeadsTo(s) \in SUBSET Sub /\ Peers(s) \in SUBSET Sub
    BY DEF HeadsTo, Peers
  <2> QED BY <2>1, SubFacts, FS_Subset DEF Peers
<1>2. IsFiniteSet(Mates) /\ Cardinality(Mates) = Cardinality(Peers(s)) - 1
  BY <1>1, FS_RemoveElement
<1>3. \A x \in Sub : GroupLast(x) \in Peers(x) /\ \A t \in Peers(x) : GroupLast(t) = GroupLast(x)
  BY GroupLastFacts, PeersFacts
<1>4. IsFiniteSet(H) /\ IsFiniteSet(Groups) /\ Cardinality(H) = Cardinality(Groups)
  <2>1. PICK f : f = [x \in Sub |-> GroupLast(x)]
    OBVIOUS
  <2>2. \A x \in Sub : f[x] = GroupLast(x) /\ Peers(x) \subseteq Sub
    BY <2>1 DEF Peers
  <2>3. \A x \in Sub : f[x] \in Peers(x) /\ \A t \in Peers(x) : f[t] = f[x]
    BY <1>3, <2>2
  <2>4. H = {x \in Sub : f[x] = x}
    BY <2>2
  <2> QED BY <2>3, <2>4, GroupsCard
<1>5. IsFiniteSet(Others) /\ Cardinality(Others) = Cardinality(Groups) - 1
  <2>1. LastSub \in H
    BY LastSubFacts
  <2> HIDE DEF H
  <2> QED BY <1>4, <2>1, FS_RemoveElement
<1>6. Cardinality(Peers(s)) \in Nat /\ Cardinality(Groups) \in Nat
  BY <1>1, <1>4, FS_CardinalityType
<1>7. CASE s # GroupLast(s)
  <2>1. HeadsTo(s) = {}
    BY <1>3, <1>7, LastSubFacts DEF HeadsTo, HeadOf, Peers
  <2> QED BY <1>7, <2>1, FS_EmptySet DEF crit_expected
<1>8. ASSUME s = GroupLast(s), NEW x \in Sub
      PROVE  x \in Mates <=> GroupLast(x) # x /\ GroupLast(x) = s
  BY <1>3, <1>8 DEF Peers
<1>9. CASE s = GroupLast(s) /\ s # LastSub
  <2>1. HeadsTo(s) = Mates
    BY <1>8, <1>9, LastSubFacts DEF HeadsTo, HeadOf, Peers
  <2> QED BY <1>1, <1>2, <1>6, <1>9, <2>1 DEF crit_expected
<1>10. CASE s = LastSub
  <2>1. HeadsTo(s) = Mates \cup Others
    BY <1>8, <1>10, LastSubFacts DEF HeadsTo, HeadOf, Peers
  <2>2. Mates \cap Others = {}
    BY <1>8, <1>10, LastSubFacts
  <2>3. Cardinality(Mates \cup Others) = Cardinality(Mates) + Cardinality(Others)
    <3> HIDE DEF Mates, Others
    <3> QED BY <1>2, <1>5, <2>2, DisjointCard
  <2> HIDE DEF Mates, Others
  <2> QED BY <1>1, <1>2, <1>5, <1>6, <1>10, <2>1, <2>3, LastSubFacts DEF crit_expected
<1> QED BY <1>7, <1>9, <1>10

(***************************************************************************)
(* Links, one by one.                                                      *)
(***************************************************************************)
LEMMA TreeIntro ==
  ASSUME NEW kind, NEW roots, NEW s \in roots, NEW d \in FsgRoute(s)
  PROVE  Link(kind, S(s), d, 0) \in TreeLinks(kind, roots)
  BY DEF TreeLinks

\* Links that are in the chain,
LEMMA ChainIntro ==
  ASSUME NEW kind, NEW s \in Sub \ {LastSub}, NEW d \in StpRoute(s)
  PROVE  Link(kind, T(s), d, 0) \in ChainLinks(kind)
  BY DEF ChainLinks

\* in the FORWARD phase,
LEMMA ForwardIntro ==
  ASSUME NEW to \in Sub, NEW from \in Sub, NEW u \in Unit
  PROVE  /\ FwdWS(to, from, u) \in ForwardLinks /\ FwdSI(to, u) \in ForwardLinks
         /\ FwdIT(to, u) \in ForwardLinks /\ FwdTW(to, from, u) \in ForwardLinks
         /\ FsgnW(to, from) \in ForwardLinks
         /\ \A d \in FsgRoute(to) : FsgnS(to, d) \in ForwardLinks
         /\ to # LastSub => \A d \in StpRoute(to) : CritT(to, d) \in ForwardLinks
<1>1. \A d \in FsgRoute(to) : FsgnS(to, d) \in TreeLinks("fsgn", Sub)
  BY TreeIntro DEF FsgnS
<1>2. to # LastSub => \A d \in StpRoute(to) : CritT(to, d) \in ChainLinks("crit")
  BY ChainIntro DEF CritT
<1> QED BY <1>1, <1>2 DEF ForwardLinks

\* in the BACKPROP phase,
LEMMA BackpropIntro ==
  ASSUME NEW to \in Sub, NEW from \in Sub, NEW u \in Unit
  PROVE  /\ BkpTI(to, u) \in BackpropLinks /\ BkpIW(to, from, u) \in BackpropLinks
         /\ BkpWS(to, from, u) \in BackpropLinks /\ BkpST(to, u) \in BackpropLinks
         /\ \A d \in FsgRoute(to) : BsgnS(to, d) \in BackpropLinks
         /\ to # LastSub => \A d \in StpRoute(to) : BsgnT(to, d) \in BackpropLinks
<1>1. \A d \in FsgRoute(to) : BsgnS(to, d) \in TreeLinks("bsgn", Sub)
  BY TreeIntro DEF BsgnS
<1>2. to # LastSub => \A d \in StpRoute(to) : BsgnT(to, d) \in ChainLinks("bsgn")
  BY ChainIntro DEF BsgnT
<1> QED BY <1>1, <1>2 DEF BackpropLinks

\* and for the link delta sum.
LEMMA DeltaSumIntro ==
  ASSUME NEW to \in Sub, NEW from \in Sub, NEW u \in Unit
  PROVE  /\ LdsW(to, from, u) \in DeltaSumLinks
         /\ to # FirstSub => \A d \in FsgRoute(to) : LdsS(to, d) \in DeltaSumLinks
<1>1. to # FirstSub => \A d \in FsgRoute(to) : LdsS(to, d) \in TreeLinks("lds", Sub \ {FirstSub})
  BY TreeIntro DEF LdsS
<1> QED BY <1>1 DEF DeltaSumLinks

ForwardKind(l) ==
  \/ \E to, from \in Sub, u \in Unit : l = FwdWS(to, from, u) \/ l = FwdTW(to, from, u)
  \/ \E s \in Sub, u \in Unit : l = FwdSI(s, u) \/ l = FwdIT(s, u)
  \/ \E to, from \in Sub : l = FsgnW(to, from)
  \/ \E s \in Sub, d \in Cores : l = FsgnS(s, d) /\ d \in FsgRoute(s)
  \/ \E s \in Sub \ {LastSub}, d \in Cores : l = CritT(s, d) /\ d \in StpRoute(s)

BackpropKind(l) ==
  \/ \E to, from \in Sub, u \in Unit : l = BkpWS(to, from, u) \/ l = BkpIW(to, from, u)
  \/ \E s \in Sub, u \in Unit : l = BkpTI(s, u) \/ l = BkpST(s, u)
  \/ \E s \in Sub, d \in Cores : l = BsgnS(s, d) /\ d \in FsgRoute(s)
  \/ \E s \in Sub \ {LastSub}, d \in Cores : l = BsgnT(s, d) /\ d \in StpRoute(s)

DeltaSumKind(l) ==
  \/ \E to, from \in Sub, u \in Unit : l = LdsW(to, from, u)
  \/ \E s \in Sub \ {FirstSub}, d \in Cores : l = LdsS(s, d) /\ d \in FsgRoute(s)

\* The cores of a subgroup are cores of the machine.
LEMMA CoreFacts ==
  ASSUME NEW s \in Sub
  PROVE  /\ S(s) \in Cores /\ I(s) \in Cores /\ T(s) \in Cores /\ LastT \in Cores
         /\ \A t \in Sub : W(s, t) \in WCores /\ W(s, t) \in Cores
  BY LastSubFacts DEF Cores, WCores, LastT

\* Every link of a tree is that of a root,
LEMMA TreeElim ==
  ASSUME NEW kind, NEW roots \in SUBSET Sub, NEW l \in TreeLinks(kind, roots)
  PROVE  \E s \in roots, d \in Cores : l = Link(kind, S(s), d, 0) /\ d \in FsgRoute(s)
<1>1. \A s \in roots : FsgRoute(s) \subseteq Cores
  BY FsgRouteFacts, CoreFacts
<1> QED BY <1>1 DEF TreeLinks

\* of the chain that of a threshold core,
LEMMA ChainElim ==
  ASSUME NEW kind, NEW l \in ChainLinks(kind)
  PROVE  \E s \in Sub \ {LastSub}, d \in Cores :
           l = Link(kind, T(s), d, 0) /\ d \in StpRoute(s)
<1>1. \A s \in Sub : StpRoute(s) \subseteq Cores
  BY StpRouteFacts, CoreFacts
<1> QED BY <1>1 DEF ChainLinks

\* and every link is of one of the kinds of its phase.
LEMMA ForwardElim == ASSUME NEW l \in ForwardLinks PROVE ForwardKind(l)
<1>1. CASE l \in TreeLinks("fsgn", Sub)
  BY <1>1, TreeElim DEF ForwardKind, FsgnS
<1>2. CASE l \in ChainLinks("crit")
  BY <1>2, ChainElim DEF ForwardKind, CritT
<1>3. CASE l \notin TreeLinks("fsgn", Sub) /\ l \notin ChainLinks("crit")
  BY <1>3 DEF ForwardLinks, ForwardKind
<1> QED BY <1>1, <1>2, <1>3

\* The same in BACKPROP.
LEMMA BackpropElim == ASSUME NEW l \in BackpropLinks PROVE BackpropKind(l)
<1>1. CASE l \in TreeLinks("bsgn", Sub)
  BY <1>1, TreeElim DEF BackpropKind, BsgnS
<1>2. CASE l \in ChainLinks("bsgn")
  BY <1>2, ChainElim DEF BackpropKind, BsgnT
<1>3. CASE l \notin TreeLinks("bsgn", Sub) /\ l \notin ChainLinks("bsgn")
  BY <1>3 DEF BackpropLinks, BackpropKind
<1> QED BY <1>1, <1>2, <1>3

\* The same for the link delta sum.
LEMMA DeltaSumElim == ASSUME NEW l \in DeltaSumLinks PROVE DeltaSumKind(l)
<1>1. CASE l \in TreeLinks("lds", Sub \ {FirstSub})
  BY <1>1, TreeElim DEF DeltaSumKind, LdsS
<1> QED BY <1>1 DEF DeltaSumLinks, DeltaSumKind

\* There are Units units.
LEMMA UnitFacts == 0 \in Unit /\ IsFiniteSet(Unit) /\ Cardinality(Unit) = Units /\ Units \in Nat \ {0}
<1>1. Units \in Nat \ {0}
  BY GraphAssumption
<1>2. IsFiniteSet(0 .. Units - 1) /\ Cardinality(0 .. Units - 1) = Units
  BY <1>1, FS_Interval
<1> QED BY <1>1, <1>2 DEF Unit

\* A core is told by its kind and its subgroups,
LEMMA CoresApart ==
  /\ \A s, t : W(s, t)[1] = "W" /\ W(s, t)[2] = s /\ W(s, t)[3] = t
  /\ \A s : S(s)[1] = "S" /\ S(s)[2] = s
  /\ \A s : I(s)[1] = "I" /\ I(s)[2] = s
  /\ \A s : T(s)[1] = "T" /\ T(s)[2] = s
  BY DEF W, S, I, T

\* a link by its four components.
LEMMA LinkApart ==
  \A k, a, b, u : /\ Link(k, a, b, u)[1] = k /\ Link(k, a, b, u)[2] = a
                  /\ Link(k, a, b, u)[3] = b /\ Link(k, a, b, u)[4] = u
  BY DEF Link

\* Components of every kind of link.
LEMMA LinkTable ==
  /\ \A x, y, u : LET l == FwdWS(x, y, u) IN l[1] = "fwd" /\ l[2] = W(x, y) /\ l[3] = S(x) /\ l[4] = u
  /\ \A x, u : LET l == FwdSI(x, u) IN l[1] = "fwd" /\ l[2] = S(x) /\ l[3] = I(x) /\ l[4] = u
  /\ \A x, u : LET l == FwdIT(x, u) IN l[1] = "fwd" /\ l[2] = I(x) /\ l[3] = T(x) /\ l[4] = u
  /\ \A x, y, u : LET l == FwdTW(x, y, u) IN l[1] = "fwd" /\ l[2] = T(y) /\ l[3] = W(x, y) /\ l[4] = u
  /\ \A x, y : LET l == FsgnW(x, y) IN l[1] = "fsgn" /\ l[2] = W(x, y) /\ l[3] = S(x) /\ l[4] = 0
  /\ \A x, d : LET l == FsgnS(x, d) IN l[1] = "fsgn" /\ l[2] = S(x) /\ l[3] = d /\ l[4] = 0
  /\ \A x, d : LET l == CritT(x, d) IN l[1] = "crit" /\ l[2] = T(x) /\ l[3] = d /\ l[4] = 0
  /\ \A x, u : LET l == BkpTI(x, u) IN l[1] = "bkp" /\ l[2] = T(x) /\ l[3] = I(x) /\ l[4] = u
  /\ \A x, y, u : LET l == BkpIW(x, y, u) IN l[1] = "bkp" /\ l[2] = I(x) /\ l[3] = W(x, y) /\ l[4] = u
  /\ \A x, y, u : LET l == BkpWS(x, y, u) IN l[1] = "bkp" /\ l[2] = W(x, y) /\ l[3] = S(y) /\ l[4] = u
  /\ \A x, u : LET l == BkpST(x, u) IN l[1] = "bkp" /\ l[2] = S(x) /\ l[3] = T(x) /\ l[4] = u
  /\ \A x, d : LET l == BsgnS(x, d) IN l[1] = "bsgn" /\ l[2] = S(x) /\ l[3] = d /\ l[4] = 0
  /\ \A x, d : LET l == BsgnT(x, d) IN l[1] = "bsgn" /\ l[2] = T(x) /\ l[3] = d /\ l[4] = 0
  /\ \A x, y, u : LET l == LdsW(x, y, u) IN l[1] = "lds" /\ l[2] = W(x, y) /\ l[3] = S(x) /\ l[4] = u
  /\ \A x, d : LET l == LdsS(x, d) IN l[1] = "lds" /\ l[2] = S(x) /\ l[3] = d /\ l[4] = 0
  BY DEF Link, FwdWS, FwdSI, FwdIT, FwdTW, FsgnW, FsgnS, CritT,
         BkpTI, BkpIW, BkpWS, BkpST, BsgnS, BsgnT, LdsW, LdsS

\* Links go from core to core.
LEMMA LinkTyped ==
  ASSUME NEW l \in AllLinks
  PROVE  l = Link(l[1], l[2], l[3], l[4]) /\ l[2] \in Cores /\ l[3] \in Cores /\ l[4] \in Unit
<1> USE UnitFacts, CoreFacts, LinkApart
<1>1. CASE l \in ForwardLinks
  BY <1>1, ForwardElim DEF ForwardKind, FwdWS, FwdSI, FwdIT, FwdTW, FsgnW, FsgnS, CritT
<1>2. CASE l \in BackpropLinks
  BY <1>2, BackpropElim DEF BackpropKind, BkpTI, BkpIW, BkpWS, BkpST, BsgnS, BsgnT
<1>3. CASE l \in DeltaSumLinks
  BY <1>3, DeltaSumElim DEF DeltaSumKind, LdsW, LdsS
<1> QED BY <1>1, <1>2, <1>3 DEF AllLinks

\* The kinds of packet of each phase.
LEMMA LinkClass ==
  /\ \A l \in ForwardLinks : l[1] \in {"fwd", "fsgn", "crit"}
  /\ \A l \in BackpropLinks : l[1] \in {"bkp", "bsgn"}
  /\ \A l \in DeltaSumLinks : l[1] = "lds"
<1> USE LinkApart
<1>1. \A l \in ForwardLinks : l[1] \in {"fwd", "fsgn", "crit"}
  BY ForwardElim DEF ForwardKind, FwdWS, FwdSI, FwdIT, FwdTW, FsgnW, FsgnS, CritT
<1>2. \A l \in BackpropLinks : l[1] \in {"bkp", "bsgn"}
  BY BackpropElim DEF BackpropKind, BkpTI, BkpIW, BkpWS, BkpST, BsgnS, BsgnT
<1>3. \A l \in DeltaSumLinks : l[1] = "lds"
  BY DeltaSumElim DEF DeltaSumKind, LdsW, LdsS
<1> QED BY <1>1, <1>2, <1>3

(***************************************************************************)
(* What leads into a core.                                                 *)
(***************************************************************************)
LEMMA IntoW ==
  ASSUME NEW to \in Sub, NEW from \in Sub
  PROVE  /\ Into({"fwd"}, W(to, from)) = {FwdTW(to, from, u) : u \in Unit}
         /\ Into({"bkp"}, W(to, from)) = {BkpIW(to, from, u) : u \in Unit}
         /\ \A u \in Unit : IntoUnit("bkp", W(to, from), u) = {BkpIW(to, from, u)}
<1> USE LinkTable, CoresApart
<1>1. ASSUME NEW l \in AllLinks, l[3] = W(to, from)
      PROVE  /\ l[1] = "fwd" => \E u \in Unit : l = FwdTW(to, from, u)
             /\ l[1] = "bkp" => \E u \in Unit : l = BkpIW(to, from, u)
  <2>1. CASE l \in ForwardLinks
    BY <1>1, <2>1, ForwardElim DEF ForwardKind
  <2>2. CASE l \in BackpropLinks
    BY <1>1, <2>2, BackpropElim DEF BackpropKind
  <2>3. CASE l \in DeltaSumLinks
    BY <2>3, LinkClass
  <2> QED BY <2>1, <2>2, <2>3 DEF AllLinks
<1>2. \A u \in Unit : FwdTW(to, from, u) \in AllLinks /\ BkpIW(to, from, u) \in AllLinks
  BY ForwardIntro, BackpropIntro DEF AllLinks
<1>3. \A u : /\ FwdTW(to, from, u)[1] = "fwd" /\ FwdTW(to, from, u)[3] = W(to, from)
             /\ BkpIW(to, from, u)[1] = "bkp" /\ BkpIW(to, from, u)[3] = W(to, from)
             /\ BkpIW(to, from, u)[4] = u
  OBVIOUS
<1> QED BY <1>1, <1>2, <1>3 DEF Into, IntoUnit

\* The links into an input core,
LEMMA IntoI ==
  ASSUME NEW s \in Sub, NEW u \in Unit
  PROVE  /\ IntoUnit("fwd", I(s), u) = {FwdSI(s, u)}
         /\ IntoUnit("bkp", I(s), u) = {BkpTI(s, u)}
<1> USE LinkTable, CoresApart
<1>1. ASSUME NEW l \in AllLinks, l[3] = I(s), l[4] = u
      PROVE  /\ l[1] = "fwd" => l = FwdSI(s, u)
             /\ l[1] = "bkp" => l = BkpTI(s, u)
  <2>1. CASE l \in ForwardLinks
    BY <1>1, <2>1, ForwardElim DEF ForwardKind
  <2>2. CASE l \in BackpropLinks
    BY <1>1, <2>2, BackpropElim DEF BackpropKind
  <2>3. CASE l \in DeltaSumLinks
    BY <2>3, LinkClass
  <2> QED BY <2>1, <2>2, <2>3 DEF AllLinks
<1>2. FwdSI(s, u) \in AllLinks /\ BkpTI(s, u) \in AllLinks
  BY ForwardIntro, BackpropIntro DEF AllLinks
<1> QED BY <1>1, <1>2 DEF IntoUnit

\* a sum core,
LEMMA IntoS ==
  ASSUME NEW s \in Sub
  PROVE  /\ \A u \in Unit : IntoUnit("fwd", S(s), u) = {FwdWS(s, from, u) : from \in Sub}
         /\ \A u \in Unit : IntoUnit("bkp", S(s), u) = {BkpWS(to, s, u) : to \in Sub}
         /\ Into({"fsgn"}, S(s)) = {FsgnW(s, from) : from \in Sub}
                                     \cup {FsgnS(x, S(s)) : x \in RootsTo(s)}
         /\ Into({"bsgn"}, S(s)) = {BsgnS(x, S(s)) : x \in RootsTo(s)}
         /\ Into({"lds"}, S(s)) = {LdsW(s, from, u) : from \in Sub, u \in Unit}
                                     \cup {LdsS(x, S(s)) : x \in RootsTo(s)}
<1> USE LinkTable, CoresApart
<1>1. \A x \in Sub : S(s) \in FsgRoute(x) <=> x \in RootsTo(s)
  BY FsgRouteFacts DEF RootsTo, LastT
<1>2. ASSUME NEW l \in AllLinks, l[3] = S(s)
      PROVE  /\ l[1] = "fwd" => \E from \in Sub : l = FwdWS(s, from, l[4])
             /\ l[1] = "bkp" => \E to \in Sub : l = BkpWS(to, s, l[4])
             /\ l[1] = "fsgn" => \/ \E from \in Sub : l = FsgnW(s, from)
                                 \/ \E x \in RootsTo(s) : l = FsgnS(x, S(s))
             /\ l[1] = "bsgn" => \E x \in RootsTo(s) : l = BsgnS(x, S(s))
             /\ l[1] = "lds" => \/ \E from \in Sub, u \in Unit : l = LdsW(s, from, u)
                                \/ \E x \in RootsTo(s) : l = LdsS(x, S(s))
  <2>1. CASE l \in ForwardLinks
    BY <1>1, <1>2, <2>1, ForwardElim, LinkClass DEF ForwardKind
  <2>2. CASE l \in BackpropLinks
    <3>1. \A x \in Sub \ {LastSub} : S(s) \notin StpRoute(x)
      BY StpRouteFacts
    <3> QED BY <1>1, <1>2, <2>2, <3>1, BackpropElim, LinkClass DEF BackpropKind
  <2>3. CASE l \in DeltaSumLinks
    BY <1>1, <1>2, <2>3, DeltaSumElim, LinkClass DEF DeltaSumKind
  <2> QED BY <2>1, <2>2, <2>3 DEF AllLinks
<1>3. \A x \in Sub, u \in Unit : FwdWS(s, x, u) \in AllLinks /\ BkpWS(x, s, u) \in AllLinks
                          /\ LdsW(s, x, u) \in AllLinks
  BY ForwardIntro, BackpropIntro, DeltaSumIntro DEF AllLinks
<1>4. \A x \in Sub : FsgnW(s, x) \in AllLinks
  BY ForwardIntro, UnitFacts DEF AllLinks
<1>5. \A x \in RootsTo(s) : FsgnS(x, S(s)) \in AllLinks /\ BsgnS(x, S(s)) \in AllLinks
                        /\ LdsS(x, S(s)) \in AllLinks
  <2> SUFFICES ASSUME NEW x \in RootsTo(s)
               PROVE  FsgnS(x, S(s)) \in AllLinks /\ BsgnS(x, S(s)) \in AllLinks
                        /\ LdsS(x, S(s)) \in AllLinks
    OBVIOUS
  <2>1. x \in Sub /\ x # FirstSub /\ S(s) \in FsgRoute(x)
    BY <1>1 DEF RootsTo
  <2> QED BY <2>1, ForwardIntro, BackpropIntro, DeltaSumIntro, UnitFacts DEF AllLinks
<1>6. \A u \in Unit : IntoUnit("fwd", S(s), u) = {FwdWS(s, from, u) : from \in Sub}
                  /\ IntoUnit("bkp", S(s), u) = {BkpWS(to, s, u) : to \in Sub}
  BY <1>2, <1>3 DEF IntoUnit
<1>7. Into({"fsgn"}, S(s)) = {FsgnW(s, from) : from \in Sub}
                              \cup {FsgnS(x, S(s)) : x \in RootsTo(s)}
  BY <1>2, <1>4, <1>5 DEF Into
<1>8. Into({"bsgn"}, S(s)) = {BsgnS(x, S(s)) : x \in RootsTo(s)}
  BY <1>2, <1>5 DEF Into
<1>9. Into({"lds"}, S(s)) = {LdsW(s, from, u) : from \in Sub, u \in Unit}
                             \cup {LdsS(x, S(s)) : x \in RootsTo(s)}
  BY <1>2, <1>3, <1>5 DEF Into
<1> QED BY <1>6, <1>7, <1>8, <1>9

\* a threshold core.
LEMMA IntoT ==
  ASSUME NEW s \in Sub
  PROVE  /\ Into({"fwd"}, T(s)) = {FwdIT(s, u) : u \in Unit}
         /\ \A u \in Unit : IntoUnit("fwd", T(s), u) = {FwdIT(s, u)}
         /\ Into({"crit"}, T(s)) = {CritT(x, T(s)) : x \in HeadsTo(s)}
         /\ Into({"fsgn"}, T(s)) = IF s = LastSub THEN {FsgnS(FirstSub, LastT)} ELSE {}
         /\ Into({"bkp"}, T(s)) = {BkpST(s, u) : u \in Unit}
         /\ Into({"bsgn"}, T(s)) = {BsgnT(x, T(s)) : x \in HeadsTo(s)}
                                     \cup IF s = LastSub THEN {BsgnS(FirstSub, LastT)} ELSE {}
         /\ Into({"lds"}, T(s)) = {}
<1> USE LinkTable, CoresApart
<1>1. \A x \in Sub \ {LastSub} : T(s) \in StpRoute(x) <=> x \in HeadsTo(s)
  BY StpRouteFacts DEF HeadsTo
<1>2. \A x \in Sub : T(s) \in FsgRoute(x) <=> x = FirstSub /\ s = LastSub
  BY FsgRouteFacts DEF LastT
<1>3. ASSUME NEW l \in AllLinks, l[3] = T(s)
      PROVE  /\ l[1] = "fwd" => l = FwdIT(s, l[4]) /\ l[4] \in Unit
             /\ l[1] = "bkp" => l = BkpST(s, l[4]) /\ l[4] \in Unit
             /\ l[1] = "crit" => \E x \in HeadsTo(s) : l = CritT(x, T(s))
             /\ l[1] = "fsgn" => l = FsgnS(FirstSub, LastT) /\ s = LastSub
             /\ l[1] = "bsgn" => \/ \E x \in HeadsTo(s) : l = BsgnT(x, T(s))
                                 \/ l = BsgnS(FirstSub, LastT) /\ s = LastSub
             /\ l[1] # "lds"
  <2>1. CASE l \in ForwardLinks
    BY <1>1, <1>2, <1>3, <2>1, ForwardElim, LinkClass DEF ForwardKind, LastT
  <2>2. CASE l \in BackpropLinks
    BY <1>1, <1>2, <1>3, <2>2, BackpropElim, LinkClass DEF BackpropKind, LastT
  <2>3. CASE l \in DeltaSumLinks
    BY <1>2, <1>3, <2>3, DeltaSumElim DEF DeltaSumKind
  <2> QED BY <2>1, <2>2, <2>3 DEF AllLinks
<1>4. \A u \in Unit : FwdIT(s, u) \in AllLinks /\ BkpST(s, u) \in AllLinks
  BY ForwardIntro, BackpropIntro DEF AllLinks
<1>5. \A x \in HeadsTo(s) : CritT(x, T(s)) \in AllLinks /\ BsgnT(x, T(s)) \in AllLinks
  <2> SUFFICES ASSUME NEW x \in HeadsTo(s)
               PROVE  CritT(x, T(s)) \in AllLinks /\ BsgnT(x, T(s)) \in AllLinks
    OBVIOUS
  <2>1. x \in Sub /\ x # LastSub /\ T(s) \in StpRoute(x)
    BY <1>1 DEF HeadsTo
  <2> QED BY <2>1, ForwardIntro, BackpropIntro, UnitFacts DEF AllLinks
<1>6. FsgnS(FirstSub, LastT) \in AllLinks /\ BsgnS(FirstSub, LastT) \in AllLinks
  BY ForwardIntro, BackpropIntro, UnitFacts, SubFacts, FsgRouteFacts DEF AllLinks
<1>7. LastT = T(LastSub)
  BY DEF LastT
<1>8. /\ Into({"fwd"}, T(s)) = {FwdIT(s, u) : u \in Unit}
      /\ \A u \in Unit : IntoUnit("fwd", T(s), u) = {FwdIT(s, u)}
      /\ Into({"bkp"}, T(s)) = {BkpST(s, u) : u \in Unit}
  BY <1>3, <1>4 DEF Into, IntoUnit
<1>9. /\ Into({"crit"}, T(s)) = {CritT(x, T(s)) : x \in HeadsTo(s)}
      /\ Into({"fsgn"}, T(s)) = IF s = LastSub THEN {FsgnS(FirstSub, LastT)} ELSE {}
      /\ Into({"lds"}, T(s)) = {}
  BY <1>3, <1>5, <1>6, <1>7 DEF Into
<1>10. Into({"bsgn"}, T(s)) = {BsgnT(x, T(s)) : x \in HeadsTo(s)}
                               \cup IF s = LastSub THEN {BsgnS(FirstSub, LastT)} ELSE {}
  BY <1>3, <1>5, <1>6, <1>7 DEF Into
<1> QED BY <1>8, <1>9, <1>10

(***************************************************************************)
(* The scoreboard targets count the links that lead into a core.           *)
(***************************************************************************)
Counts(X, n) == IsFiniteSet(X) /\ Cardinality(X) = n

\* A family of links over the units has Units members,
LEMMA CountsUnits ==
  ASSUME NEW f, \A u, v \in Unit : f[u] = f[v] => u = v
  PROVE  Counts({f[u] : u \in Unit}, Units)
  BY ImageCard, UnitFacts DEF Counts

\* one over subgroups as many as there are subgroups.
LEMMA CountsSub ==
  ASSUME NEW A \in SUBSET Sub, NEW f, \A x, y \in A : f[x] = f[y] => x = y
  PROVE  Counts({f[x] : x \in A}, Cardinality(A))
<1>1. IsFiniteSet(A)
  BY SubFacts, FS_Subset
<1> QED BY <1>1, ImageCard DEF Counts

\* The host's counts (config of a core) are the numbers of links into a weight
\* core,
LEMMA CountsW ==
  ASSUME NEW to \in Sub, NEW from \in Sub
  PROVE  /\ Counts(Into({"fwd"}, W(to, from)), Units)
         /\ Counts(Into({"bkp"}, W(to, from)), Units)
<1> DEFINE f == [u \in Unit |-> FwdTW(to, from, u)]
           g == [u \in Unit |-> BkpIW(to, from, u)]
<1>1. (\A u, v \in Unit : f[u] = f[v] => u = v) /\ (\A u, v \in Unit : g[u] = g[v] => u = v)
  BY LinkTable
<1>2. {f[u] : u \in Unit} = Into({"fwd"}, W(to, from)) /\ {g[u] : u \in Unit} = Into({"bkp"}, W(to, from))
  BY IntoW
<1> HIDE DEF f, g
<1> QED BY <1>1, <1>2, CountsUnits

\* a threshold core,
LEMMA CountsT ==
  ASSUME NEW s \in Sub
  PROVE  /\ Counts(Into({"fwd"}, T(s)), Units)
         /\ Counts(Into({"bkp"}, T(s)), Units)
         /\ Counts(Into({"crit"}, T(s)), crit_expected(s))
         /\ Counts(Into({"bsgn"}, T(s)), tb_bsgn_expected(s))
<1> DEFINE f == [u \in Unit |-> FwdIT(s, u)]
           g == [u \in Unit |-> BkpST(s, u)]
           c == [x \in HeadsTo(s) |-> CritT(x, T(s))]
           b == [x \in HeadsTo(s) |-> BsgnT(x, T(s))]
           R == {b[x] : x \in HeadsTo(s)}
           L == {BsgnS(FirstSub, LastT)}
<1>1. (\A u, v \in Unit : f[u] = f[v] => u = v) /\ (\A u, v \in Unit : g[u] = g[v] => u = v)
  BY LinkTable
<1>2. {f[u] : u \in Unit} = Into({"fwd"}, T(s)) /\ {g[u] : u \in Unit} = Into({"bkp"}, T(s))
  BY IntoT
<1>3. Counts(Into({"fwd"}, T(s)), Units) /\ Counts(Into({"bkp"}, T(s)), Units)
  <2> HIDE DEF f, g
  <2> QED BY <1>1, <1>2, CountsUnits
<1>4. /\ \A x, y \in HeadsTo(s) : c[x] = c[y] => x = y
      /\ \A x, y \in HeadsTo(s) : b[x] = b[y] => x = y
  BY LinkTable, CoresApart
<1>5. HeadsTo(s) \in SUBSET Sub
  BY DEF HeadsTo
<1>6. {c[x] : x \in HeadsTo(s)} = Into({"crit"}, T(s))
  BY IntoT
<1>7. Counts(Into({"crit"}, T(s)), crit_expected(s)) /\ Counts(R, crit_expected(s))
  <2> HIDE DEF c, b
  <2> QED BY <1>4, <1>5, <1>6, CountsSub, HeadsCount
<1>8. Into({"bsgn"}, T(s)) = R \cup (IF s = LastSub THEN L ELSE {})
  BY IntoT
<1>9. R \cap L = {}
  BY LinkTable, CoresApart
<1>10. crit_expected(s) \in Nat
  BY HeadsCount, FS_CardinalityType
<1> HIDE DEF R
<1>11. Counts(L, 1)
  BY FS_Singleton DEF Counts
<1> HIDE DEF L
<1>12. CASE s = LastSub
  <2>1. Counts(R \cup L, crit_expected(s) + 1)
    BY <1>7, <1>9, <1>11, DisjointCard DEF Counts
  <2>2. tb_bsgn_expected(s) = crit_expected(s) + 1
    BY <1>12 DEF tb_bsgn_expected, IsLast
  <2>3. Into({"bsgn"}, T(s)) = R \cup L
    BY <1>8, <1>12
  <2> QED BY <1>3, <1>7, <2>1, <2>2, <2>3
<1>13. CASE s # LastSub
  <2>1. Into({"bsgn"}, T(s)) = R
    BY <1>8, <1>13
  <2>2. tb_bsgn_expected(s) = crit_expected(s)
    BY <1>10, <1>13 DEF tb_bsgn_expected, IsLast
  <2> QED BY <1>3, <1>7, <2>1, <2>2
<1> QED BY <1>3, <1>7, <1>12, <1>13

\* a sum core.
LEMMA CountsS ==
  ASSUME NEW s \in Sub
  PROVE  /\ \A u \in Unit : Counts(IntoUnit("fwd", S(s), u), fwd_expected)
         /\ \A u \in Unit : Counts(IntoUnit("bkp", S(s), u), bkp_expected)
         /\ Counts(Into({"fsgn"}, S(s)), fsgn_expected(s))
         /\ Counts(Into({"bsgn"}, S(s)), bsgn_expected(s))
         /\ Counts(Into({"lds"}, S(s)), lds_expected(s))
<1>1. ASSUME NEW u \in Unit
      PROVE  /\ Counts(IntoUnit("fwd", S(s), u), fwd_expected)
             /\ Counts(IntoUnit("bkp", S(s), u), bkp_expected)
  <2> DEFINE f == [x \in Sub |-> FwdWS(s, x, u)]
             g == [x \in Sub |-> BkpWS(x, s, u)]
  <2>1. (\A x, y \in Sub : f[x] = f[y] => x = y) /\ (\A x, y \in Sub : g[x] = g[y] => x = y)
    BY LinkTable, CoresApart
  <2>2. {f[x] : x \in Sub} = IntoUnit("fwd", S(s), u) /\ {g[x] : x \in Sub} = IntoUnit("bkp", S(s), u)
    BY IntoS
  <2> HIDE DEF f, g
  <2> QED BY <2>1, <2>2, CountsSub DEF fwd_expected, bkp_expected
<1> DEFINE f == [x \in Sub |-> FsgnW(s, x)]
           h == [x \in RootsTo(s) |-> FsgnS(x, S(s))]
           b == [x \in RootsTo(s) |-> BsgnS(x, S(s))]
           d == [x \in RootsTo(s) |-> LdsS(x, S(s))]
           w == [x \in Sub \X Unit |-> LdsW(s, x[1], x[2])]
           FW == {f[x] : x \in Sub}
           FR == {h[x] : x \in RootsTo(s)}
           BR == {b[x] : x \in RootsTo(s)}
           DW == {w[x] : x \in Sub \X Unit}
           DR == {d[x] : x \in RootsTo(s)}
<1>2. /\ \A x, y \in Sub : f[x] = f[y] => x = y
      /\ \A x, y \in RootsTo(s) : h[x] = h[y] => x = y
      /\ \A x, y \in RootsTo(s) : b[x] = b[y] => x = y
      /\ \A x, y \in RootsTo(s) : d[x] = d[y] => x = y
  BY LinkTable, CoresApart
<1>3. \A x, y \in Sub \X Unit : w[x] = w[y] => x = y
  <2> SUFFICES ASSUME NEW x \in Sub \X Unit, NEW y \in Sub \X Unit, w[x] = w[y] PROVE x = y
    OBVIOUS
  <2>1. LdsW(s, x[1], x[2]) = LdsW(s, y[1], y[2])
    OBVIOUS
  <2>2. x[1] = y[1] /\ x[2] = y[2]
    BY <2>1, LinkTable, CoresApart
  <2> QED BY <2>2
<1>4. /\ Into({"fsgn"}, S(s)) = FW \cup FR /\ Into({"bsgn"}, S(s)) = BR
      /\ Into({"lds"}, S(s)) = DW \cup DR
  <2>1. DW = {LdsW(s, x, u) : x \in Sub, u \in Unit}
    <3>1. ASSUME NEW x \in Sub, NEW u \in Unit
          PROVE  LdsW(s, x, u) \in DW
      <4>1. <<x, u>> \in Sub \X Unit /\ w[<<x, u>>] = LdsW(s, x, u)
        OBVIOUS
      <4> HIDE DEF w
      <4> QED BY <4>1
    <3>2. \A x \in Sub \X Unit : w[x] = LdsW(s, x[1], x[2]) /\ x[1] \in Sub /\ x[2] \in Unit
      OBVIOUS
    <3> HIDE DEF w
    <3>3. \A z \in DW : \E x \in Sub, u \in Unit : z = LdsW(s, x, u)
      BY <3>2
    <3> HIDE DEF DW
    <3> QED BY <3>1, <3>3
  <2>2. FW = {FsgnW(s, x) : x \in Sub} /\ FR = {FsgnS(x, S(s)) : x \in RootsTo(s)}
          /\ BR = {BsgnS(x, S(s)) : x \in RootsTo(s)} /\ DR = {LdsS(x, S(s)) : x \in RootsTo(s)}
    OBVIOUS
  <2> HIDE DEF FW, FR, BR, DW, DR
  <2> QED BY <2>1, <2>2, IntoS
<1>5. FW \cap FR = {} /\ DW \cap DR = {}
  BY LinkTable, CoresApart
<1>6. RootsTo(s) \in SUBSET Sub /\ Sub \in SUBSET Sub
  BY DEF RootsTo
<1>7. IsFiniteSet(Sub \X Unit) /\ Cardinality(Sub \X Unit) = fwd_expected * Units
  BY SubFacts, UnitFacts, FS_Product DEF fwd_expected
<1> HIDE DEF f, h, b, d, w
<1>8. /\ Counts(FW, fwd_expected) /\ Counts(FR, FromRoots(s)) /\ Counts(BR, FromRoots(s))
      /\ Counts(DR, FromRoots(s))
  BY <1>2, <1>6, CountsSub, RootsCount DEF fwd_expected
<1>9. Counts(DW, fwd_expected * Units)
  BY <1>3, <1>7, ImageCard DEF Counts
<1>10. FromRoots(s) \in Nat /\ fwd_expected \in Nat /\ fwd_expected * Units \in Nat
  BY <1>7, RootsCount, SubFacts, FS_CardinalityType DEF fwd_expected
<1> HIDE DEF FW, FR, BR, DW, DR
<1>11. Counts(FW \cup FR, fwd_expected + FromRoots(s))
  BY <1>5, <1>8, DisjointCard DEF Counts
<1>12. Counts(DW \cup DR, fwd_expected * Units + FromRoots(s))
  BY <1>5, <1>8, <1>9, DisjointCard DEF Counts
<1>13. /\ fwd_expected + FromRoots(s) = fsgn_expected(s)
       /\ fwd_expected * Units + FromRoots(s) = lds_expected(s)
       /\ FromRoots(s) = bsgn_expected(s)
  BY <1>10 DEF fsgn_expected, lds_expected, bsgn_expected
<1> QED BY <1>1, <1>4, <1>8, <1>11, <1>12, <1>13

(***************************************************************************)
(* A tick in which the last T has handled all it waits for is complete.    *)
(***************************************************************************)
\* G holds what each of its links depends on
Closed(G, L) == \A l \in G, x \in L : x[3] = l[2] /\ Before(x, l) => x \in G

\* What the last T waits for in FORWARD depends on every link of the tick.
LEMMA ForwardClosed ==
  ASSUME NEW G \in SUBSET ForwardLinks, Closed(G, ForwardLinks),
         Into({"fwd", "fsgn", "crit"}, LastT) \subseteq G
  PROVE  ForwardLinks \subseteq G
<1> USE LinkTable, CoresApart
<1> DEFINE To(k, c) == {l \in ForwardLinks : l[1] = k /\ l[3] = c}
<1>1. \A k \in {"fwd", "fsgn", "crit"} : To(k, LastT) \subseteq G
  BY DEF Into, AllLinks
<1>2. \A s \in Sub \ {LastSub} : CritT(s, T(HeadOf(s))) \in ForwardLinks
  BY ForwardIntro, StpRouteFacts, UnitFacts
<1>3. ASSUME NEW s \in Sub, CritT(s, T(HeadOf(s))) \in G
      PROVE  To("fwd", T(s)) \subseteq G /\ To("crit", T(s)) \subseteq G
  BY <1>3 DEF Closed, Before
<1>4. ASSUME NEW s \in Sub \ {LastSub}
      PROVE  CritT(s, T(HeadOf(s))) \in G
  <2>1. CASE HeadOf(s) = LastSub
    BY <1>1, <1>2, <2>1 DEF LastT
  <2>2. CASE HeadOf(s) # LastSub
    <3>1. HeadOf(s) \in Sub \ {LastSub} /\ HeadOf(HeadOf(s)) = LastSub
      BY <2>2, StpRouteFacts
    <3>2. CritT(HeadOf(s), T(HeadOf(HeadOf(s)))) \in G
      BY <1>1, <1>2, <3>1 DEF LastT
    <3>3. To("crit", T(HeadOf(s))) \subseteq G
      BY <1>3, <3>1, <3>2
    <3> QED BY <1>2, <3>3
  <2> QED BY <2>1, <2>2
<1>5. ASSUME NEW s \in Sub
      PROVE  To("fwd", T(s)) \subseteq G /\ To("crit", T(s)) \subseteq G
  <2>1. CASE s = LastSub
    BY <1>1, <2>1 DEF LastT
  <2>2. CASE s # LastSub
    BY <1>3, <1>4, <2>2
  <2> QED BY <2>1, <2>2
<1>6. ASSUME NEW s \in Sub, NEW from \in Sub, NEW u \in Unit
      PROVE  FwdIT(s, u) \in G /\ FwdSI(s, u) \in G /\ FwdWS(s, from, u) \in G
  <2>1. FwdIT(s, u) \in G
    BY <1>5, ForwardIntro
  <2>2. FwdSI(s, u) \in G
    BY <2>1, ForwardIntro DEF Closed, Before
  <2>3. FwdWS(s, from, u) \in G
    BY <2>2, ForwardIntro DEF Closed, Before
  <2> QED BY <2>1, <2>2, <2>3
<1>7. \A s \in Sub \ {FirstSub} : FsgnS(s, S(RootOf(s))) \in ForwardLinks
  BY ForwardIntro, FsgRouteFacts, UnitFacts
<1>8. FsgnS(FirstSub, LastT) \in G
  BY <1>1, ForwardIntro, FsgRouteFacts, UnitFacts, SubFacts
<1>9. ASSUME NEW s \in Sub, NEW d, FsgnS(s, d) \in G
      PROVE  To("fsgn", S(s)) \subseteq G
  BY <1>9 DEF Closed, Before
<1>10. ASSUME NEW s \in Sub \ {FirstSub}
       PROVE  FsgnS(s, S(RootOf(s))) \in G
  <2>1. CASE RootOf(s) = FirstSub
    BY <1>7, <1>8, <1>9, <2>1, SubFacts
  <2>2. CASE RootOf(s) # FirstSub
    <3>1. RootOf(s) \in Sub \ {FirstSub} /\ RootOf(RootOf(s)) = FirstSub
      BY <2>2, FsgRouteFacts
    <3>2. FsgnS(RootOf(s), S(FirstSub)) \in G
      BY <1>7, <1>8, <1>9, <3>1, SubFacts
    <3> QED BY <1>7, <1>9, <3>1, <3>2
  <2> QED BY <2>1, <2>2
<1>11. ASSUME NEW s \in Sub
       PROVE  To("fsgn", S(s)) \subseteq G
  BY <1>8, <1>9, <1>10
<1>12. ASSUME NEW to \in Sub, NEW from \in Sub, NEW u \in Unit
       PROVE  FsgnW(to, from) \in G /\ FwdTW(to, from, u) \in G
  <2>1. FsgnW(to, from) \in G
    BY <1>11, ForwardIntro
  <2>2. FwdTW(to, from, u) \in G
    BY <2>1, ForwardIntro DEF Closed, Before
  <2> QED BY <2>1, <2>2
<1>13. ASSUME NEW s \in Sub, NEW d \in FsgRoute(s)
       PROVE  FsgnS(s, d) \in G
  BY <1>8, <1>10, FsgRouteFacts
<1>14. ASSUME NEW s \in Sub \ {LastSub}, NEW d \in StpRoute(s)
       PROVE  CritT(s, d) \in G
  BY <1>4, StpRouteFacts
<1>15. ASSUME NEW l \in ForwardLinks
       PROVE  l \in G
  <2> HIDE LinkTable, CoresApart
  <2>1. ForwardKind(l)
    BY ForwardElim
  <2>2. /\ \A x, y \in Sub, u \in Unit : FwdWS(x, y, u) \in G /\ FwdTW(x, y, u) \in G
        /\ \A x \in Sub, u \in Unit : FwdSI(x, u) \in G /\ FwdIT(x, u) \in G
        /\ \A x, y \in Sub : FsgnW(x, y) \in G
    BY <1>6, <1>12, UnitFacts
  <2> QED BY <1>13, <1>14, <2>1, <2>2 DEF ForwardKind
<1> QED BY <1>15

\* The same in BACKPROP, with the link delta sum or without.
LEMMA BackpropClosed ==
  ASSUME NEW D \in SUBSET DeltaSumLinks, D \in {{}, DeltaSumLinks},
         NEW G \in SUBSET (BackpropLinks \cup D), Closed(G, BackpropLinks \cup D),
         Into({"bkp", "bsgn"}, LastT) \subseteq G
  PROVE  BackpropLinks \cup D \subseteq G
<1> USE LinkTable, CoresApart
<1> DEFINE L == BackpropLinks \cup D
           To(k, c) == {l \in L : l[1] = k /\ l[3] = c}
<1>1. \A k \in {"bkp", "bsgn"} : To(k, LastT) \subseteq G
  BY DEF Into, AllLinks
<1>2. /\ \A s \in Sub \ {LastSub} : BsgnT(s, T(HeadOf(s))) \in L
      /\ \A s \in Sub \ {FirstSub} : BsgnS(s, S(RootOf(s))) \in L
      /\ BsgnS(FirstSub, LastT) \in L
  BY BackpropIntro, StpRouteFacts, FsgRouteFacts, UnitFacts, SubFacts
<1>3. ASSUME NEW s \in Sub, BsgnT(s, T(HeadOf(s))) \in G
      PROVE  To("bkp", T(s)) \subseteq G /\ To("bsgn", T(s)) \subseteq G
  BY <1>3 DEF Closed, Before
<1>4. ASSUME NEW s \in Sub \ {LastSub}
      PROVE  BsgnT(s, T(HeadOf(s))) \in G
  <2>1. CASE HeadOf(s) = LastSub
    BY <1>1, <1>2, <2>1 DEF LastT
  <2>2. CASE HeadOf(s) # LastSub
    <3>1. HeadOf(s) \in Sub \ {LastSub} /\ HeadOf(HeadOf(s)) = LastSub
      BY <2>2, StpRouteFacts
    <3>2. BsgnT(HeadOf(s), T(HeadOf(HeadOf(s)))) \in G
      BY <1>1, <1>2, <3>1 DEF LastT
    <3>3. To("bsgn", T(HeadOf(s))) \subseteq G
      BY <1>3, <3>1, <3>2
    <3> QED BY <1>2, <3>3
  <2> QED BY <2>1, <2>2
<1>5. ASSUME NEW s \in Sub
      PROVE  To("bkp", T(s)) \subseteq G /\ To("bsgn", T(s)) \subseteq G
  <2>1. CASE s = LastSub
    BY <1>1, <2>1 DEF LastT
  <2>2. CASE s # LastSub
    BY <1>3, <1>4, <2>2
  <2> QED BY <2>1, <2>2
<1>6. ASSUME NEW to \in Sub, NEW from \in Sub, NEW u \in Unit
      PROVE  /\ BkpST(from, u) \in G /\ BkpWS(to, from, u) \in G
             /\ BkpIW(to, from, u) \in G /\ BkpTI(to, u) \in G
  <2>1. BkpST(from, u) \in G
    BY <1>5, BackpropIntro
  <2>2. BkpWS(to, from, u) \in G
    BY <2>1, BackpropIntro DEF Closed, Before
  <2>3. BkpIW(to, from, u) \in G
    BY <2>2, BackpropIntro DEF Closed, Before
  <2>4. BkpTI(to, u) \in G
    BY <2>3, BackpropIntro DEF Closed, Before
  <2> QED BY <2>1, <2>2, <2>3, <2>4
<1>7. BsgnS(FirstSub, LastT) \in G
  BY <1>1, <1>2
<1>8. ASSUME NEW s \in Sub, NEW d, BsgnS(s, d) \in G
      PROVE  To("bsgn", S(s)) \subseteq G /\ To("lds", S(s)) \subseteq G
  BY <1>8 DEF Closed, Before
<1>9. ASSUME NEW s \in Sub \ {FirstSub}
      PROVE  BsgnS(s, S(RootOf(s))) \in G
  <2>1. CASE RootOf(s) = FirstSub
    BY <1>2, <1>7, <1>8, <2>1, SubFacts
  <2>2. CASE RootOf(s) # FirstSub
    <3>1. RootOf(s) \in Sub \ {FirstSub} /\ RootOf(RootOf(s)) = FirstSub
      BY <2>2, FsgRouteFacts
    <3>2. BsgnS(RootOf(s), S(FirstSub)) \in G
      BY <1>2, <1>7, <1>8, <3>1, SubFacts
    <3> QED BY <1>2, <1>8, <3>1, <3>2
  <2> QED BY <2>1, <2>2
<1>10. \A s \in Sub : \A d \in FsgRoute(s) : BsgnS(s, d) \in G
  BY <1>7, <1>9, FsgRouteFacts
<1>11. \A s \in Sub \ {LastSub} : \A d \in StpRoute(s) : BsgnT(s, d) \in G
  BY <1>4, StpRouteFacts
<1>12. BackpropLinks \subseteq G
  <2> SUFFICES ASSUME NEW l \in BackpropLinks PROVE l \in G
    OBVIOUS
  <2> HIDE LinkTable, CoresApart
  <2>1. BackpropKind(l)
    BY BackpropElim
  <2>2. /\ \A x, y \in Sub, u \in Unit : BkpWS(x, y, u) \in G /\ BkpIW(x, y, u) \in G
        /\ \A x \in Sub, u \in Unit : BkpTI(x, u) \in G /\ BkpST(x, u) \in G
    BY <1>6
  <2> QED BY <1>10, <1>11, <2>1, <2>2 DEF BackpropKind
<1>13. D \subseteq G
  <2> SUFFICES ASSUME NEW l \in D PROVE l \in G
    OBVIOUS
  <2>1. D = DeltaSumLinks /\ DeltaSumKind(l) /\ l[1] = "lds"
    BY DeltaSumElim, LinkClass
  <2>2. \E s \in Sub : l[3] = S(s)
    BY <2>1, FsgRouteFacts DEF DeltaSumKind
  <2>3. PICK s \in Sub : l[3] = S(s)
    BY <2>2
  <2>4. \E d : BsgnS(s, d) \in G
    BY <1>7, <1>9
  <2> QED BY <1>8, <2>1, <2>3, <2>4
<1> QED BY <1>12, <1>13

(***************************************************************************)
(* Every core has a part in every tick.                                    *)
(***************************************************************************)
LEMMA Connected ==
  ASSUME NEW c \in Cores
  PROVE  /\ \E l \in ForwardLinks : l[2] = c \/ l[3] = c
         /\ \E l \in BackpropLinks : l[2] = c \/ l[3] = c
<1> USE LinkTable, UnitFacts
<1>1. ASSUME NEW to \in Sub, NEW from \in Sub, c = W(to, from)
      PROVE  FwdWS(to, from, 0)[2] = c /\ BkpWS(to, from, 0)[2] = c
  BY <1>1
<1>2. ASSUME NEW s \in Sub, c \in {S(s), I(s), T(s)}
      PROVE  /\ FwdSI(s, 0)[2] = c \/ FwdIT(s, 0)[2] = c \/ FwdTW(s, s, 0)[2] = c
             /\ BkpST(s, 0)[2] = c \/ BkpIW(s, s, 0)[2] = c \/ BkpTI(s, 0)[2] = c
  BY <1>2
<1>3. CASE c \in WCores
  BY <1>1, <1>3, ForwardIntro, BackpropIntro DEF WCores
<1>4. CASE c \notin WCores
  <2>1. PICK s \in Sub : c \in {S(s), I(s), T(s)}
    BY <1>4 DEF Cores
  <2> QED BY <1>2, <2>1, ForwardIntro, BackpropIntro
<1> QED BY <1>3, <1>4

\* The places of PDP2Flow are those of TickFlow.
LEMMA FlowPlacesFact == Flow!Places = FlowPlaces
  BY DEF Flow!Places, Flow!Phases, FlowPlaces, Tick, F, B, INIT_TICK

\* A tick has the links of its phase.
LEMMA LinksOfFacts ==
  ASSUME NEW p \in FlowPlaces
  PROVE  /\ p[3] = F => LinksOf(p) = ForwardLinks
         /\ p[3] # F => \E D \in SUBSET DeltaSumLinks :
                          D \in {{}, DeltaSumLinks} /\ LinksOf(p) = BackpropLinks \cup D
         /\ LinksOf(p) \subseteq AllLinks
         /\ TickLinks[p] = LinksOf(p) /\ TickFinal[p] = Awaited(p)
<1>1. p[3] = F => LinksOf(p) = ForwardLinks
  BY DEF LinksOf
<1>2. p[3] # F => LinksOf(p) = BackpropLinks \cup IF DeltasSummed(p) THEN DeltaSumLinks ELSE {}
  BY DEF LinksOf
<1>3. TickLinks[p] = LinksOf(p) /\ TickFinal[p] = Awaited(p)
  BY DEF TickLinks, TickFinal
<1> QED BY <1>1, <1>2, <1>3 DEF AllLinks

\* The links the host makes (mlp_network.py, the vertices) are a graph TickFlow
\* is about: what the last T waits for at the end of a tick depends, by way of
\* scoreboards and expected counts, on every packet of the tick.
THEOREM MachineGraph == Flow!FlowAssumption(Flow!Places)
<1>1. LastT \in Cores
  BY CoreFacts, LastSubFacts
<1>2. ASSUME NEW p \in FlowPlaces, NEW l \in TickLinks[p]
      PROVE  l[2] \in Cores /\ l[3] \in Cores
  BY LinksOfFacts, LinkTyped
<1>3. ASSUME NEW p \in FlowPlaces, NEW G \in SUBSET TickLinks[p],
             TickFinal[p] \subseteq G, \A l \in G : TickDeps[l] \cap TickLinks[p] \subseteq G
      PROVE  G = TickLinks[p]
  <2>1. TickLinks[p] = LinksOf(p) /\ TickFinal[p] = Awaited(p) /\ LinksOf(p) \subseteq AllLinks
    BY LinksOfFacts
  <2>2. Closed(G, LinksOf(p))
    BY <1>3, <2>1 DEF Closed, TickDeps, LinkDeps
  <2>3. CASE p[3] = F
    <3>1. LinksOf(p) = ForwardLinks /\ Into({"fwd", "fsgn", "crit"}, LastT) \subseteq G
      BY <1>3, <2>1, <2>3, LinksOfFacts DEF Awaited
    <3> QED BY <2>1, <2>2, <3>1, ForwardClosed
  <2>4. CASE p[3] # F
    <3>1. PICK D \in SUBSET DeltaSumLinks :
            D \in {{}, DeltaSumLinks} /\ LinksOf(p) = BackpropLinks \cup D
      BY <2>4, LinksOfFacts
    <3>2. Into({"bkp", "bsgn"}, LastT) \subseteq G
      BY <1>3, <2>1, <2>4 DEF Awaited
    <3> QED BY <2>1, <2>2, <3>1, <3>2, BackpropClosed
  <2> QED BY <2>3, <2>4
<1>4. ASSUME NEW p \in FlowPlaces, NEW c \in Cores
      PROVE  \E l \in TickLinks[p] : l[2] = c \/ l[3] = c
  BY LinksOfFacts, Connected
<1>5. /\ Training \in BOOLEAN
      /\ NumEpochs \in Nat \ {0} /\ NumExamples \in Nat \ {0}
      /\ NumEvents \in Nat \ {0} /\ GlobalMaxTicks - 1 \in Nat \ {0}
  BY StageAssumption
<1> QED BY <1>1, <1>2, <1>3, <1>4, <1>5, FlowPlacesFact DEF Flow!FlowAssumption

AllTimely == Timely = {"W", "S", "I", "T"}
FlowAndMachine == MachineInv /\ Flow!FlowInv
cur == Flow!cur

(***************************************************************************)
(* Cores and their records.                                                *)
(***************************************************************************)
LEMMA CoreKinds ==
  \A c \in Cores :
    /\ c[1] \in {"W", "S", "I", "T"}
    /\ c[1] = "W" => c \in WCores /\ c[2] \in Sub /\ c[3] \in Sub /\ c = W(c[2], c[3])
    /\ c[1] = "S" => c[2] \in Sub /\ c = S(c[2])
    /\ c[1] = "I" => c[2] \in Sub /\ c = I(c[2])
    /\ c[1] = "T" => c[2] \in Sub /\ c = T(c[2])
  BY CoresApart DEF Cores, WCores

\* The record of each kind of core.
LEMMA RecFacts ==
  /\ \A c \in WCores : Rec(c) = wc[c] /\ Rec(c)' = wc'[c] /\ c \in Cores /\ c[1] = "W"
  /\ \A s \in Sub : /\ Rec(S(s)) = sc[s] /\ Rec(S(s))' = sc'[s]
                    /\ Rec(I(s)) = ic[s] /\ Rec(I(s))' = ic'[s]
                    /\ Rec(T(s)) = tc[s] /\ Rec(T(s))' = tc'[s]
<1>1. ASSUME NEW c, c[1] = "W"
      PROVE  Rec(c) = wc[c] /\ Rec(c)' = wc'[c]
  BY <1>1, Zenon DEF Rec
<1>2. ASSUME NEW c, c[1] = "S"
      PROVE  Rec(c) = sc[c[2]] /\ Rec(c)' = sc'[c[2]]
  BY <1>2, Zenon DEF Rec
<1>3. ASSUME NEW c, c[1] = "I"
      PROVE  Rec(c) = ic[c[2]] /\ Rec(c)' = ic'[c[2]]
  BY <1>3, Zenon DEF Rec
<1>4. ASSUME NEW c, c[1] = "T"
      PROVE  Rec(c) = tc[c[2]] /\ Rec(c)' = tc'[c[2]]
  BY <1>4, Zenon DEF Rec
<1> QED BY <1>1, <1>2, <1>3, <1>4, CoresApart DEF Cores, WCores

(***************************************************************************)
(* What the invariant of TickFlow says of the machine.                     *)
(***************************************************************************)
LEMMA FlowFacts ==
  ASSUME Flow!FlowInv
  PROVE  /\ Behind \subseteq Cores
         /\ \A c \in Cores : c \notin Behind => Place(Rec(c)) = cur
         /\ \A c \in Behind : /\ Flow!MayLeave(Place(Rec(c)), tc[LastSub].tick_stop)
                              /\ Flow!NextPlace(Place(Rec(c)), tc[LastSub].tick_stop) = cur
         /\ cur \in FlowPlaces
         /\ Got \subseteq Sent /\ Sent \subseteq LinksOf(cur)
         /\ \A l \in Sent : l[2] \notin Behind /\ LinkDeps(l) \cap LinksOf(cur) \subseteq Got
         /\ \A l \in Got : l[3] \notin Behind
         /\ Sent # {} => /\ Heading({"stpn"}) = {} /\ ~tc[LastSub].done
                         /\ Flow!EpochOver(cur) => LastT \notin Behind
<1>1. Behind \subseteq Cores /\ cur \in FlowPlaces
  BY FlowPlacesFact DEF Flow!FlowInv, Flow!TypeOK, Flow!RangeOK, cur
<1>2. \A c \in Cores : c \notin Behind => Place(Rec(c)) = cur
  BY DEF Flow!FlowInv, Flow!PlaceOK, cur
<1>3. ASSUME NEW c \in Behind
      PROVE  /\ Flow!MayLeave(Place(Rec(c)), tc[LastSub].tick_stop)
             /\ Flow!NextPlace(Place(Rec(c)), tc[LastSub].tick_stop) = cur
  BY <1>1 DEF Flow!FlowInv, Flow!PlaceOK, Flow!RangeOK, cur
<1>4. TickLinks[cur] = LinksOf(cur) /\ LinksOf(cur) \subseteq AllLinks
  BY <1>1, LinksOfFacts
<1>5. Got \subseteq Sent /\ Sent \subseteq LinksOf(cur)
  BY <1>4 DEF Flow!FlowInv, Flow!FlowOK, cur
<1>6. \A l \in Sent : l[2] \notin Behind /\ LinkDeps(l) \cap LinksOf(cur) \subseteq Got
  BY <1>4, <1>5 DEF Flow!FlowInv, Flow!FlowOK, cur, TickDeps
<1>7. \A l \in Got : l[3] \notin Behind
  BY DEF Flow!FlowInv, Flow!FlowOK
<1>8. Sent # {} => /\ Heading({"stpn"}) = {} /\ ~tc[LastSub].done
                   /\ Flow!EpochOver(cur) => LastT \notin Behind
  BY DEF Flow!FlowInv, Flow!StageOK, cur
<1> QED BY <1>1, <1>2, <1>3, <1>5, <1>6, <1>7, <1>8

\* A core that handles a packet in time is in the current tick, and has not
\* handled it yet.
LEMMA InTick ==
  ASSUME AllTimely, FlowAndMachine, NEW p \in net, Awaits(p), InTime(Rec(p.dst), p)
  PROVE  /\ p.dst \in Cores \ Behind /\ p.src \in Cores /\ p.u \in Unit
         /\ LinkOf(p) \in Sent /\ LinkOf(p) \notin Got /\ LinkOf(p) \in LinksOf(cur)
         /\ p.st = CurStamp /\ Place(Rec(p.dst)) = cur
<1> USE DEF FlowAndMachine
<1>1. PacketOK(p)
  BY DEF MachineInv, NetOK
<1>2. p.dst \in Cores /\ p.src \in Cores /\ p.u \in Unit /\ LinkOf(p) \in Sent /\ p.st = CurStamp
  BY <1>1 DEF PacketOK
<1>3. ~LaterTick(CurStamp, Stamp(Rec(p.dst)))
  BY <1>2, CoreKinds DEF InTime, AllTimely
<1>4. ASSUME p.dst \in Behind
      PROVE  FALSE
  <2> DEFINE q == Place(Rec(p.dst))
             b == tc[LastSub].tick_stop
  <2>1. Flow!MayLeave(q, b) /\ cur = Flow!NextPlace(q, b)
    BY <1>4, FlowFacts
  <2>2. /\ CurStamp[1] = cur[1] /\ CurStamp[2] = cur[2]
        /\ CurStamp[3] = cur[3] /\ CurStamp[4] = cur[4]
    BY DEF CurStamp, cur, Flow!Stamp
  <2>3. LET st == Stamp(Rec(p.dst))
        IN st[1] = q[1] /\ st[2] = q[2] /\ st[3] = q[3] /\ st[4] = q[4]
    BY DEF Stamp, Place
  <2> HIDE DEF q, b
  <2>4. \/ cur[1] > q[1]
        \/ cur[1] = q[1] /\ cur[2] > q[2]
        \/ cur[1] = q[1] /\ cur[2] = q[2] /\ cur[3] = "B" /\ q[3] = "F"
        \/ cur[1] = q[1] /\ cur[2] = q[2] /\ cur[3] = q[3]
             /\ IF cur[3] = "F" THEN cur[4] > q[4] ELSE cur[4] < q[4]
    BY <2>1, MachineGraph, Flow!NextPlaceLater
  <2>5. LaterTick(CurStamp, Stamp(Rec(p.dst)))
    BY <2>2, <2>3, <2>4 DEF LaterTick
  <2> QED BY <1>3, <2>5
<1>5. p.dst \notin Behind
  BY <1>4
<1>6. LinkOf(p) \notin Got
  BY DEF Got, OnLink
<1> QED BY <1>2, <1>5, <1>6, FlowFacts

(***************************************************************************)
(* A step inside a tick, of core a, that takes the packets D (one or none) *)
(* and sends the packets E over the links N.                               *)
(***************************************************************************)
Others(a) ==
  /\ DOMAIN wc' = DOMAIN wc /\ DOMAIN sc' = DOMAIN sc
  /\ DOMAIN ic' = DOMAIN ic /\ DOMAIN tc' = DOMAIN tc
  /\ \A c \in WCores : c # a => wc'[c] = wc[c]
  /\ \A s \in Sub : /\ S(s) # a => sc'[s] = sc[s]
                    /\ I(s) # a => ic'[s] = ic[s]
                    /\ T(s) # a => tc'[s] = tc[s]

Keeps(r, q) ==
  /\ Place(q) = Place(r) /\ q.done = r.done
  /\ q.net_stop = r.net_stop /\ q.net_stop_rdy = r.net_stop_rdy

Sending(e, a) ==
  /\ e = Pkt(e.kind, e.src, e.dst, e.u, e.b, e.st)
  /\ e.src = a /\ e.dst \in Cores /\ e.u \in Unit /\ e.b \in BOOLEAN
  /\ \/ e.kind \in {"fwd", "bkp", "fsgn", "bsgn", "crit"} /\ e.st = CurStamp
     \/ e.kind = "lds" /\ Dougs /\ e.dst[1] = "S" /\ e.st = CurStamp
     \/ e.kind = "lds" /\ Dougs /\ e.dst[1] = "W"

TickStep(a, D, E, N) ==
  /\ a \in Cores /\ a \notin Behind /\ Others(a) /\ Keeps(Rec(a), Rec(a)')
  /\ a \in WCores => wc'[a].epoch_rdy = wc[a].epoch_rdy
  /\ tc'[LastSub].advance = tc[LastSub].advance
  /\ tc'[LastSub].tick_stop = tc[LastSub].tick_stop
  /\ tc'[LastSub].ev_tick = tc[LastSub].ev_tick
  /\ net' = (net \ D) \cup E
  /\ D \subseteq net /\ \A p \in D : Awaits(p) /\ p.dst = a
  /\ \A e \in E : Sending(e, a) /\ (Loose(e) \/ LinkOf(e) \in N)
  /\ \A e, f \in E : ~Loose(e) /\ LinkOf(e) = LinkOf(f) => e = f
  /\ N \subseteq LinksOf(cur) \ Sent /\ \A x \in N : \E e \in E : LinkOf(e) = x

\* N is what becomes due at core a
DueFrom(a, N) == \A x \in AllLinks : x[2] = a => (Due(x)' <=> Due(x) \/ x \in N)

Taken(D) == {LinkOf(p) : p \in D}

\* Packets that are waited for, or sent inside a tick, do not end it.
LEMMA PacketKinds ==
  /\ \A p : Awaits(p) => p.kind \notin {"stop", "sync", "stpn"} /\ ~Loose(p)
  /\ \A e, a : Sending(e, a) => e.kind \notin {"stop", "sync", "stpn"}
                                 /\ (Awaits(e) <=> ~Loose(e))
  BY CoreKinds DEF Awaits, Loose, Sending

\* The broadcast of the link delta total goes over no link.
LEMMA NotLoose == \A p : LinkOf(p) \in AllLinks => ~Loose(p)
<1> SUFFICES ASSUME NEW p, LinkOf(p) \in AllLinks, Loose(p) PROVE FALSE
  OBVIOUS
<1>1. LinkOf(p)[1] = "lds" /\ LinkOf(p)[3] = p.dst
  BY LinkApart DEF LinkOf, Loose
<1>2. DeltaSumKind(LinkOf(p))
  BY <1>1, LinkClass, DeltaSumElim DEF AllLinks
<1>3. p.dst[1] = "S"
  BY <1>1, <1>2, LinkTable, CoresApart, FsgRouteFacts DEF DeltaSumKind
<1> QED BY <1>3 DEF Loose

\* Inside a tick no core falls behind or catches up.
LEMMA HeadingStep ==
  ASSUME NEW a, NEW D, NEW E, NEW N, TickStep(a, D, E, N)
  PROVE  /\ Behind' = Behind
         /\ \A ks \in SUBSET {"stop", "sync", "stpn"} : Heading(ks)' = Heading(ks)
<1>1. ASSUME NEW ks \in SUBSET {"stop", "sync", "stpn"}
      PROVE  Heading(ks)' = Heading(ks)
  <2>1. {q \in net : q.kind \in ks}' = {q \in net : q.kind \in ks}
    BY PacketKinds DEF TickStep
  <2> QED BY <2>1 DEF Heading
<1>2. Behind' = Behind
  BY <1>1 DEF Behind, TickStep
<1> QED BY <1>1, <1>2

\* A link is busy until its packet is taken, and from when it is sent.
LEMMA OnLinkStep ==
  ASSUME FlowAndMachine, NEW a, NEW D, NEW E, NEW N, TickStep(a, D, E, N), NEW x \in AllLinks
  PROVE  OnLink(x)' <=> (OnLink(x) /\ x \notin Taken(D)) \/ x \in N
<1>1. ASSUME NEW p \in net, LinkOf(p) = x, x \in Taken(D)
      PROVE  p \in D
  <2>1. PICK q \in D : LinkOf(q) = x
    BY <1>1 DEF Taken
  <2>2. p = q
    BY <1>1, <2>1, NotLoose DEF TickStep, FlowAndMachine, MachineInv, OnePacket
  <2> QED BY <2>1, <2>2
<1>2. OnLink(x) /\ x \notin Taken(D) => \E p \in net \ D : LinkOf(p) = x
  BY DEF OnLink, Taken
<1>3. \A e \in E : LinkOf(e) = x => x \in N
  BY NotLoose DEF TickStep
<1>4. net' = (net \ D) \cup E /\ \A y \in N : \E e \in E : LinkOf(e) = y
  BY DEF TickStep
<1>5. OnLink(x)' <=> \E p \in net' : LinkOf(p) = x
  BY DEF OnLink
<1> QED BY <1>1, <1>2, <1>3, <1>4, <1>5 DEF OnLink

\* what the chains of Due look at, is whether a packet has been handled
ByGot ==
  \A s \in Sub, u \in Unit :
    /\ NetPassed(s, u) <=> FwdSI(s, u) \in Got
    /\ NetUsed(s, u) <=> FwdIT(s, u) \in Got
    /\ DeltaPassed(s, u) <=> BkpTI(s, u) \in Got
    /\ \A t \in Sub : DeltaUsed(s, t, u) <=> BkpIW(s, t, u) \in Got

\* A unit is passed on by a core when the next one has handled it.
LEMMA ChainsByGot == ByGot
<1> SUFFICES ASSUME NEW s \in Sub, NEW u \in Unit, NEW t \in Sub
             PROVE  /\ NetPassed(s, u) <=> FwdSI(s, u) \in Got
                    /\ NetUsed(s, u) <=> FwdIT(s, u) \in Got
                    /\ DeltaPassed(s, u) <=> BkpTI(s, u) \in Got
                    /\ DeltaUsed(s, t, u) <=> BkpIW(s, t, u) \in Got
  BY DEF ByGot
<1>1. /\ FwdSI(s, u) \in AllLinks /\ FwdIT(s, u) \in AllLinks
      /\ BkpTI(s, u) \in AllLinks /\ BkpIW(s, t, u) \in AllLinks
  BY ForwardIntro, BackpropIntro DEF AllLinks
<1>2. NetPassed(s, u) <=> FwdSI(s, u) \in Got
  BY <1>1, LinkTable, CoresApart DEF Got, Sent, Due, NetPassed
<1>3. NetUsed(s, u) <=> FwdIT(s, u) \in Got
  BY <1>1, LinkTable, CoresApart DEF Got, Sent, Due, NetUsed
<1>4. DeltaPassed(s, u) <=> BkpTI(s, u) \in Got
  BY <1>1, LinkTable, CoresApart DEF Got, Sent, Due, DeltaPassed
<1>5. DeltaUsed(s, t, u) <=> BkpIW(s, t, u) \in Got
  BY <1>1, LinkTable, CoresApart DEF Got, Sent, Due, DeltaUsed
<1> QED BY <1>2, <1>3, <1>4, <1>5

\* Inside a tick every core stays in its place.
LEMMA PlaceStep ==
  ASSUME NEW a, NEW D, NEW E, NEW N, TickStep(a, D, E, N)
  PROVE  /\ \A c \in Cores : /\ Keeps(Rec(c), Rec(c)')
                             /\ \A ph : In(c, ph)' <=> In(c, ph)
                             /\ c[1] = "W" => wc'[c].epoch_rdy = wc[c].epoch_rdy
         /\ \A s \in Sub : Place(sc'[s]) = Place(sc[s]) /\ Place(tc'[s]) = Place(tc[s])
         /\ \A c \in WCores : Place(wc'[c]) = Place(wc[c])
         /\ tc'[LastSub].done = tc[LastSub].done
         /\ cur' = cur /\ CurStamp' = CurStamp
<1>1. \A c \in Cores : Keeps(Rec(c), Rec(c)')
  <2> SUFFICES ASSUME NEW c \in Cores PROVE Keeps(Rec(c), Rec(c)')
    OBVIOUS
  <2>1. CASE c = a
    BY <2>1 DEF TickStep
  <2>2. CASE c # a
    <3>1. Rec(c)' = Rec(c)
      BY <2>2, CoreKinds, RecFacts DEF TickStep, Others
    <3> QED BY <3>1 DEF Keeps
  <2> QED BY <2>1, <2>2
<1>2. \A c \in Cores : /\ Place(Rec(c))' = Place(Rec(c)) /\ Rec(c)'.phase = Rec(c).phase
                       /\ Rec(c)'.done = Rec(c).done
  BY <1>1 DEF Keeps, Place
<1>3. \A c \in Cores : \A ph : In(c, ph)' <=> In(c, ph)
  BY <1>2, HeadingStep DEF In
<1>4. \A c \in Cores : c[1] = "W" => wc'[c].epoch_rdy = wc[c].epoch_rdy
  BY CoreKinds DEF TickStep, Others
<1>5. /\ \A s \in Sub : Place(sc'[s]) = Place(sc[s]) /\ Place(tc'[s]) = Place(tc[s])
      /\ \A c \in WCores : Place(wc'[c]) = Place(wc[c])
  BY <1>2, RecFacts, CoreFacts DEF Place
<1>6. tc'[LastSub].done = tc[LastSub].done
  BY <1>2, RecFacts, CoreFacts, LastSubFacts
<1>7. cur' = cur
  <2>1. LastT \in Cores
    BY CoreFacts, LastSubFacts
  <2>2. [c \in Cores |-> Place(Rec(c))]' = [c \in Cores |-> Place(Rec(c))]
    BY <1>2
  <2>3. Behind' = Behind
    BY HeadingStep
  <2>4. tc'[LastSub].tick_stop = tc[LastSub].tick_stop
    BY DEF TickStep
  <2> QED BY <2>1, <2>2, <2>3, <2>4
       DEF cur, Flow!cur, Flow!NextPlace, Flow!NextExample, Flow!EndOfForward
<1>8. CurStamp' = CurStamp
  BY <1>7 DEF CurStamp, cur
<1> QED BY <1>1, <1>3, <1>4, <1>5, <1>6, <1>7, <1>8

\* The scoreboards of the other cores stay as they are,
LEMMA ScoreboardFrame ==
  ASSUME NEW a, NEW D, NEW E, NEW N, TickStep(a, D, E, N)
  PROVE  /\ \A c \in WCores : c # a =>
              /\ Products(c)' <=> Products(c)
              /\ OutputsIn(c)' <=> OutputsIn(c)
              /\ DeltasIn(c)' <=> DeltasIn(c)
         /\ \A s \in Sub : S(s) # a =>
              /\ \A u \in Unit : NetWhole(s, u)' <=> NetWhole(s, u)
              /\ \A u \in Unit : ErrorWhole(s, u)' <=> ErrorWhole(s, u)
              /\ FsgnIn(s)' <=> FsgnIn(s)
              /\ LdsIn(s)' <=> LdsIn(s)
              /\ SBReported(s)' <=> SBReported(s)
         /\ \A s \in Sub : T(s) # a =>
              /\ CritWhole(s)' <=> CritWhole(s)
              /\ Deltas(s)' <=> Deltas(s)
              /\ TBReported(s)' <=> TBReported(s)
<1>0. /\ Others(a)
      /\ \A c \in Cores : \A ph : In(c, ph)' <=> In(c, ph)
  <2>1. Others(a)
    BY DEF TickStep
  <2> QED BY <2>1, PlaceStep
<1>1. \A c \in WCores : c # a => wc'[c] = wc[c] /\ \A ph : In(c, ph)' <=> In(c, ph)
  BY <1>0, RecFacts DEF Others
<1>2. \A s \in Sub : S(s) # a => sc'[s] = sc[s] /\ \A ph : In(S(s), ph)' <=> In(S(s), ph)
  BY <1>0, CoreFacts DEF Others
<1>3. \A s \in Sub : T(s) # a => tc'[s] = tc[s] /\ \A ph : In(T(s), ph)' <=> In(T(s), ph)
  BY <1>0, CoreFacts DEF Others
<1>4. ASSUME NEW c \in WCores, c # a
      PROVE  /\ Products(c)' <=> Products(c)
             /\ OutputsIn(c)' <=> OutputsIn(c)
             /\ DeltasIn(c)' <=> DeltasIn(c)
  BY <1>1, <1>4 DEF Products, OutputsIn, DeltasIn
<1>5. ASSUME NEW s \in Sub, S(s) # a
      PROVE  /\ \A u \in Unit : NetWhole(s, u)' <=> NetWhole(s, u)
             /\ \A u \in Unit : ErrorWhole(s, u)' <=> ErrorWhole(s, u)
             /\ FsgnIn(s)' <=> FsgnIn(s)
             /\ LdsIn(s)' <=> LdsIn(s)
             /\ SBReported(s)' <=> SBReported(s)
  BY <1>2, <1>5 DEF NetWhole, ErrorWhole, FsgnIn, LdsIn, SBReported
<1>6. ASSUME NEW s \in Sub, T(s) # a
      PROVE  /\ CritWhole(s)' <=> CritWhole(s)
             /\ Deltas(s)' <=> Deltas(s)
             /\ TBReported(s)' <=> TBReported(s)
  BY <1>3, <1>6 DEF CritWhole, Deltas, TBReported
<1> QED BY <1>4, <1>5, <1>6

\* what is sent comes from the core, what is taken went to it,
LEMMA NewFrom ==
  ASSUME NEW a, NEW D, NEW E, NEW N, TickStep(a, D, E, N)
  PROVE  /\ \A x \in N : x[2] = a
         /\ \A x \in Taken(D) : x[3] = a
  BY LinkApart DEF TickStep, Sending, Taken, LinkOf

\* and what has been handled stays handled.
LEMMA GotFrame ==
  ASSUME FlowAndMachine, NEW a, NEW D, NEW E, NEW N, TickStep(a, D, E, N),
         NEW x \in AllLinks, Due(x)' <=> Due(x) \/ x \in N, x \notin Taken(D)
  PROVE  x \in Got' <=> x \in Got
<1>1. x \in Got <=> Due(x) /\ ~OnLink(x)
  BY DEF Got, Sent
<1>2. x \in Got' <=> Due(x)' /\ ~OnLink(x)'
  BY DEF Got, Sent
<1>3. x \in N => ~Due(x)
  BY DEF TickStep, Sent
<1> QED BY <1>1, <1>2, <1>3, OnLinkStep

\* what it takes for a packet to be due, link by link
DueTable ==
  \A s, t \in Sub, u \in Unit :
    /\ Due(FwdWS(s, t, u)) <=> Products(W(s, t))
    /\ Due(FwdSI(s, u)) <=> NetWhole(s, u)
    /\ Due(FwdIT(s, u)) <=> NetPassed(s, u)
    /\ Due(FwdTW(s, t, u)) <=> NetUsed(t, u)
    /\ Due(FsgnW(s, t)) <=> OutputsIn(W(s, t))
    /\ \A d : Due(FsgnS(s, d)) <=> FsgnIn(s)
    /\ \A d : Due(CritT(s, d)) <=> CritWhole(s)
    /\ Due(BkpTI(s, u)) <=> Deltas(s)
    /\ Due(BkpIW(s, t, u)) <=> DeltaPassed(s, u)
    /\ Due(BkpWS(s, t, u)) <=> DeltasIn(W(s, t))
    /\ Due(BkpST(s, u)) <=> ErrorWhole(s, u)
    /\ \A d : Due(BsgnS(s, d)) <=> SBReported(s)
    /\ \A d : Due(BsgnT(s, d)) <=> TBReported(s)
    /\ Due(LdsW(s, t, u)) <=> DeltaUsed(s, t, u) /\ DeltasSummed(Place(wc[W(s, t)]))
    /\ \A d : Due(LdsS(s, d)) <=> LdsIn(s) /\ DeltasSummed(Place(sc[s]))

\* When each kind of packet is due.
LEMMA DueByLink == DueTable
<1> SUFFICES ASSUME NEW s \in Sub, NEW t \in Sub, NEW u \in Unit, NEW d
             PROVE  /\ Due(FwdWS(s, t, u)) <=> Products(W(s, t))
                    /\ Due(FwdSI(s, u)) <=> NetWhole(s, u)
                    /\ Due(FwdIT(s, u)) <=> NetPassed(s, u)
                    /\ Due(FwdTW(s, t, u)) <=> NetUsed(t, u)
                    /\ Due(FsgnW(s, t)) <=> OutputsIn(W(s, t))
                    /\ Due(FsgnS(s, d)) <=> FsgnIn(s)
                    /\ Due(CritT(s, d)) <=> CritWhole(s)
                    /\ Due(BkpTI(s, u)) <=> Deltas(s)
                    /\ Due(BkpIW(s, t, u)) <=> DeltaPassed(s, u)
                    /\ Due(BkpWS(s, t, u)) <=> DeltasIn(W(s, t))
                    /\ Due(BkpST(s, u)) <=> ErrorWhole(s, u)
                    /\ Due(BsgnS(s, d)) <=> SBReported(s)
                    /\ Due(BsgnT(s, d)) <=> TBReported(s)
                    /\ Due(LdsW(s, t, u)) <=> DeltaUsed(s, t, u) /\ DeltasSummed(Place(wc[W(s, t)]))
                    /\ Due(LdsS(s, d)) <=> LdsIn(s) /\ DeltasSummed(Place(sc[s]))
  BY DEF DueTable
<1> USE LinkTable, CoresApart DEF Due
<1>1. Due(FwdWS(s, t, u)) <=> Products(W(s, t))
  OBVIOUS
<1>2. Due(FwdSI(s, u)) <=> NetWhole(s, u)
  OBVIOUS
<1>3. Due(FwdIT(s, u)) <=> NetPassed(s, u)
  OBVIOUS
<1>4. Due(FwdTW(s, t, u)) <=> NetUsed(t, u)
  OBVIOUS
<1>5. Due(FsgnW(s, t)) <=> OutputsIn(W(s, t))
  OBVIOUS
<1>6. Due(FsgnS(s, d)) <=> FsgnIn(s)
  OBVIOUS
<1>7. Due(CritT(s, d)) <=> CritWhole(s)
  OBVIOUS
<1>8. Due(BkpTI(s, u)) <=> Deltas(s)
  OBVIOUS
<1>9. Due(BkpIW(s, t, u)) <=> DeltaPassed(s, u)
  OBVIOUS
<1>10. Due(BkpWS(s, t, u)) <=> DeltasIn(W(s, t))
  OBVIOUS
<1>11. Due(BkpST(s, u)) <=> ErrorWhole(s, u)
  OBVIOUS
<1>12. Due(BsgnS(s, d)) <=> SBReported(s)
  OBVIOUS
<1>13. Due(BsgnT(s, d)) <=> TBReported(s)
  OBVIOUS
<1>14. Due(LdsW(s, t, u)) <=> DeltaUsed(s, t, u) /\ DeltasSummed(Place(wc[W(s, t)]))
  OBVIOUS
<1>15. Due(LdsS(s, d)) <=> LdsIn(s) /\ DeltasSummed(Place(sc[s]))
  OBVIOUS
<1> QED BY <1>1, <1>2, <1>3, <1>4, <1>5, <1>6, <1>7, <1>8,
            <1>9, <1>10, <1>11, <1>12, <1>13, <1>14, <1>15

\* What becomes due is what is sent.
LEMMA DueStep ==
  ASSUME FlowAndMachine, NEW a, NEW D, NEW E, NEW N, TickStep(a, D, E, N), DueFrom(a, N), NEW x \in AllLinks
  PROVE  Due(x)' <=> Due(x) \/ x \in N
<1> USE LinkTable, CoresApart
<1>1. CASE x[2] = a
  BY <1>1 DEF DueFrom
<1> SUFFICES ASSUME x[2] # a
             PROVE  Due(x)' <=> Due(x)
  BY <1>1, NewFrom
<1> DEFINE Ok(y) == Due(y)' <=> Due(y) \/ y \in N
<1>2. ASSUME NEW y \in AllLinks, y[2] = a \/ (Due(y)' <=> Due(y))
      PROVE  Ok(y)
  <2>1. \A z \in N : z[2] = a
    BY NewFrom
  <2>2. y[2] = a => Ok(y)
    BY DEF DueFrom
  <2> QED BY <1>2, <2>1, <2>2
<1>3. ASSUME NEW y \in AllLinks, Ok(y), y[3] # a
      PROVE  y \in Got' <=> y \in Got
  BY <1>3, GotFrame, NewFrom
<1>4. ByGot /\ ByGot'
  BY ChainsByGot, PTL
<1>5. ASSUME NEW s \in Sub, NEW u \in Unit
      PROVE  Ok(FwdSI(s, u)) /\ Ok(BkpTI(s, u))
  <2>1. FwdSI(s, u) \in AllLinks /\ BkpTI(s, u) \in AllLinks
    BY ForwardIntro, BackpropIntro DEF AllLinks
  <2>2. Due(FwdSI(s, u)) <=> NetWhole(s, u)
    BY <2>1 DEF Due
  <2>3. Due(FwdSI(s, u))' <=> NetWhole(s, u)'
    BY <2>1 DEF Due
  <2>4. Due(BkpTI(s, u)) <=> Deltas(s)
    BY <2>1 DEF Due
  <2>5. Due(BkpTI(s, u))' <=> Deltas(s)'
    BY <2>1 DEF Due
  <2> HIDE DEF Ok
  <2>6. S(s) # a => (NetWhole(s, u)' <=> NetWhole(s, u))
    BY ScoreboardFrame
  <2>7. T(s) # a => (Deltas(s)' <=> Deltas(s))
    BY ScoreboardFrame
  <2> QED BY <1>2, <2>1, <2>2, <2>3, <2>4, <2>5, <2>6, <2>7
<1>6. ASSUME NEW s \in Sub, NEW u \in Unit
      PROVE  /\ I(s) # a => /\ NetPassed(s, u)' <=> NetPassed(s, u)
                            /\ DeltaPassed(s, u)' <=> DeltaPassed(s, u)
             /\ Ok(FwdIT(s, u)) /\ \A t \in Sub : Ok(BkpIW(s, t, u))
  <2>1. /\ FwdSI(s, u) \in AllLinks /\ BkpTI(s, u) \in AllLinks /\ FwdIT(s, u) \in AllLinks
        /\ \A t \in Sub : BkpIW(s, t, u) \in AllLinks
    BY ForwardIntro, BackpropIntro DEF AllLinks
  <2>2. I(s) # a => /\ NetPassed(s, u)' <=> NetPassed(s, u)
                    /\ DeltaPassed(s, u)' <=> DeltaPassed(s, u)
    <3> HIDE DEF Ok
    <3>1. I(s) # a => /\ FwdSI(s, u) \in Got' <=> FwdSI(s, u) \in Got
                      /\ BkpTI(s, u) \in Got' <=> BkpTI(s, u) \in Got
      BY <1>3, <1>5, <2>1
    <3> QED BY <1>4, <3>1 DEF ByGot
  <2>3. /\ Due(FwdIT(s, u)) <=> NetPassed(s, u)
        /\ \A t \in Sub : Due(BkpIW(s, t, u)) <=> DeltaPassed(s, u)
    BY <2>1 DEF Due
  <2>4. /\ Due(FwdIT(s, u))' <=> NetPassed(s, u)'
        /\ \A t \in Sub : Due(BkpIW(s, t, u))' <=> DeltaPassed(s, u)'
    BY <2>1 DEF Due
  <2>5. FwdIT(s, u)[2] = I(s) /\ \A t \in Sub : BkpIW(s, t, u)[2] = I(s)
    OBVIOUS
  <2> HIDE DEF Ok
  <2>6. Ok(FwdIT(s, u))
    BY <1>2, <2>1, <2>2, <2>3, <2>4, <2>5
  <2>7. \A t \in Sub : Ok(BkpIW(s, t, u))
    BY <1>2, <2>1, <2>2, <2>3, <2>4, <2>5
  <2> QED BY <2>2, <2>6, <2>7
<1>7. ASSUME NEW s \in Sub, NEW u \in Unit
      PROVE  /\ T(s) # a => (NetUsed(s, u)' <=> NetUsed(s, u))
             /\ \A t \in Sub : W(s, t) # a => (DeltaUsed(s, t, u)' <=> DeltaUsed(s, t, u))
  <2>1. FwdIT(s, u) \in AllLinks /\ \A t \in Sub : BkpIW(s, t, u) \in AllLinks
    BY ForwardIntro, BackpropIntro DEF AllLinks
  <2>2. FwdIT(s, u)[3] = T(s) /\ \A t \in Sub : BkpIW(s, t, u)[3] = W(s, t)
    OBVIOUS
  <2> HIDE DEF Ok
  <2>3. T(s) # a => (FwdIT(s, u) \in Got' <=> FwdIT(s, u) \in Got)
    BY <1>3, <1>6, <2>1, <2>2
  <2>4. \A t \in Sub : W(s, t) # a => (BkpIW(s, t, u) \in Got' <=> BkpIW(s, t, u) \in Got)
    BY <1>3, <1>6, <2>1, <2>2
  <2> QED BY <1>4, <2>3, <2>4 DEF ByGot
<1> HIDE DEF Ok
<1>8. DueTable /\ DueTable'
  BY DueByLink, PTL
<1> HIDE LinkTable, CoresApart
<1>9. /\ \A s, t \in Sub, u \in Unit :
           /\ FwdWS(s, t, u)[2] = W(s, t) /\ FwdSI(s, u)[2] = S(s) /\ FwdIT(s, u)[2] = I(s)
           /\ FwdTW(s, t, u)[2] = T(t) /\ FsgnW(s, t)[2] = W(s, t)
           /\ \A d : FsgnS(s, d)[2] = S(s) /\ CritT(s, d)[2] = T(s)
           /\ BkpTI(s, u)[2] = T(s) /\ BkpIW(s, t, u)[2] = I(s) /\ BkpWS(s, t, u)[2] = W(s, t)
           /\ BkpST(s, u)[2] = S(s) /\ \A d : BsgnS(s, d)[2] = S(s) /\ BsgnT(s, d)[2] = T(s)
           /\ LdsW(s, t, u)[2] = W(s, t) /\ \A d : LdsS(s, d)[2] = S(s)
  BY LinkTable
<1>10. \A s, t \in Sub : W(s, t) \in WCores
  BY CoreFacts
<1>11. CASE x \in ForwardLinks
  <2>1. ForwardKind(x)
    BY <1>11, ForwardElim
  <2> QED BY <1>6, <1>7, <1>8, <1>9, <1>10, <2>1, ScoreboardFrame, UnitFacts
       DEF ForwardKind, DueTable
<1>12. CASE x \in BackpropLinks
  <2>1. BackpropKind(x)
    BY <1>12, BackpropElim
  <2> QED BY <1>6, <1>7, <1>8, <1>9, <1>10, <2>1, ScoreboardFrame, UnitFacts
       DEF BackpropKind, DueTable
<1>13. CASE x \in DeltaSumLinks
  <2>1. DeltaSumKind(x)
    BY <1>13, DeltaSumElim
  <2>2. /\ \A c \in WCores : Place(wc'[c]) = Place(wc[c])
        /\ \A s \in Sub : Place(sc'[s]) = Place(sc[s])
    BY PlaceStep
  <2>3. \A p, q : p = q => (DeltasSummed(p) <=> DeltasSummed(q))
    OBVIOUS
  <2> QED BY <1>7, <1>8, <1>9, <1>10, <2>1, <2>2, <2>3, ScoreboardFrame, UnitFacts
       DEF DeltaSumKind, DueTable
<1> QED BY <1>11, <1>12, <1>13 DEF AllLinks

(***************************************************************************)
(* What such a step leaves as it is.                                       *)
(***************************************************************************)
LEMMA TakenSent ==
  ASSUME FlowAndMachine, NEW a, NEW D, NEW E, NEW N, TickStep(a, D, E, N)
  PROVE  Taken(D) \subseteq Sent
<1>1. \A p \in D : p \in net /\ Awaits(p)
  BY DEF TickStep
<1>2. \A p \in net : Awaits(p) => LinkOf(p) \in Sent
  BY DEF FlowAndMachine, MachineInv, NetOK, PacketOK
<1> QED BY <1>1, <1>2 DEF Taken

\* The links over which packets have been sent and handled.
LEMMA SentGot ==
  ASSUME FlowAndMachine, NEW a, NEW D, NEW E, NEW N, TickStep(a, D, E, N), DueFrom(a, N)
  PROVE  Sent' = Sent \cup N /\ Got' = Got \cup Taken(D)
<1>1. N \subseteq AllLinks
  <2>1. N \subseteq LinksOf(cur) /\ cur \in FlowPlaces
    BY FlowFacts DEF TickStep, FlowAndMachine
  <2> QED BY <2>1, LinksOfFacts
<1>2. Sent' = Sent \cup N
  <2>1. \A x \in AllLinks : Due(x)' <=> Due(x) \/ x \in N
    BY DueStep
  <2> QED BY <1>1, <2>1 DEF Sent
<1>3. \A x \in AllLinks : OnLink(x)' <=> (OnLink(x) /\ x \notin Taken(D)) \/ x \in N
  BY OnLinkStep
<1>4. N \cap Sent = {}
  BY DEF TickStep
<1>5. Taken(D) \subseteq Sent /\ Sent \subseteq AllLinks
  BY TakenSent DEF Sent
<1> QED BY <1>1, <1>2, <1>3, <1>4, <1>5 DEF Got

\* The packets in the fabric after the step,
LEMMA NetStep ==
  ASSUME FlowAndMachine, NEW a, NEW D, NEW E, NEW N, TickStep(a, D, E, N), DueFrom(a, N)
  PROVE  NetOK' /\ OnePacket'
<1>1. Sent' = Sent \cup N /\ CurStamp' = CurStamp /\ tc'[LastSub].done = tc[LastSub].done
  BY SentGot, PlaceStep
<1>2. net' = (net \ D) \cup E /\ tc'[LastSub].tick_stop = tc[LastSub].tick_stop
  BY DEF TickStep
<1>3. \A p \in net : PacketOK(p)
  BY DEF FlowAndMachine, MachineInv, NetOK
<1>4. ASSUME NEW p \in net PROVE PacketOK(p)'
  <2>1. PacketOK(p)
    BY <1>3
  <2>2. p.dst \in Cores
    BY <2>1 DEF PacketOK
  <2>3. Stamp(Rec(p.dst)') = Stamp(Rec(p.dst)) /\ Rec(p.dst)'.phase = Rec(p.dst).phase
    BY <2>2, PlaceStep DEF Keeps, Place, Stamp
  <2> QED BY <1>1, <1>2, <2>1, <2>3 DEF PacketOK
<1>5. ASSUME NEW e \in E PROVE PacketOK(e)'
  <2>1. Sending(e, a) /\ (Loose(e) \/ LinkOf(e) \in N) /\ a \in Cores
    BY <1>5 DEF TickStep
  <2>2. e.kind \notin {"stop", "sync", "stpn"} /\ (Awaits(e) <=> ~Loose(e))
    BY <2>1, PacketKinds
  <2>3. e.st = CurStamp \/ Loose(e)
    BY <2>1 DEF Sending, Loose
  <2>4. e.kind \in DataKinds \cup ControlKinds /\ (e.kind = "lds" => Dougs /\ e.dst[1] \in {"W", "S"})
    BY <2>1 DEF Sending, DataKinds, ControlKinds
  <2> QED BY <1>1, <2>1, <2>2, <2>3, <2>4 DEF PacketOK, Sending
<1>6. NetOK'
  BY <1>2, <1>4, <1>5 DEF NetOK
<1>7. ASSUME NEW p \in net, NEW q \in E, ~Loose(q), LinkOf(p) = LinkOf(q)
      PROVE  FALSE
  <2>1. LinkOf(q) \in N /\ N \cap Sent = {} /\ Sending(q, a)
    BY <1>7 DEF TickStep
  <2>2. p.kind = q.kind /\ p.dst = q.dst
    BY <1>7, LinkApart DEF LinkOf
  <2>3. Awaits(p)
    BY <1>7, <2>1, <2>2, PacketKinds DEF Awaits
  <2> QED BY <1>3, <1>7, <2>1, <2>3 DEF PacketOK
<1>8. \A p, q : LinkOf(p) = LinkOf(q) => (Loose(p) <=> Loose(q))
  BY LinkApart DEF LinkOf, Loose
<1>9. OnePacket'
  <2> SUFFICES ASSUME NEW p \in net', NEW q \in net', ~Loose(p), LinkOf(p) = LinkOf(q)
               PROVE  p = q
    BY DEF OnePacket
  <2>1. ~Loose(q)
    BY <1>8
  <2>2. CASE p \in net /\ q \in net
    BY <2>2 DEF FlowAndMachine, MachineInv, OnePacket
  <2>3. CASE p \in E /\ q \in E
    BY <2>3 DEF TickStep
  <2> QED BY <1>2, <1>7, <2>1, <2>2, <2>3
<1> QED BY <1>6, <1>9

\* the end of the epoch,
LEMMA EpochStep ==
  ASSUME FlowAndMachine, NEW a, NEW D, NEW E, NEW N, TickStep(a, D, E, N), DueFrom(a, N)
  PROVE  EpochOK' /\ PacedOK'
<1>1. /\ cur' = cur /\ Behind' = Behind /\ Heading({"stpn"})' = Heading({"stpn"})
      /\ tc'[LastSub].done = tc[LastSub].done
  BY PlaceStep, HeadingStep
<1>2. \A c \in Cores : /\ Rec(c)'.net_stop = Rec(c).net_stop
                       /\ Rec(c)'.net_stop_rdy = Rec(c).net_stop_rdy
                       /\ c[1] = "W" => Rec(c)'.epoch_rdy = Rec(c).epoch_rdy
                       /\ Rec(c)'.phase = Rec(c).phase /\ Rec(c)'.tick = Rec(c).tick
  BY PlaceStep, RecFacts, CoreKinds DEF Keeps, Place
<1>3. ASSUME NEW c \in Cores \ {LastT} PROVE RendezvousOK(c)'
  <2>1. RendezvousOK(c)
    BY DEF FlowAndMachine, MachineInv, EpochOK
  <2>2. Opened(c)' = Opened(c)
    BY <1>1 DEF Opened, cur
  <2>3. Told(c)' = Told(c)
    BY <1>1 DEF Opened, Told, cur
  <2>4. /\ Rec(c)'.net_stop = Rec(c).net_stop
        /\ Rec(c)'.net_stop_rdy = Rec(c).net_stop_rdy
        /\ c[1] = "W" => Rec(c)'.epoch_rdy = Rec(c).epoch_rdy
    BY <1>2
  <2> QED BY <1>1, <2>1, <2>2, <2>3, <2>4 DEF RendezvousOK
<1>4. PacedOK'
  <2>1. LastT \in Cores /\ Rec(LastT) = tc[LastSub] /\ Rec(LastT)' = tc'[LastSub]
    BY CoreFacts, LastSubFacts, RecFacts DEF LastT
  <2>2. /\ tc'[LastSub].tick_stop = tc[LastSub].tick_stop
        /\ tc'[LastSub].ev_tick = tc[LastSub].ev_tick
    BY DEF TickStep
  <2>3. Behind \subseteq Cores
    BY FlowFacts DEF FlowAndMachine
  <2> QED BY <1>1, <1>2, <2>1, <2>2, <2>3 DEF FlowAndMachine, MachineInv, PacedOK
<1> QED BY <1>3, <1>4 DEF EpochOK

\* and the scoreboards of the other cores.
LEMMA OthersStep ==
  ASSUME FlowAndMachine, NEW a, NEW D, NEW E, NEW N, TickStep(a, D, E, N), DueFrom(a, N)
  PROVE  /\ \A c \in WCores : c # a => WCoreOK(c)'
         /\ \A s \in Sub : /\ S(s) # a => SCoreOK(s)'
                           /\ T(s) # a => TCoreOK(s)'
<1>1. \A k, c, u : c # a => GotInto(k, c)' = GotInto(k, c) /\ GotUnit(k, c, u)' = GotUnit(k, c, u)
  <2> SUFFICES ASSUME NEW k, NEW c, NEW u, c # a
               PROVE  GotInto(k, c)' = GotInto(k, c) /\ GotUnit(k, c, u)' = GotUnit(k, c, u)
    OBVIOUS
  <2>1. Got' = Got \cup Taken(D) /\ \A x \in Taken(D) : x[3] = a
    BY SentGot, NewFrom
  <2>2. Into({k}, c) \cap Got' = Into({k}, c) \cap Got
    BY <2>1 DEF Into
  <2>3. IntoUnit(k, c, u) \cap Got' = IntoUnit(k, c, u) \cap Got
    BY <2>1 DEF IntoUnit
  <2> QED BY <2>2, <2>3 DEF GotInto, GotUnit
<1>2. /\ Others(a)
      /\ \A c \in Cores : \A ph : In(c, ph)' <=> In(c, ph)
  <2>1. Others(a)
    BY DEF TickStep
  <2> QED BY <2>1, PlaceStep
<1>3. CoresOK
  BY DEF FlowAndMachine, MachineInv
<1>4. ASSUME NEW c \in WCores, c # a
      PROVE  WCoreOK(c)'
  <2>1. wc'[c] = wc[c] /\ \A ph : In(c, ph)' <=> In(c, ph)
    BY <1>2, <1>4, RecFacts DEF Others
  <2>2. \A k : GotInto(k, c)' = GotInto(k, c)
    BY <1>1, <1>4
  <2>3. WCoreOK(c)
    BY <1>3 DEF CoresOK
  <2> QED BY <2>1, <2>2, <2>3 DEF WCoreOK
<1>5. ASSUME NEW s \in Sub, S(s) # a
      PROVE  SCoreOK(s)'
  <2>1. sc'[s] = sc[s] /\ \A ph : In(S(s), ph)' <=> In(S(s), ph)
    BY <1>2, <1>5, CoreFacts DEF Others
  <2>2. \A k, u : GotInto(k, S(s))' = GotInto(k, S(s)) /\ GotUnit(k, S(s), u)' = GotUnit(k, S(s), u)
    BY <1>1, <1>5
  <2>3. SCoreOK(s)
    BY <1>3 DEF CoresOK
  <2>4. SBThreads(s)' = SBThreads(s) /\ SBThreadsDone(s)' = SBThreadsDone(s)
    BY <2>1 DEF SBThreads, SBThreadsDone
  <2> QED BY <2>1, <2>2, <2>3, <2>4 DEF SCoreOK
<1>6. ASSUME NEW s \in Sub, T(s) # a
      PROVE  TCoreOK(s)'
  <2>1. tc'[s] = tc[s] /\ \A ph : In(T(s), ph)' <=> In(T(s), ph)
    BY <1>2, <1>6, CoreFacts DEF Others
  <2>2. \A k : GotInto(k, T(s))' = GotInto(k, T(s))
    BY <1>1, <1>6
  <2>3. TCoreOK(s)
    BY <1>3 DEF CoresOK
  <2>4. Into({"fsgn"}, T(s)) \subseteq Got' <=> Into({"fsgn"}, T(s)) \subseteq Got
    <3>1. Got' = Got \cup Taken(D) /\ \A x \in Taken(D) : x[3] = a
      BY SentGot, NewFrom
    <3> QED BY <1>6, <3>1 DEF Into
  <2>5. TFThreadsDone(s)' = TFThreadsDone(s) /\ TBThreadsDone(s)' = TBThreadsDone(s)
    BY <2>1, <2>4 DEF TFThreadsDone, TBThreadsDone
  <2> QED BY <2>1, <2>2, <2>3, <2>5 DEF TCoreOK
<1> QED BY <1>4, <1>5, <1>6

(***************************************************************************)
(* The invariant after such a step: what remains to be shown of an action  *)
(* is that its core counts right, and that the packets it sends depend on  *)
(* packets that have been handled.                                         *)
(***************************************************************************)
CoreOK(a) ==
  /\ a \in WCores => WCoreOK(a) /\ WShape(wc[a])
  /\ \A s \in Sub : /\ S(s) = a => SCoreOK(s) /\ SShape(sc[s])
                    /\ I(s) = a => IShape(ic[s])
                    /\ T(s) = a => TCoreOK(s) /\ TShape(tc[s])

Ready(D, N) == \A x \in N : LinkDeps(x) \cap LinksOf(cur) \subseteq Got \cup Taken(D)

\* what is taken: a packet, or nothing (a callback that runs of its own accord)
OneOrNone(D) ==
  \/ \E p : D = {p}
  \/ /\ D = {} /\ Heading({"stpn"}) = {} /\ ~tc[LastSub].done
     /\ Flow!EpochOver(cur) => LastT \notin Behind

\* The step is one of TickFlow.
LEMMA FlowStep ==
  ASSUME FlowAndMachine, NEW a, NEW D, NEW E, NEW N, TickStep(a, D, E, N), DueFrom(a, N),
         Ready(D, N), OneOrNone(D)
  PROVE  Flow!Next
<1>1. Flow!FlowInv
  BY DEF FlowAndMachine
<1>2. Sent' = Sent \cup N /\ Got' = Got \cup Taken(D) /\ Taken(D) \subseteq Sent
  BY SentGot, TakenSent
<1>3. \A x \in Taken(D) : x \notin Got /\ x[3] = a
  <2>1. \A p \in D : p \in net
    BY DEF TickStep
  <2>2. \A p \in D : OnLink(LinkOf(p))
    BY <2>1 DEF OnLink
  <2>3. \A x \in Taken(D) : OnLink(x)
    BY <2>2 DEF Taken
  <2> QED BY <2>3, NewFrom DEF Got
<1>4. Heading({"stpn"}) = {} /\ ~tc[LastSub].done /\ (Flow!EpochOver(cur) => LastT \notin Behind)
  <2>1. CASE D # {}
    <3>1. Sent # {}
      BY <1>2, <2>1 DEF Taken
    <3> QED BY <1>1, <3>1, FlowFacts
  <2>2. CASE D = {}
    BY <2>2 DEF OneOrNone
  <2> QED BY <2>1, <2>2
<1>5. a \notin Behind /\ N \subseteq LinksOf(cur) \ Sent /\ \A x \in N : x[2] = a
  <2>1. \A x \in N : x[2] = a
    BY NewFrom
  <2> QED BY <2>1 DEF TickStep
<1>6. TickLinks[cur] = LinksOf(cur) /\ N \subseteq AllLinks
  BY <1>1, <1>5, FlowFacts, LinksOfFacts
<1>7. \A x \in N : TickDeps[x] \cap LinksOf(cur) \subseteq Got'
  BY <1>2, <1>6 DEF Ready, TickDeps
<1>8. Flow!Sends
  <2>1. UNCHANGED <<[c \in Cores |-> Place(Rec(c))], Behind, tc[LastSub].tick_stop>>
    <3>1. \A c \in Cores : Place(Rec(c))' = Place(Rec(c))
      BY PlaceStep DEF Keeps, Place
    <3>2. [c \in Cores |-> Place(Rec(c))]' = [c \in Cores |-> Place(Rec(c))]
      BY <3>1
    <3>3. tc'[LastSub].tick_stop = tc[LastSub].tick_stop
      BY DEF TickStep
    <3> QED BY <3>2, <3>3, HeadingStep
  <2>2. UNCHANGED <<Heading({"stpn"}), tc[LastSub].done, {c \in Cores : Rec(c).done}>>
    <3>1. \A c \in Cores : Rec(c)'.done = Rec(c).done
      BY PlaceStep DEF Keeps
    <3>2. {c \in Cores : Rec(c).done}' = {c \in Cores : Rec(c).done}
      BY <3>1
    <3> QED BY <3>2, HeadingStep, PlaceStep
  <2>3. \A x \in Sent' \ Sent :
          /\ x \in TickLinks[Flow!cur] /\ x[2] \notin Behind
          /\ TickDeps[x] \cap TickLinks[Flow!cur] \subseteq Got'
          /\ Flow!EpochOver(Flow!cur) => LastT \notin Behind
    BY <1>2, <1>4, <1>5, <1>6, <1>7 DEF cur
  <2> QED BY <1>2, <1>4, <2>1, <2>2, <2>3 DEF Flow!Sends, Flow!stage
<1>9. CASE D = {}
  <2>1. Got' = Got
    BY <1>2, <1>9 DEF Taken
  <2> QED BY <1>8, <2>1 DEF Flow!Next, Flow!Start
<1>10. ASSUME NEW p, D = {p}
       PROVE  Flow!Next
  <2>1. Taken(D) = {LinkOf(p)}
    BY <1>10 DEF Taken
  <2>2. Flow!Handle(LinkOf(p))
    BY <1>2, <1>3, <1>5, <1>8, <2>1 DEF Flow!Handle
  <2> QED BY <1>2, <2>1, <2>2 DEF Flow!Next
<1>11. D = {} \/ \E p : D = {p}
  BY DEF OneOrNone
<1> QED BY <1>9, <1>10, <1>11

\* So it keeps the invariant, if the core itself counts right.
LEMMA TickStepInv ==
  ASSUME FlowAndMachine, NEW a, NEW D, NEW E, NEW N, TickStep(a, D, E, N), DueFrom(a, N),
         Ready(D, N), OneOrNone(D), CoreOK(a)'
  PROVE  FlowAndMachine' /\ Flow!Next
<1>1. Flow!Next
  BY FlowStep
<1>2. Flow!FlowInv'
  <2>1. Flow!FlowInv
    BY DEF FlowAndMachine
  <2> QED BY <1>1, <2>1, MachineGraph, Flow!StepInv
<1>3. NetOK' /\ OnePacket' /\ EpochOK' /\ PacedOK'
  BY NetStep, EpochStep
<1>4. Others(a)
  BY DEF TickStep
<1>5. CoresOK'
  <2>1. \A c \in WCores : WCoreOK(c)'
    BY OthersStep DEF CoreOK
  <2>2. \A s \in Sub : SCoreOK(s)' /\ TCoreOK(s)'
    BY OthersStep DEF CoreOK
  <2> QED BY <2>1, <2>2 DEF CoresOK
<1>6. ShapeOK'
  <2>1. ShapeOK
    BY DEF FlowAndMachine, MachineInv
  <2>2. \A c \in WCores : WShape(wc'[c])
    BY <1>4, <2>1 DEF CoreOK, ShapeOK, Others
  <2>3. \A s \in Sub : SShape(sc'[s]) /\ IShape(ic'[s]) /\ TShape(tc'[s])
    BY <1>4, <2>1 DEF CoreOK, ShapeOK, Others
  <2> QED BY <1>4, <2>1, <2>2, <2>3 DEF ShapeOK, Others
<1> QED BY <1>1, <1>2, <1>3, <1>5, <1>6 DEF FlowAndMachine, MachineInv

(***************************************************************************)
(* What leads out of a core, and what it depends on.                       *)
(***************************************************************************)
LEMMA OutOfW ==
  ASSUME NEW to \in Sub, NEW from \in Sub, NEW x \in AllLinks, x[2] = W(to, from)
  PROVE  \/ x = FsgnW(to, from)
         \/ \E u \in Unit : \/ x = FwdWS(to, from, u) \/ x = BkpWS(to, from, u)
                            \/ x = LdsW(to, from, u)
<1> USE LinkTable, CoresApart
<1>1. CASE x \in ForwardLinks
  <2>1. ForwardKind(x)
    BY <1>1, ForwardElim
  <2> QED BY <2>1 DEF ForwardKind
<1>2. CASE x \in BackpropLinks
  <2>1. BackpropKind(x)
    BY <1>2, BackpropElim
  <2> QED BY <2>1 DEF BackpropKind
<1>3. CASE x \in DeltaSumLinks
  <2>1. DeltaSumKind(x)
    BY <1>3, DeltaSumElim
  <2> QED BY <2>1 DEF DeltaSumKind
<1> QED BY <1>1, <1>2, <1>3 DEF AllLinks

\* The links that lead out of a sum core,
LEMMA OutOfS ==
  ASSUME NEW s \in Sub, NEW x \in AllLinks, x[2] = S(s)
  PROVE  \/ \E u \in Unit : x = FwdSI(s, u) \/ x = BkpST(s, u)
         \/ \E d \in FsgRoute(s) : \/ x = FsgnS(s, d) \/ x = BsgnS(s, d)
                                   \/ s # FirstSub /\ x = LdsS(s, d)
<1> USE LinkTable, CoresApart
<1>1. CASE x \in ForwardLinks
  <2>1. ForwardKind(x)
    BY <1>1, ForwardElim
  <2> QED BY <2>1 DEF ForwardKind
<1>2. CASE x \in BackpropLinks
  <2>1. BackpropKind(x)
    BY <1>2, BackpropElim
  <2> QED BY <2>1 DEF BackpropKind
<1>3. CASE x \in DeltaSumLinks
  <2>1. DeltaSumKind(x)
    BY <1>3, DeltaSumElim
  <2> QED BY <2>1 DEF DeltaSumKind
<1> QED BY <1>1, <1>2, <1>3 DEF AllLinks

\* an input core,
LEMMA OutOfI ==
  ASSUME NEW s \in Sub, NEW x \in AllLinks, x[2] = I(s)
  PROVE  \E u \in Unit : x = FwdIT(s, u) \/ \E t \in Sub : x = BkpIW(s, t, u)
<1> USE LinkTable, CoresApart
<1>1. CASE x \in ForwardLinks
  <2>1. ForwardKind(x)
    BY <1>1, ForwardElim
  <2> QED BY <2>1 DEF ForwardKind
<1>2. CASE x \in BackpropLinks
  <2>1. BackpropKind(x)
    BY <1>2, BackpropElim
  <2> QED BY <2>1 DEF BackpropKind
<1>3. CASE x \in DeltaSumLinks
  <2>1. DeltaSumKind(x)
    BY <1>3, DeltaSumElim
  <2> QED BY <2>1 DEF DeltaSumKind
<1> QED BY <1>1, <1>2, <1>3 DEF AllLinks

\* a threshold core.
LEMMA OutOfT ==
  ASSUME NEW s \in Sub, NEW x \in AllLinks, x[2] = T(s)
  PROVE  \/ \E u \in Unit : x = BkpTI(s, u) \/ \E t \in Sub : x = FwdTW(t, s, u)
         \/ s # LastSub /\ \E d \in StpRoute(s) : x = CritT(s, d) \/ x = BsgnT(s, d)
<1> USE LinkTable, CoresApart
<1>1. CASE x \in ForwardLinks
  <2>1. ForwardKind(x)
    BY <1>1, ForwardElim
  <2> QED BY <2>1 DEF ForwardKind
<1>2. CASE x \in BackpropLinks
  <2>1. BackpropKind(x)
    BY <1>2, BackpropElim
  <2> QED BY <2>1 DEF BackpropKind
<1>3. CASE x \in DeltaSumLinks
  <2>1. DeltaSumKind(x)
    BY <1>3, DeltaSumElim
  <2> QED BY <2>1 DEF DeltaSumKind
<1> QED BY <1>1, <1>2, <1>3 DEF AllLinks

\* What the packet of each link depends on.
LEMMA DepsTable ==
  ASSUME NEW s \in Sub, NEW t \in Sub, NEW u \in Unit, NEW d
  PROVE  /\ LinkDeps(FwdWS(s, t, u)) = {} /\ LinkDeps(BkpTI(s, u)) = {}
         /\ LinkDeps(FwdSI(s, u)) = IntoUnit("fwd", S(s), u)
         /\ LinkDeps(FwdIT(s, u)) = IntoUnit("fwd", I(s), u)
         /\ LinkDeps(FwdTW(s, t, u)) = IntoUnit("fwd", T(t), u)
         /\ LinkDeps(FsgnW(s, t)) = Into({"fwd"}, W(s, t))
         /\ LinkDeps(FsgnS(s, d)) = Into({"fsgn"}, S(s))
         /\ LinkDeps(CritT(s, d)) = Into({"fwd", "crit"}, T(s))
         /\ LinkDeps(BkpIW(s, t, u)) = IntoUnit("bkp", I(s), u)
         /\ LinkDeps(BkpWS(s, t, u)) = Into({"bkp"}, W(s, t))
         /\ LinkDeps(BkpST(s, u)) = IntoUnit("bkp", S(s), u)
         /\ LinkDeps(BsgnS(s, d)) = Into({"bkp", "bsgn", "lds"}, S(s))
         /\ LinkDeps(BsgnT(s, d)) = Into({"bkp", "bsgn", "lds"}, T(s))
         /\ LinkDeps(LdsW(s, t, u)) = IntoUnit("bkp", W(s, t), u)
         /\ LinkDeps(LdsS(s, d)) = Into({"lds"}, S(s))
<1> USE LinkTable, CoresApart DEF LinkDeps, Before, Into, IntoUnit
<1>1. LinkDeps(FwdWS(s, t, u)) = {} /\ LinkDeps(BkpTI(s, u)) = {}
  OBVIOUS
<1>2. LinkDeps(FwdSI(s, u)) = IntoUnit("fwd", S(s), u)
  OBVIOUS
<1>3. LinkDeps(FwdIT(s, u)) = IntoUnit("fwd", I(s), u)
  OBVIOUS
<1>4. LinkDeps(FwdTW(s, t, u)) = IntoUnit("fwd", T(t), u)
  OBVIOUS
<1>5. LinkDeps(FsgnW(s, t)) = Into({"fwd"}, W(s, t))
  OBVIOUS
<1>6. LinkDeps(FsgnS(s, d)) = Into({"fsgn"}, S(s))
  OBVIOUS
<1>7. LinkDeps(CritT(s, d)) = Into({"fwd", "crit"}, T(s))
  OBVIOUS
<1>8. LinkDeps(BkpIW(s, t, u)) = IntoUnit("bkp", I(s), u)
  OBVIOUS
<1>9. LinkDeps(BkpWS(s, t, u)) = Into({"bkp"}, W(s, t))
  OBVIOUS
<1>10. LinkDeps(BkpST(s, u)) = IntoUnit("bkp", S(s), u)
  OBVIOUS
<1>11. LinkDeps(BsgnS(s, d)) = Into({"bkp", "bsgn", "lds"}, S(s))
  OBVIOUS
<1>12. LinkDeps(BsgnT(s, d)) = Into({"bkp", "bsgn", "lds"}, T(s))
  OBVIOUS
<1>13. LinkDeps(LdsW(s, t, u)) = IntoUnit("bkp", W(s, t), u)
  OBVIOUS
<1>14. LinkDeps(LdsS(s, d)) = Into({"lds"}, S(s))
  OBVIOUS
<1> QED BY <1>1, <1>2, <1>3, <1>4, <1>5, <1>6, <1>7,
            <1>8, <1>9, <1>10, <1>11, <1>12, <1>13, <1>14

(***************************************************************************)
(* Counting.                                                               *)
(***************************************************************************)
LEMMA Scoreboard ==
  ASSUME NEW X, NEW n, Counts(X, n), NEW G, NEW l, l \notin G
  PROVE  /\ Cardinality(X \cap G) \in Nat
         /\ Cardinality(X \cap G) = n <=> X \subseteq G
         /\ l \notin X => Cardinality(X \cap (G \cup {l})) = Cardinality(X \cap G)
         /\ l \in X => /\ Cardinality(X \cap (G \cup {l})) = Cardinality(X \cap G) + 1
                       /\ Cardinality(X \cap G) # n
                       /\ Cardinality(X \cap G) + 1 = n <=> X \subseteq G \cup {l}
<1>1. IsFiniteSet(X) /\ Cardinality(X) = n
  BY DEF Counts
<1>2. Cardinality(X \cap G) \in Nat /\ (Cardinality(X \cap G) = n <=> X \subseteq G)
  BY <1>1, CountFull
<1>3. Cardinality(X \cap (G \cup {l})) = n <=> X \subseteq G \cup {l}
  BY <1>1, CountFull
<1>4. Cardinality(X \cap (G \cup {l})) =
        IF l \in X THEN Cardinality(X \cap G) + 1 ELSE Cardinality(X \cap G)
  BY <1>1, CountAdd
<1> QED BY <1>2, <1>3, <1>4

\* Counted in full,
LEMMA FullCount ==
  ASSUME NEW X, NEW n, Counts(X, n), NEW G, Cardinality(X \cap G) = n
  PROVE  X \subseteq G
<1>1. IsFiniteSet(X) /\ Cardinality(X) = n
  BY DEF Counts
<1>2. X \cap G = X
  BY <1>1, FS_Subset
<1> QED BY <1>2

\* and counted at all.
LEMMA CountNat ==
  ASSUME NEW X, NEW n, Counts(X, n), NEW G
  PROVE  Cardinality(X \cap G) \in Nat
<1>1. IsFiniteSet(X)
  BY DEF Counts
<1>2. IsFiniteSet(X \cap G)
  BY <1>1, FS_Subset
<1> QED BY <1>2, FS_CardinalityType

\* the thread that is done may be the last one
LEMMA ThreadStep ==
  ASSUME NEW init, NEW done, NEW t \in init, t \notin done,
         NEW pend, ThreadsOK(pend, init, done)
  PROVE  /\ pend = {t} <=> init \subseteq done \cup {t}
         /\ pend = {t} => ThreadsOK(pend, init, done \cup {t})
         /\ pend # {t} => ThreadsOK(pend \ {t}, init, done \cup {t})
<1>1. pend = init \ done /\ t \in pend
  BY DEF ThreadsOK
<1>2. pend = {t} <=> init \subseteq done \cup {t}
  BY <1>1
<1>3. pend # {t} => pend \ {t} = init \ (done \cup {t})
  BY <1>1
<1> QED BY <1>2, <1>3 DEF ThreadsOK

(***************************************************************************)
(* What has been handled on the way of a unit, after a step.               *)
(***************************************************************************)
LEMMA GotStep ==
  ASSUME FlowAndMachine, NEW a, NEW D, NEW E, NEW N, TickStep(a, D, E, N),
         NEW x \in AllLinks, Due(x)' <=> Due(x), x \notin N
  PROVE  x \in Got' <=> x \in Got \cup Taken(D)
<1>1. OnLink(x)' <=> OnLink(x) /\ x \notin Taken(D)
  BY OnLinkStep
<1>2. x \in Taken(D) => x \in Sent
  BY TakenSent
<1>3. x \in Got <=> Due(x) /\ ~OnLink(x)
  BY DEF Got, Sent
<1>4. x \in Got' <=> Due(x)' /\ ~OnLink(x)'
  BY DEF Got, Sent
<1>5. x \in Sent => Due(x)
  BY DEF Sent
<1> QED BY <1>1, <1>2, <1>3, <1>4, <1>5

\* What has been passed on, but for the core itself.
LEMMA ChainStep ==
  ASSUME FlowAndMachine, NEW a, NEW D, NEW E, NEW N, TickStep(a, D, E, N),
         NEW s \in Sub, NEW t \in Sub, NEW u \in Unit
  PROVE  /\ S(s) # a => (FwdSI(s, u) \in Got' <=> FwdSI(s, u) \in Got \cup Taken(D))
         /\ S(s) # a /\ I(s) # a =>
              (FwdIT(s, u) \in Got' <=> FwdIT(s, u) \in Got \cup Taken(D))
         /\ T(s) # a => (BkpTI(s, u) \in Got' <=> BkpTI(s, u) \in Got \cup Taken(D))
         /\ T(s) # a /\ I(s) # a =>
              (BkpIW(s, t, u) \in Got' <=> BkpIW(s, t, u) \in Got \cup Taken(D))
<1>1. /\ FwdSI(s, u) \in AllLinks /\ FwdIT(s, u) \in AllLinks
      /\ BkpTI(s, u) \in AllLinks /\ BkpIW(s, t, u) \in AllLinks
  BY ForwardIntro, BackpropIntro DEF AllLinks
<1>2. /\ FwdSI(s, u)[2] = S(s) /\ FwdSI(s, u)[3] = I(s) /\ FwdIT(s, u)[2] = I(s)
      /\ BkpTI(s, u)[2] = T(s) /\ BkpTI(s, u)[3] = I(s) /\ BkpIW(s, t, u)[2] = I(s)
  BY LinkTable
<1>3. DueTable /\ DueTable' /\ ByGot /\ ByGot'
  BY DueByLink, ChainsByGot, PTL
<1>4. (\A x \in N : x[2] = a) /\ (\A x \in Taken(D) : x[3] = a)
  BY NewFrom
<1>5. ASSUME S(s) # a
      PROVE  FwdSI(s, u) \in Got' <=> FwdSI(s, u) \in Got \cup Taken(D)
  <2>1. Due(FwdSI(s, u))' <=> Due(FwdSI(s, u))
    BY <1>3, <1>5, ScoreboardFrame DEF DueTable
  <2> QED BY <1>1, <1>2, <1>4, <1>5, <2>1, GotStep
<1>6. ASSUME S(s) # a, I(s) # a
      PROVE  FwdIT(s, u) \in Got' <=> FwdIT(s, u) \in Got \cup Taken(D)
  <2>1. FwdSI(s, u) \in Got' <=> FwdSI(s, u) \in Got
    BY <1>2, <1>4, <1>5, <1>6
  <2>2. Due(FwdIT(s, u))' <=> Due(FwdIT(s, u))
    BY <1>3, <2>1 DEF DueTable, ByGot
  <2> QED BY <1>1, <1>2, <1>4, <1>6, <2>2, GotStep
<1>7. ASSUME T(s) # a
      PROVE  BkpTI(s, u) \in Got' <=> BkpTI(s, u) \in Got \cup Taken(D)
  <2>1. Due(BkpTI(s, u))' <=> Due(BkpTI(s, u))
    BY <1>3, <1>7, ScoreboardFrame DEF DueTable
  <2> QED BY <1>1, <1>2, <1>4, <1>7, <2>1, GotStep
<1>8. ASSUME T(s) # a, I(s) # a
      PROVE  BkpIW(s, t, u) \in Got' <=> BkpIW(s, t, u) \in Got \cup Taken(D)
  <2>1. BkpTI(s, u) \in Got' <=> BkpTI(s, u) \in Got
    BY <1>2, <1>4, <1>7, <1>8
  <2>2. Due(BkpIW(s, t, u))' <=> Due(BkpIW(s, t, u))
    BY <1>3, <2>1 DEF DueTable, ByGot
  <2> QED BY <1>1, <1>2, <1>4, <1>8, <2>2, GotStep
<1> QED BY <1>5, <1>6, <1>7, <1>8

(***************************************************************************)
(* Phases.                                                                 *)
(***************************************************************************)
LEMMA PhaseFacts ==
  ASSUME FlowAndMachine
  PROVE  /\ cur \in FlowPlaces /\ cur[3] \in {F, B} /\ F # B
         /\ cur[3] = F => LinksOf(cur) = ForwardLinks
         /\ cur[3] = B => LinksOf(cur) = BackpropLinks \cup
                                           IF DeltasSummed(cur) THEN DeltaSumLinks ELSE {}
         /\ \A l \in LinksOf(cur) :
              /\ l[1] \in {"fwd", "fsgn", "crit"} => cur[3] = F
              /\ l[1] \in {"bkp", "bsgn", "lds"} => cur[3] = B
              /\ l[1] = "lds" => DeltasSummed(cur)
         /\ \A c \in Cores \ Behind : /\ Place(Rec(c)) = cur
                                      /\ \A ph : In(c, ph) <=> cur[3] = ph
<1>1. cur \in FlowPlaces
  BY FlowFacts DEF FlowAndMachine
<1>2. cur[3] \in {F, B} /\ F # B
  BY <1>1 DEF FlowPlaces, F, B
<1>3. /\ cur[3] = F => LinksOf(cur) = ForwardLinks
      /\ cur[3] = B => LinksOf(cur) = BackpropLinks \cup
                                        IF DeltasSummed(cur) THEN DeltaSumLinks ELSE {}
  BY <1>2 DEF LinksOf
<1>4. \A l \in LinksOf(cur) :
        /\ l[1] \in {"fwd", "fsgn", "crit"} => cur[3] = F
        /\ l[1] \in {"bkp", "bsgn", "lds"} => cur[3] = B
        /\ l[1] = "lds" => DeltasSummed(cur)
  BY <1>2, <1>3, LinkClass
<1>5. \A c \in Cores \ Behind : Place(Rec(c)) = cur
  BY FlowFacts DEF FlowAndMachine
<1>6. \A c \in Cores \ Behind : \A ph : In(c, ph) <=> cur[3] = ph
  BY <1>5 DEF In, Place
<1> QED BY <1>1, <1>2, <1>3, <1>4, <1>5, <1>6

\* what a packet in time is a packet over
LEMMA InTickLink ==
  ASSUME AllTimely, FlowAndMachine, NEW p \in net, Awaits(p), InTime(Rec(p.dst), p)
  PROVE  /\ LinkOf(p) \in Into({p.kind}, p.dst) /\ LinkOf(p) \in IntoUnit(p.kind, p.dst, p.u)
         /\ LinkOf(p) \in AllLinks /\ LinkOf(p) \in Sent \ Got
         /\ \A k : k # p.kind => /\ LinkOf(p) \notin Into({k}, p.dst)
                                 /\ \A u : LinkOf(p) \notin IntoUnit(k, p.dst, u)
         /\ \A u : u # p.u => LinkOf(p) \notin IntoUnit(p.kind, p.dst, u)
         /\ p.dst \in Cores \ Behind /\ p.u \in Unit /\ p.src \in Cores
         /\ Place(Rec(p.dst)) = cur /\ p.st = CurStamp /\ p.st = Stamp(Rec(p.dst))
         /\ p.kind \in {"fwd", "fsgn", "crit"} => cur[3] = F
         /\ p.kind \in {"bkp", "bsgn", "lds"} => cur[3] = B
         /\ p.kind = "lds" => DeltasSummed(cur)
<1>1. /\ p.dst \in Cores \ Behind /\ p.u \in Unit /\ p.src \in Cores
      /\ LinkOf(p) \in Sent /\ LinkOf(p) \notin Got /\ LinkOf(p) \in LinksOf(cur)
      /\ p.st = CurStamp /\ Place(Rec(p.dst)) = cur
  BY InTick
<1>2. LinkOf(p)[1] = p.kind /\ LinkOf(p)[3] = p.dst /\ LinkOf(p)[4] = p.u
  BY LinkApart DEF LinkOf
<1>3. LinkOf(p) \in AllLinks
  BY <1>1 DEF Sent
<1>4. p.st = Stamp(Rec(p.dst))
  BY <1>1 DEF CurStamp, cur, Stamp, Place
<1>5. /\ p.kind \in {"fwd", "fsgn", "crit"} => cur[3] = F
      /\ p.kind \in {"bkp", "bsgn", "lds"} => cur[3] = B
      /\ p.kind = "lds" => DeltasSummed(cur)
  BY <1>1, <1>2, PhaseFacts
<1> QED BY <1>1, <1>2, <1>3, <1>4, <1>5 DEF Into, IntoUnit

\* A tick sends one packet over a link.
LEMMA SameLink ==
  ASSUME NEW f, NEW g, f = Pkt(f.kind, f.src, f.dst, f.u, f.b, f.st),
         g = Pkt(g.kind, g.src, g.dst, g.u, g.b, g.st),
         f.b = g.b, f.st = g.st, LinkOf(f) = LinkOf(g)
  PROVE  f = g
<1>1. f.kind = g.kind /\ f.src = g.src /\ f.dst = g.dst /\ f.u = g.u
  BY LinkApart DEF LinkOf
<1> QED BY <1>1

(***************************************************************************)
(* Input cores.                                                            *)
(***************************************************************************)
LEMMA IForwardInv ==
  ASSUME AllTimely, FlowAndMachine, NEW p \in net, IForward(p), UNCHANGED <<wc, sc, tc>>
  PROVE  FlowAndMachine' /\ Flow!Next
<1> DEFINE s == p.dst[2]
           a == p.dst
           u == p.u
           e == Pkt("fwd", a, T(s), u, FALSE, p.st)
           D == {p}
           E == {e}
           N == {FwdIT(s, u)}
<1>1. /\ p.kind = "fwd" /\ p.dst[1] = "I" /\ InTime(ic[s], p)
      /\ net' = (net \ D) \cup E /\ UNCHANGED <<wc, sc, ic, tc>>
  BY DEF IForward
<1>2. PacketOK(p) /\ Awaits(p)
  BY <1>1 DEF FlowAndMachine, MachineInv, NetOK, Awaits
<1>3. s \in Sub /\ a = I(s) /\ Rec(p.dst) = ic[s]
  BY <1>1, <1>2, CoreKinds, RecFacts DEF PacketOK
<1>4. /\ LinkOf(p) \in IntoUnit("fwd", a, u) /\ LinkOf(p) \in Sent \ Got
      /\ a \in Cores \ Behind /\ u \in Unit
      /\ p.st = CurStamp /\ cur[3] = F
  BY <1>1, <1>2, <1>3, InTickLink
<1>5. LinkOf(p) = FwdSI(s, u) /\ LinkOf(e) = FwdIT(s, u)
  <2>1. IntoUnit("fwd", a, u) = {FwdSI(s, u)}
    BY <1>3, <1>4, IntoI
  <2>2. LinkOf(e) = Link("fwd", a, T(s), u)
    BY DEF Pkt, LinkOf
  <2> QED BY <1>3, <1>4, <2>1, <2>2 DEF FwdIT
<1>6. ByGot /\ ByGot' /\ DueTable /\ DueTable'
  BY ChainsByGot, DueByLink, PTL
<1>7. FwdIT(s, u) \in LinksOf(cur) \ Sent
  <2>1. FwdIT(s, u) \in LinksOf(cur)
    BY <1>3, <1>4, ForwardIntro, PhaseFacts
  <2>2. ~Due(FwdIT(s, u))
    BY <1>3, <1>4, <1>5, <1>6 DEF ByGot, DueTable
  <2> QED BY <2>1, <2>2 DEF Sent
<1>8. TickStep(a, D, E, N)
  <2>1. Others(a) /\ Keeps(Rec(a), Rec(a)')
    BY <1>1, <1>3, RecFacts DEF Others, Keeps
  <2>2. Sending(e, a) /\ LinkOf(e) \in N
    <3>1. /\ e.kind = "fwd" /\ e.src = a /\ e.dst = T(s) /\ e.u = u /\ e.b = FALSE
          /\ e.st = p.st /\ e = Pkt(e.kind, e.src, e.dst, e.u, e.b, e.st)
      BY DEF Pkt
    <3> QED BY <1>3, <1>4, <1>5, <3>1, CoreFacts DEF Sending
  <2> QED BY <1>1, <1>2, <1>3, <1>4, <1>5, <1>7, <2>1, <2>2 DEF TickStep
<1>9. /\ Taken(D) = {FwdSI(s, u)}
      /\ \A v \in Unit : /\ S(s) # a /\ T(s) # a
                         /\ FwdSI(s, v) \in Got' <=> FwdSI(s, v) \in Got \cup {FwdSI(s, u)}
                         /\ BkpTI(s, v) \in Got' <=> BkpTI(s, v) \in Got
  <2>1. Taken(D) = {FwdSI(s, u)}
    BY <1>5 DEF Taken
  <2>2. S(s) # a /\ T(s) # a
    BY <1>3, CoresApart
  <2>3. \A v \in Unit : BkpTI(s, v) # FwdSI(s, u)
    BY LinkTable, CoresApart
  <2> HIDE DEF s, a, D, E, N
  <2>4. \A v \in Unit :
          /\ FwdSI(s, v) \in Got' <=> FwdSI(s, v) \in Got \cup Taken(D)
          /\ BkpTI(s, v) \in Got' <=> BkpTI(s, v) \in Got \cup Taken(D)
    BY <1>3, <1>8, <2>2, ChainStep
  <2> QED BY <2>1, <2>2, <2>3, <2>4
<1>10. DueFrom(a, N)
  <2> SUFFICES ASSUME NEW x \in AllLinks, x[2] = a
               PROVE  Due(x)' <=> Due(x) \/ x \in N
    BY DEF DueFrom
  <2>1. ASSUME NEW v \in Unit, x = FwdIT(s, v)
        PROVE  Due(x)' <=> Due(x) \/ x \in N
    <3>1. FwdIT(s, v) = FwdIT(s, u) <=> v = u
      BY LinkTable
    <3>2. FwdSI(s, v) = FwdSI(s, u) <=> v = u
      BY LinkTable
    <3> QED BY <1>3, <1>6, <1>9, <2>1, <3>1, <3>2 DEF ByGot, DueTable
  <2>2. ASSUME NEW v \in Unit, NEW t \in Sub, x = BkpIW(s, t, v)
        PROVE  Due(x)' <=> Due(x) \/ x \in N
    <3>1. x \notin N
      BY <2>2, LinkTable, CoresApart
    <3> QED BY <1>3, <1>6, <1>9, <2>2, <3>1 DEF ByGot, DueTable
  <2> QED BY <1>3, <2>1, <2>2, OutOfI
<1>11. Ready(D, N)
  <2>1. LinkDeps(FwdIT(s, u)) = {FwdSI(s, u)}
    BY <1>3, <1>4, DepsTable, IntoI
  <2> QED BY <1>9, <2>1 DEF Ready
<1>12. CoreOK(a)'
  <2>1. IShape(ic'[s])
    BY <1>1, <1>3 DEF FlowAndMachine, MachineInv, ShapeOK
  <2> QED BY <1>3, <2>1, CoresApart, CoreKinds DEF CoreOK, WCores
<1> HIDE DEF s, a, D, E, N
<1>13. OneOrNone(D)
  BY DEF OneOrNone, D
<1> QED BY <1>8, <1>10, <1>11, <1>12, <1>13, TickStepInv

\* An input core handles a delta (ib_process).
LEMMA IBackpropInv ==
  ASSUME AllTimely, FlowAndMachine, NEW p \in net, IBackprop(p), UNCHANGED <<wc, sc, tc>>
  PROVE  FlowAndMachine' /\ Flow!Next
<1> DEFINE s == p.dst[2]
           a == p.dst
           u == p.u
           e(t) == Pkt("bkp", a, W(s, t), u, FALSE, p.st)
           D == {p}
           E == {e(t) : t \in Sub}
           N == {BkpIW(s, t, u) : t \in Sub}
<1>1. /\ p.kind = "bkp" /\ p.dst[1] = "I" /\ InTime(ic[s], p)
      /\ net' = (net \ D) \cup E /\ UNCHANGED <<wc, sc, ic, tc>>
  <2>1. Multicast("bkp", a, {W(s, t) : t \in Sub}, u, FALSE, p.st) = E
    BY DEF Multicast
  <2> QED BY <2>1 DEF IBackprop
<1>2. PacketOK(p) /\ Awaits(p)
  BY <1>1 DEF FlowAndMachine, MachineInv, NetOK, Awaits
<1>3. s \in Sub /\ a = I(s) /\ Rec(p.dst) = ic[s]
  BY <1>1, <1>2, CoreKinds, RecFacts DEF PacketOK
<1>4. /\ LinkOf(p) \in IntoUnit("bkp", a, u) /\ LinkOf(p) \in Sent \ Got
      /\ a \in Cores \ Behind /\ u \in Unit
      /\ p.st = CurStamp /\ cur[3] = B
  BY <1>1, <1>2, <1>3, InTickLink
<1>5. LinkOf(p) = BkpTI(s, u)
  <2>1. IntoUnit("bkp", a, u) = {BkpTI(s, u)}
    BY <1>3, <1>4, IntoI
  <2> QED BY <1>4, <2>1
<1>6. ByGot /\ ByGot' /\ DueTable /\ DueTable'
  BY ChainsByGot, DueByLink, PTL
<1>7. ASSUME NEW t \in Sub
      PROVE  /\ BkpIW(s, t, u) \in LinksOf(cur) \ Sent
             /\ LinkOf(e(t)) = BkpIW(s, t, u) /\ Sending(e(t), a)
  <2>1. BkpIW(s, t, u) \in LinksOf(cur)
    BY <1>3, <1>4, BackpropIntro, PhaseFacts
  <2>2. ~Due(BkpIW(s, t, u))
    BY <1>3, <1>4, <1>5, <1>6 DEF ByGot, DueTable
  <2>3. /\ e(t).kind = "bkp" /\ e(t).src = a /\ e(t).dst = W(s, t) /\ e(t).u = u
        /\ e(t).b = FALSE /\ e(t).st = p.st /\ LinkOf(e(t)) = Link("bkp", a, W(s, t), u)
        /\ e(t) = Pkt(e(t).kind, e(t).src, e(t).dst, e(t).u, e(t).b, e(t).st)
    BY DEF Pkt, LinkOf
  <2>4. Sending(e(t), a)
    BY <1>3, <1>4, <2>3, CoreFacts DEF Sending
  <2> QED BY <1>3, <2>1, <2>2, <2>3, <2>4 DEF Sent, BkpIW
<1>8. TickStep(a, D, E, N)
  <2>1. Others(a) /\ Keeps(Rec(a), Rec(a)')
    BY <1>1, <1>3, RecFacts DEF Others, Keeps
  <2>2. \A f, g \in E : LinkOf(f) = LinkOf(g) => f = g
    <3>1. \A f \in E : /\ f = Pkt(f.kind, f.src, f.dst, f.u, f.b, f.st)
                       /\ f.b = FALSE /\ f.st = p.st
      BY DEF Pkt
    <3> QED BY <3>1, SameLink
  <2>3. \A f \in E : Sending(f, a) /\ LinkOf(f) \in N
    BY <1>7
  <2>4. N \subseteq LinksOf(cur) \ Sent /\ \A x \in N : \E f \in E : LinkOf(f) = x
    BY <1>7
  <2> HIDE DEF E, N
  <2> QED BY <1>1, <1>2, <1>3, <1>4, <2>1, <2>2, <2>3, <2>4 DEF TickStep
<1>9. /\ Taken(D) = {BkpTI(s, u)}
      /\ \A v \in Unit : /\ BkpTI(s, v) \in Got' <=> BkpTI(s, v) \in Got \cup {BkpTI(s, u)}
                         /\ FwdSI(s, v) \in Got' <=> FwdSI(s, v) \in Got
  <2>1. Taken(D) = {BkpTI(s, u)}
    BY <1>5 DEF Taken
  <2>2. S(s) # a /\ T(s) # a
    BY <1>3, CoresApart
  <2>3. \A v \in Unit : FwdSI(s, v) # BkpTI(s, u)
    BY LinkTable, CoresApart
  <2> HIDE DEF s, a, D, E, N
  <2>4. \A v \in Unit :
          /\ FwdSI(s, v) \in Got' <=> FwdSI(s, v) \in Got \cup Taken(D)
          /\ BkpTI(s, v) \in Got' <=> BkpTI(s, v) \in Got \cup Taken(D)
    BY <1>3, <1>8, <2>2, ChainStep
  <2> QED BY <2>1, <2>2, <2>3, <2>4
<1>10. DueFrom(a, N)
  <2> SUFFICES ASSUME NEW x \in AllLinks, x[2] = a
               PROVE  Due(x)' <=> Due(x) \/ x \in N
    BY DEF DueFrom
  <2>1. ASSUME NEW v \in Unit, NEW t \in Sub, x = BkpIW(s, t, v)
        PROVE  Due(x)' <=> Due(x) \/ x \in N
    <3>1. BkpIW(s, t, v) \in N <=> v = u
      BY LinkTable
    <3>2. BkpTI(s, v) = BkpTI(s, u) <=> v = u
      BY LinkTable
    <3> QED BY <1>3, <1>6, <1>9, <2>1, <3>1, <3>2 DEF ByGot, DueTable
  <2>2. ASSUME NEW v \in Unit, x = FwdIT(s, v)
        PROVE  Due(x)' <=> Due(x) \/ x \in N
    <3>1. x \notin N
      BY <2>2, LinkTable, CoresApart
    <3> QED BY <1>3, <1>6, <1>9, <2>2, <3>1 DEF ByGot, DueTable
  <2> QED BY <1>3, <2>1, <2>2, OutOfI
<1>11. Ready(D, N)
  <2>1. \A t \in Sub : LinkDeps(BkpIW(s, t, u)) = {BkpTI(s, u)}
    BY <1>3, <1>4, DepsTable, IntoI
  <2> QED BY <1>9, <2>1 DEF Ready
<1>12. CoreOK(a)'
  <2>1. IShape(ic'[s])
    BY <1>1, <1>3 DEF FlowAndMachine, MachineInv, ShapeOK
  <2> QED BY <1>3, <2>1, CoresApart, CoreKinds DEF CoreOK, WCores
<1> HIDE DEF s, a, D, E, N
<1>13. OneOrNone(D)
  BY DEF OneOrNone, D
<1> QED BY <1>8, <1>10, <1>11, <1>12, <1>13, TickStepInv

(***************************************************************************)
(* Scoreboards, before and after a packet is counted.                      *)
(***************************************************************************)
\* One more of X is got: there are n exactly when it completes X.
LEMMA CountOne ==
  ASSUME NEW X, NEW n, Counts(X, n), NEW G, NEW l, l \notin G, l \in X
  PROVE  /\ Cardinality(X \cap G) \in Nat /\ Cardinality(X \cap G) # n
         /\ Cardinality(X \cap G) + 1 = n <=> X \subseteq G \cup {l}
  BY Scoreboard

LEMMA CountBefore ==
  ASSUME AllTimely, FlowAndMachine, NEW p \in net, Awaits(p), InTime(Rec(p.dst), p), NEW n
  PROVE  /\ Counts(Into({p.kind}, p.dst), n) =>
              /\ GotInto(p.kind, p.dst) \in Nat /\ GotInto(p.kind, p.dst) # n
              /\ GotInto(p.kind, p.dst) + 1 = n
                   <=> Into({p.kind}, p.dst) \subseteq Got \cup {LinkOf(p)}
         /\ Counts(IntoUnit(p.kind, p.dst, p.u), n) =>
              /\ GotUnit(p.kind, p.dst, p.u) \in Nat /\ GotUnit(p.kind, p.dst, p.u) # n
              /\ GotUnit(p.kind, p.dst, p.u) + 1 = n
                   <=> IntoUnit(p.kind, p.dst, p.u) \subseteq Got \cup {LinkOf(p)}
<1>1. /\ LinkOf(p) \in Into({p.kind}, p.dst) /\ LinkOf(p) \in IntoUnit(p.kind, p.dst, p.u)
      /\ LinkOf(p) \notin Got
  BY InTickLink
<1> DEFINE l == LinkOf(p)
<1>2. ASSUME NEW X, Counts(X, n), l \in X
      PROVE  /\ Cardinality(X \cap Got) \in Nat /\ Cardinality(X \cap Got) # n
             /\ Cardinality(X \cap Got) + 1 = n <=> X \subseteq Got \cup {l}
  <2>1. l \notin Got
    BY <1>1
  <2> HIDE DEF l
  <2> QED BY <1>2, <2>1, CountOne
<1>3. Counts(Into({p.kind}, p.dst), n) =>
              /\ GotInto(p.kind, p.dst) \in Nat /\ GotInto(p.kind, p.dst) # n
              /\ GotInto(p.kind, p.dst) + 1 = n
                   <=> Into({p.kind}, p.dst) \subseteq Got \cup {LinkOf(p)}
  BY <1>1, <1>2 DEF GotInto
<1>4. Counts(IntoUnit(p.kind, p.dst, p.u), n) =>
              /\ GotUnit(p.kind, p.dst, p.u) \in Nat /\ GotUnit(p.kind, p.dst, p.u) # n
              /\ GotUnit(p.kind, p.dst, p.u) + 1 = n
                   <=> IntoUnit(p.kind, p.dst, p.u) \subseteq Got \cup {LinkOf(p)}
  BY <1>1, <1>2 DEF GotUnit
<1> QED BY <1>3, <1>4

\* What has been handled has grown by the packet,
LEMMA CountAfter ==
  ASSUME AllTimely, FlowAndMachine, NEW p \in net, Awaits(p), InTime(Rec(p.dst), p),
         NEW a, a = p.dst, NEW E, NEW N, TickStep(a, {p}, E, N), DueFrom(a, N)
  PROVE  /\ Got' = Got \cup {LinkOf(p)}
         /\ \A k, n : Counts(Into({k}, a), n) =>
              GotInto(k, a)' = IF k = p.kind THEN GotInto(k, a) + 1 ELSE GotInto(k, a)
<1>1. Got' = Got \cup {LinkOf(p)}
  <2>1. Taken({p}) = {LinkOf(p)}
    BY DEF Taken
  <2> QED BY <2>1, SentGot
<1>2. /\ LinkOf(p) \in Into({p.kind}, a) /\ LinkOf(p) \in IntoUnit(p.kind, a, p.u)
      /\ LinkOf(p) \notin Got
      /\ \A k : k # p.kind => /\ LinkOf(p) \notin Into({k}, a)
                              /\ \A u : LinkOf(p) \notin IntoUnit(k, a, u)
      /\ \A u : u # p.u => LinkOf(p) \notin IntoUnit(p.kind, a, u)
  BY InTickLink
<1> DEFINE l == LinkOf(p)
<1>5. ASSUME NEW X, NEW n, Counts(X, n)
      PROVE  Cardinality(X \cap Got') =
               IF l \in X THEN Cardinality(X \cap Got) + 1 ELSE Cardinality(X \cap Got)
  <2>1. l \notin Got /\ Got' = Got \cup {l}
    BY <1>1, <1>2
  <2> HIDE DEF l
  <2> QED BY <1>5, <2>1, Scoreboard
<1>3. ASSUME NEW k, NEW n, Counts(Into({k}, a), n)
      PROVE  GotInto(k, a)' = IF k = p.kind THEN GotInto(k, a) + 1 ELSE GotInto(k, a)
  <2>1. LinkOf(p) \in Into({k}, a) <=> k = p.kind
    BY <1>2
  <2> QED BY <1>3, <1>5, <2>1 DEF GotInto
<1> QED BY <1>1, <1>3

\* what the scoreboard of each unit counts when p has been handled
CountedUnits(p, a, G) ==
  \A k, u, n : Counts(IntoUnit(k, a, u), n) => Cardinality(IntoUnit(k, a, u) \cap G) =
           IF k = p.kind /\ u = p.u THEN GotUnit(k, a, u) + 1 ELSE GotUnit(k, a, u)

\* also among the packets of a unit.
LEMMA CountUnitAfter ==
  ASSUME AllTimely, FlowAndMachine, NEW p \in net, Awaits(p), InTime(Rec(p.dst), p),
         NEW a, a = p.dst, NEW E, NEW N, TickStep(a, {p}, E, N), DueFrom(a, N)
  PROVE  CountedUnits(p, a, Got')
<1> SUFFICES ASSUME NEW k, NEW u, NEW n, Counts(IntoUnit(k, a, u), n)
      PROVE Cardinality(IntoUnit(k, a, u) \cap Got') =
           IF k = p.kind /\ u = p.u THEN GotUnit(k, a, u) + 1 ELSE GotUnit(k, a, u)
   BY DEF CountedUnits
<1>2. LinkOf(p) \in IntoUnit(k, a, u) <=> k = p.kind /\ u = p.u
  BY InTickLink
<1> DEFINE l == LinkOf(p)
<1>1. Got' = Got \cup {l} /\ l \notin Got
  BY CountAfter, InTickLink
<1> HIDE DEF l
<1>3. Cardinality(IntoUnit(k, a, u) \cap Got') =
        IF l \in IntoUnit(k, a, u) THEN Cardinality(IntoUnit(k, a, u) \cap Got) + 1
                                   ELSE Cardinality(IntoUnit(k, a, u) \cap Got)
  BY <1>1, Scoreboard
<1> QED BY <1>2, <1>3 DEF GotUnit, l

\* A callback handles no packet.
LEMMA CountSame ==
  ASSUME FlowAndMachine, NEW a, NEW E, NEW N, TickStep(a, {}, E, N), DueFrom(a, N)
  PROVE  /\ Got' = Got
         /\ \A k, c : GotInto(k, c)' = GotInto(k, c)
         /\ \A k, c, u : GotUnit(k, c, u)' = GotUnit(k, c, u)
<1>1. Got' = Got
  <2>1. Taken({}) = {}
    BY DEF Taken
  <2> QED BY <2>1, SentGot
<1> QED BY <1>1 DEF GotInto, GotUnit

(***************************************************************************)
(* Weight cores.                                                           *)
(***************************************************************************)
LEMMA WProcessInv ==
  ASSUME AllTimely, FlowAndMachine, NEW c \in WCores, WProcess(c), UNCHANGED <<sc, ic, tc>>
  PROVE  FlowAndMachine' /\ Flow!Next
<1> DEFINE s == c[2]
           t == c[3]
           e(u) == Pkt("fwd", c, S(s), u, FALSE, Stamp(wc[c]))
           E == {e(u) : u \in Unit}
           N == {FwdWS(s, t, u) : u \in Unit}
<1>1. /\ wc[c].wf_pending /\ EpochStarted
      /\ net' = (net \ {}) \cup E /\ UNCHANGED <<sc, ic, tc>>
      /\ wc' = [wc EXCEPT ![c].wf_pending = FALSE]
  BY DEF WProcess
<1>2. /\ s \in Sub /\ t \in Sub /\ c = W(s, t) /\ c[1] = "W" /\ c \in Cores
      /\ Rec(c) = wc[c] /\ Rec(c)' = wc'[c]
  BY CoreKinds, RecFacts
<1>3. WShape(wc[c]) /\ WCoreOK(c) /\ DOMAIN wc = WCores
  BY DEF FlowAndMachine, MachineInv, ShapeOK, CoresOK
<1>4. In(c, F) /\ ~wc[c].epoch_rdy /\ ~wc[c].done /\ ~Products(c)
  BY <1>1, <1>3 DEF WCoreOK, Products
<1>5. /\ c \notin Behind /\ Place(wc[c]) = cur /\ cur[3] = F /\ Stamp(wc[c]) = CurStamp
      /\ LinksOf(cur) = ForwardLinks
  <2>1. c \notin Behind
    BY <1>4 DEF In
  <2>2. Place(wc[c]) = cur /\ cur[3] = F
    BY <1>2, <1>4, <2>1, PhaseFacts
  <2>3. Stamp(wc[c]) = CurStamp
    BY <2>2 DEF Place, Stamp, CurStamp, cur
  <2> QED BY <2>1, <2>2, <2>3, PhaseFacts
<1>6. ByGot /\ ByGot' /\ DueTable /\ DueTable'
  BY ChainsByGot, DueByLink, PTL
<1>7. /\ wc'[c] = [wc[c] EXCEPT !.wf_pending = FALSE]
      /\ WShape(wc'[c]) /\ ~wc'[c].wf_pending
      /\ wc'[c].wf_arrived = wc[c].wf_arrived /\ wc'[c].wb_arrived = wc[c].wb_arrived
      /\ wc'[c].epoch_rdy = wc[c].epoch_rdy /\ wc'[c].done = wc[c].done
      /\ wc'[c].phase = wc[c].phase
      /\ Keeps(wc[c], wc'[c])
  <2>1. wc'[c] = [wc[c] EXCEPT !.wf_pending = FALSE]
    BY <1>1, <1>3
  <2> QED BY <1>3, <2>1 DEF WShape, StartFields, StartShape, Keeps, Place
<1>8. ASSUME NEW u \in Unit
      PROVE  /\ FwdWS(s, t, u) \in LinksOf(cur) \ Sent
             /\ LinkOf(e(u)) = FwdWS(s, t, u) /\ Sending(e(u), c)
  <2>1. FwdWS(s, t, u) \in LinksOf(cur) /\ ~Due(FwdWS(s, t, u))
    BY <1>2, <1>4, <1>5, <1>6, ForwardIntro DEF DueTable
  <2>2. /\ e(u).kind = "fwd" /\ e(u).src = c /\ e(u).dst = S(s) /\ e(u).u = u
        /\ e(u).b = FALSE /\ e(u).st = Stamp(wc[c]) /\ LinkOf(e(u)) = Link("fwd", c, S(s), u)
        /\ e(u) = Pkt(e(u).kind, e(u).src, e(u).dst, e(u).u, e(u).b, e(u).st)
    BY DEF Pkt, LinkOf
  <2>3. Sending(e(u), c)
    BY <1>2, <1>5, <2>2, CoreFacts DEF Sending
  <2> QED BY <1>2, <2>1, <2>2, <2>3 DEF Sent, FwdWS
<1>9. TickStep(c, {}, E, N)
  <2>1. Others(c)
    BY <1>1, <1>2, <1>3, CoresApart DEF Others
  <2>2. \A f, g \in E : LinkOf(f) = LinkOf(g) => f = g
    <3>1. \A f \in E : /\ f = Pkt(f.kind, f.src, f.dst, f.u, f.b, f.st)
                       /\ f.b = FALSE /\ f.st = Stamp(wc[c])
      BY DEF Pkt
    <3> QED BY <3>1, SameLink
  <2>3. \A f \in E : Sending(f, c) /\ LinkOf(f) \in N
    BY <1>8
  <2>4. N \subseteq LinksOf(cur) \ Sent /\ \A x \in N : \E f \in E : LinkOf(f) = x
    BY <1>8
  <2> HIDE DEF E, N
  <2> QED BY <1>1, <1>2, <1>5, <1>7, <2>1, <2>2, <2>3, <2>4 DEF TickStep
<1> HIDE DEF E, N
<1>10. /\ In(c, F)' /\ \A ph : In(c, ph)' <=> In(c, ph)
       /\ Place(wc'[c]) = Place(wc[c])
  BY <1>2, <1>4, <1>9, PlaceStep
<1>11. DueFrom(c, N)
  <2>1. /\ Products(c)'
        /\ OutputsIn(c)' <=> OutputsIn(c)
        /\ DeltasIn(c)' <=> DeltasIn(c)
    BY <1>4, <1>7, <1>10 DEF Products, OutputsIn, DeltasIn
  <2>2. \A u \in Unit : DeltaUsed(s, t, u)' <=> DeltaUsed(s, t, u)
    <3>1. T(s) # c /\ I(s) # c /\ Taken({}) = {}
      BY <1>2, CoresApart DEF Taken
    <3>2. \A u \in Unit : BkpIW(s, t, u) \in Got' <=> BkpIW(s, t, u) \in Got
      BY <1>2, <1>9, <3>1, ChainStep
    <3> QED BY <1>2, <1>6, <3>2 DEF ByGot
  <2>3. DeltasSummed(Place(wc'[c])) <=> DeltasSummed(Place(wc[c]))
    BY <1>10
  <2>4. ASSUME NEW x \in AllLinks, x[2] = c
        PROVE  Due(x)' <=> Due(x) \/ x \in N
    <3>1. CASE x = FsgnW(s, t)
      <4>1. x \notin N
        BY <3>1, LinkTable DEF N
      <4> QED BY <1>2, <1>6, <2>1, <3>1, <4>1, UnitFacts DEF DueTable
    <3>2. ASSUME NEW u \in Unit, x = FwdWS(s, t, u)
          PROVE  Due(x)' <=> Due(x) \/ x \in N
      BY <1>2, <1>6, <2>1, <3>2 DEF DueTable, N
    <3>3. ASSUME NEW u \in Unit, x = BkpWS(s, t, u)
          PROVE  Due(x)' <=> Due(x) \/ x \in N
      <4>1. x \notin N
        BY <3>3, LinkTable DEF N
      <4> QED BY <1>2, <1>6, <2>1, <3>3, <4>1 DEF DueTable
    <3>4. ASSUME NEW u \in Unit, x = LdsW(s, t, u)
          PROVE  Due(x)' <=> Due(x) \/ x \in N
      <4>1. x \notin N
        BY <3>4, LinkTable DEF N
      <4> QED BY <1>2, <1>6, <2>2, <2>3, <3>4, <4>1 DEF DueTable
    <3> QED BY <1>2, <2>4, <3>1, <3>2, <3>3, <3>4, OutOfW
  <2> QED BY <2>4 DEF DueFrom
<1>12. Ready({}, N)
  BY <1>2, DepsTable DEF Ready, N
<1>13. CoreOK(c)'
  <2>1. WCoreOK(c)'
    <3>1. \A k : GotInto(k, c)' = GotInto(k, c)
      BY <1>9, <1>11, CountSame
    <3> QED BY <1>3, <1>7, <1>10, <3>1 DEF WCoreOK
  <2> QED BY <1>2, <1>7, <2>1, CoresApart DEF CoreOK
<1>14. OneOrNone({})
  <2>1. Heading({"stpn"}) = {}
    BY <1>1 DEF EpochStarted, AllTimely, Heading
  <2>2. Flow!EpochOver(cur) => LastT \notin Behind
    <3>1. RendezvousOK(c)
      BY <1>2, CoresApart DEF FlowAndMachine, MachineInv, EpochOK, LastT
    <3>2. ~Opened(c) \/ Told(c)
      BY <1>2, <1>4, <3>1 DEF RendezvousOK
    <3> QED BY <1>5, <3>2 DEF Told, Opened, cur
  <2>3. ~tc[LastSub].done
    <3>1. {x \in Cores : Rec(x).done} = IF tc[LastSub].done
              THEN {x \in Cores : x \notin Behind /\ x \notin Heading({"stpn"})} ELSE {}
      BY DEF FlowAndMachine, Flow!FlowInv, Flow!StageOK
    <3> QED BY <1>2, <1>4, <1>5, <2>1, <3>1
  <2> QED BY <2>1, <2>2, <2>3 DEF OneOrNone
<1> QED BY <1>2, <1>9, <1>11, <1>12, <1>13, <1>14, TickStepInv

(***************************************************************************)
(* What becomes due at a core, by its scoreboards.                         *)
(***************************************************************************)
LEMMA DueFromW ==
  ASSUME NEW s \in Sub, NEW t \in Sub, NEW N,
         OutputsIn(W(s, t))' <=> OutputsIn(W(s, t)) \/ FsgnW(s, t) \in N,
         \A u \in Unit :
           /\ Products(W(s, t))' <=> Products(W(s, t)) \/ FwdWS(s, t, u) \in N
           /\ DeltasIn(W(s, t))' <=> DeltasIn(W(s, t)) \/ BkpWS(s, t, u) \in N
           /\ DeltaUsed(s, t, u)' /\ DeltasSummed(Place(wc'[W(s, t)]))
                <=> (DeltaUsed(s, t, u) /\ DeltasSummed(Place(wc[W(s, t)]))) \/ LdsW(s, t, u) \in N
  PROVE  DueFrom(W(s, t), N)
<1>1. DueTable /\ DueTable'
  BY DueByLink, PTL
<1>2. ASSUME NEW x \in AllLinks, x[2] = W(s, t)
      PROVE  Due(x)' <=> Due(x) \/ x \in N
  <2>1. CASE x = FsgnW(s, t)
    BY <1>1, <2>1, UnitFacts DEF DueTable
  <2>2. ASSUME NEW u \in Unit, x = FwdWS(s, t, u)
        PROVE  Due(x)' <=> Due(x) \/ x \in N
    BY <1>1, <2>2 DEF DueTable
  <2>3. ASSUME NEW u \in Unit, x = BkpWS(s, t, u)
        PROVE  Due(x)' <=> Due(x) \/ x \in N
    BY <1>1, <2>3 DEF DueTable
  <2>4. ASSUME NEW u \in Unit, x = LdsW(s, t, u)
        PROVE  Due(x)' <=> Due(x) \/ x \in N
    BY <1>1, <2>4 DEF DueTable
  <2> QED BY <1>2, <2>1, <2>2, <2>3, <2>4, OutOfW
<1> QED BY <1>2 DEF DueFrom

\* A sum core sends what its scoreboards say,
LEMMA DueFromS ==
  ASSUME NEW s \in Sub, NEW N,
         \A u \in Unit :
           /\ NetWhole(s, u)' <=> NetWhole(s, u) \/ FwdSI(s, u) \in N
           /\ ErrorWhole(s, u)' <=> ErrorWhole(s, u) \/ BkpST(s, u) \in N,
         \A d \in FsgRoute(s) :
           /\ FsgnIn(s)' <=> FsgnIn(s) \/ FsgnS(s, d) \in N
           /\ SBReported(s)' <=> SBReported(s) \/ BsgnS(s, d) \in N
           /\ s # FirstSub =>
                (LdsIn(s)' /\ DeltasSummed(Place(sc'[s]))
                   <=> (LdsIn(s) /\ DeltasSummed(Place(sc[s]))) \/ LdsS(s, d) \in N)
  PROVE  DueFrom(S(s), N)
<1>1. DueTable /\ DueTable'
  BY DueByLink, PTL
<1>2. ASSUME NEW x \in AllLinks, x[2] = S(s)
      PROVE  Due(x)' <=> Due(x) \/ x \in N
  <2>1. ASSUME NEW u \in Unit, x = FwdSI(s, u)
        PROVE  Due(x)' <=> Due(x) \/ x \in N
    BY <1>1, <2>1 DEF DueTable
  <2>2. ASSUME NEW u \in Unit, x = BkpST(s, u)
        PROVE  Due(x)' <=> Due(x) \/ x \in N
    BY <1>1, <2>2 DEF DueTable
  <2>3. ASSUME NEW d \in FsgRoute(s), x = FsgnS(s, d)
        PROVE  Due(x)' <=> Due(x) \/ x \in N
    BY <1>1, <2>3, UnitFacts DEF DueTable
  <2>4. ASSUME NEW d \in FsgRoute(s), x = BsgnS(s, d)
        PROVE  Due(x)' <=> Due(x) \/ x \in N
    BY <1>1, <2>4, UnitFacts DEF DueTable
  <2>5. ASSUME NEW d \in FsgRoute(s), s # FirstSub, x = LdsS(s, d)
        PROVE  Due(x)' <=> Due(x) \/ x \in N
    BY <1>1, <2>5, UnitFacts DEF DueTable
  <2> QED BY <1>2, <2>1, <2>2, <2>3, <2>4, <2>5, OutOfS
<1> QED BY <1>2 DEF DueFrom

\* and so does a threshold core.
LEMMA DueFromT ==
  ASSUME NEW s \in Sub, NEW N,
         \A u \in Unit :
           /\ Deltas(s)' <=> Deltas(s) \/ BkpTI(s, u) \in N
           /\ \A t \in Sub : NetUsed(s, u)' <=> NetUsed(s, u) \/ FwdTW(t, s, u) \in N,
         s # LastSub => \A d \in StpRoute(s) :
           /\ CritWhole(s)' <=> CritWhole(s) \/ CritT(s, d) \in N
           /\ TBReported(s)' <=> TBReported(s) \/ BsgnT(s, d) \in N
  PROVE  DueFrom(T(s), N)
<1>1. DueTable /\ DueTable'
  BY DueByLink, PTL
<1>2. ASSUME NEW x \in AllLinks, x[2] = T(s)
      PROVE  Due(x)' <=> Due(x) \/ x \in N
  <2>1. ASSUME NEW u \in Unit, x = BkpTI(s, u)
        PROVE  Due(x)' <=> Due(x) \/ x \in N
    BY <1>1, <2>1 DEF DueTable
  <2>2. ASSUME NEW u \in Unit, NEW t \in Sub, x = FwdTW(t, s, u)
        PROVE  Due(x)' <=> Due(x) \/ x \in N
    BY <1>1, <2>2 DEF DueTable
  <2>3. ASSUME NEW d \in StpRoute(s), s # LastSub, x = CritT(s, d)
        PROVE  Due(x)' <=> Due(x) \/ x \in N
    BY <1>1, <2>3, UnitFacts DEF DueTable
  <2>4. ASSUME NEW d \in StpRoute(s), s # LastSub, x = BsgnT(s, d)
        PROVE  Due(x)' <=> Due(x) \/ x \in N
    BY <1>1, <2>4, UnitFacts DEF DueTable
  <2> QED BY <1>2, <2>1, <2>2, <2>3, <2>4, OutOfT
<1> QED BY <1>2 DEF DueFrom

\* A weight core has used a delta when it has handled it,
LEMMA DeltaUsedStep ==
  ASSUME FlowAndMachine, NEW s \in Sub, NEW t \in Sub, NEW D, NEW E, NEW N,
         TickStep(W(s, t), D, E, N), NEW u \in Unit
  PROVE  /\ DeltaUsed(s, t, u) <=> BkpIW(s, t, u) \in Got
         /\ DeltaUsed(s, t, u)' <=> BkpIW(s, t, u) \in Got \cup Taken(D)
<1>1. T(s) # W(s, t) /\ I(s) # W(s, t)
  BY CoresApart
<1>2. BkpIW(s, t, u) \in Got' <=> BkpIW(s, t, u) \in Got \cup Taken(D)
  BY <1>1, ChainStep
<1>3. ByGot /\ ByGot'
  BY ChainsByGot, PTL
<1> QED BY <1>2, <1>3 DEF ByGot

\* a threshold core a net.
LEMMA NetUsedStep ==
  ASSUME FlowAndMachine, NEW s \in Sub, NEW D, NEW E, NEW N,
         TickStep(T(s), D, E, N), NEW u \in Unit
  PROVE  /\ NetUsed(s, u) <=> FwdIT(s, u) \in Got
         /\ NetUsed(s, u)' <=> FwdIT(s, u) \in Got \cup Taken(D)
<1>1. S(s) # T(s) /\ I(s) # T(s)
  BY CoresApart
<1>2. FwdIT(s, u) \in Got' <=> FwdIT(s, u) \in Got \cup Taken(D)
  BY <1>1, ChainStep
<1>3. ByGot /\ ByGot'
  BY ChainsByGot, PTL
<1> QED BY <1>2, <1>3 DEF ByGot

(***************************************************************************)
(* Weight cores, packets.                                                  *)
(***************************************************************************)
LEMMA WForwardInv ==
  ASSUME AllTimely, FlowAndMachine, NEW p \in net, WForward(p), UNCHANGED <<sc, ic, tc>>
  PROVE  FlowAndMachine' /\ Flow!Next
<1> DEFINE a == p.dst
           s == a[2]
           t == a[3]
           full == wc[a].wf_arrived + 1 = Units
           e == Pkt("fsgn", a, S(s), 0, FALSE, p.st)
           E == IF full THEN {e} ELSE {}
           N == IF full THEN {FsgnW(s, t)} ELSE {}
           l == LinkOf(p)
<1>1. p.kind = "fwd" /\ a \in WCores /\ InTime(wc[a], p) /\ UNCHANGED <<sc, ic, tc>>
  BY DEF WForward
<1>2. /\ s \in Sub /\ t \in Sub /\ a = W(s, t) /\ a[1] = "W" /\ a \in Cores
      /\ Rec(a) = wc[a] /\ Rec(a)' = wc'[a]
  BY <1>1, CoreKinds, RecFacts
<1>3. WShape(wc[a]) /\ WCoreOK(a) /\ DOMAIN wc = WCores
  BY <1>1 DEF FlowAndMachine, MachineInv, ShapeOK, CoresOK
<1>4. Awaits(p) /\ InTime(Rec(p.dst), p)
  BY <1>1, <1>2 DEF Awaits
<1>5. /\ a \in Cores \ Behind /\ cur[3] = F /\ Place(wc[a]) = cur /\ p.st = CurStamp
      /\ LinksOf(cur) = ForwardLinks /\ l \in Sent \ Got
  BY <1>1, <1>2, <1>4, InTickLink, PhaseFacts
<1>6. In(a, F) /\ ~In(a, B)
  BY <1>5, PhaseFacts
<1>7. Counts(Into({"fwd"}, a), Units) /\ Counts(Into({"bkp"}, a), Units)
  BY <1>2, CountsW
<1>8. /\ wc[a].wf_arrived = GotInto("fwd", a) /\ wc[a].wf_arrived \in Nat
      /\ wc[a].wf_arrived # Units
      /\ full => Into({"fwd"}, a) \subseteq Got \cup {l}
  <2>1. /\ GotInto("fwd", a) \in Nat /\ GotInto("fwd", a) # Units
        /\ GotInto("fwd", a) + 1 = Units <=> Into({"fwd"}, a) \subseteq Got \cup {l}
    BY <1>1, <1>4, <1>7, CountBefore
  <2> QED BY <1>3, <1>6, <2>1 DEF WCoreOK
<1>9. /\ wc' = [wc EXCEPT ![a] = wc'[a]]
      /\ WShape(wc'[a])
      /\ wc'[a].wf_arrived = wc[a].wf_arrived + 1 /\ wc'[a].wb_arrived = wc[a].wb_arrived
      /\ wc'[a].epoch_rdy = wc[a].epoch_rdy /\ wc'[a].done = wc[a].done
      /\ wc'[a].wf_pending = wc[a].wf_pending
      /\ wc'[a].phase = wc[a].phase
      /\ Keeps(wc[a], wc'[a])
      /\ net' = (net \ {p}) \cup E
  <2> DEFINE r == wc[a]
             r1 == [r EXCEPT !.w_outputs[wf_comms(r)][p.u] = p.st,
                      !.w_output_history[r.tick][p.u] = p.st,
                      !.wf_arrived = @ + 1]
  <2>1. wc' = [wc EXCEPT ![a] = r1] /\ r1.wf_arrived = r.wf_arrived + 1
    BY <1>3 DEF WForward, WShape
  <2>2. net' = (net \ {p}) \cup E
    BY <2>1 DEF WForward
  <2>3. wc'[a] = r1
    BY <1>1, <1>3, <2>1
  <2>4. /\ DOMAIN r1 = DOMAIN r
        /\ \A f \in DOMAIN r \ {"w_outputs", "w_output_history", "wf_arrived"} : r1[f] = r[f]
    OBVIOUS
  <2> HIDE DEF r1
  <2>5. /\ r1.wf_procs = r.wf_procs /\ r1.wb_arrived = r.wb_arrived
        /\ r1.epoch_rdy = r.epoch_rdy /\ r1.wf_pending = r.wf_pending
        /\ r1.phase = r.phase /\ r1.tick = r.tick /\ r1.evt = r.evt
        /\ r1.example_cnt = r.example_cnt /\ r1.epoch = r.epoch /\ r1.done = r.done
        /\ r1.net_stop = r.net_stop /\ r1.net_stop_rdy = r.net_stop_rdy
    BY <1>3, <2>4 DEF WShape, StartFields
  <2> HIDE DEF r
  <2>6. WShape(r1) /\ Keeps(r, r1)
    BY <1>3, <2>4, <2>5 DEF WShape, StartShape, Keeps, Place, r
  <2> QED BY <2>1, <2>2, <2>3, <2>5, <2>6 DEF r
<1>10. ~OutputsIn(a) /\ ~DeltasIn(a)
  BY <1>6, <1>8 DEF OutputsIn, DeltasIn
<1>11. DueTable /\ FsgnW(s, t) \in LinksOf(cur) \ Sent
  <2>1. DueTable
    BY DueByLink
  <2> QED BY <1>2, <1>5, <1>10, <2>1, ForwardIntro, UnitFacts DEF DueTable, Sent
<1>12. LinkOf(e) = FsgnW(s, t) /\ Sending(e, a)
  <2>1. /\ e.kind = "fsgn" /\ e.src = a /\ e.dst = S(s) /\ e.u = 0 /\ e.b = FALSE
        /\ e.st = p.st /\ LinkOf(e) = Link("fsgn", a, S(s), 0)
        /\ e = Pkt(e.kind, e.src, e.dst, e.u, e.b, e.st)
    BY DEF Pkt, LinkOf
  <2>2. LinkOf(e) = FsgnW(s, t)
    BY <1>2, <2>1 DEF FsgnW
  <2> QED BY <1>2, <1>5, <2>1, <2>2, CoreFacts, UnitFacts DEF Sending
<1>13. TickStep(a, {p}, E, N)
  <2>1. Others(a)
    BY <1>1, <1>2, <1>3, <1>9, CoresApart DEF Others
  <2>2. \A f, g \in E : f = g
    OBVIOUS
  <2>3. \A f \in E : Sending(f, a) /\ LinkOf(f) \in N
    BY <1>12
  <2>4. N \subseteq LinksOf(cur) \ Sent /\ \A x \in N : \E f \in E : LinkOf(f) = x
    BY <1>11, <1>12
  <2> HIDE DEF E, N
  <2> QED BY <1>1, <1>2, <1>4, <1>5, <1>9, <2>1, <2>2, <2>3, <2>4 DEF TickStep
<1> HIDE DEF E, N
<1>14. /\ In(a, F)' /\ ~In(a, B)' /\ Place(wc'[a]) = Place(wc[a])
  BY <1>1, <1>2, <1>6, <1>13, PlaceStep
<1>15. DueFrom(a, N)
  <2>1. OutputsIn(a)' <=> OutputsIn(a) \/ FsgnW(s, t) \in N
    BY <1>9, <1>10, <1>14 DEF OutputsIn, N
  <2>2. ASSUME NEW u \in Unit
        PROVE  /\ Products(a)' <=> Products(a) \/ FwdWS(s, t, u) \in N
               /\ DeltasIn(a)' <=> DeltasIn(a) \/ BkpWS(s, t, u) \in N
               /\ DeltaUsed(s, t, u)' /\ DeltasSummed(Place(wc'[a]))
                    <=> (DeltaUsed(s, t, u) /\ DeltasSummed(Place(wc[a]))) \/ LdsW(s, t, u) \in N
    <3>1. FwdWS(s, t, u) \notin N /\ BkpWS(s, t, u) \notin N /\ LdsW(s, t, u) \notin N
      BY LinkTable DEF N
    <3>2. BkpIW(s, t, u) \notin Taken({p})
      BY <1>1, LinkTable, LinkApart DEF Taken, LinkOf
    <3>3. Products(a)' <=> Products(a)
      BY <1>6, <1>9, <1>14 DEF Products
    <3>4. ~DeltasIn(a)'
      BY <1>14 DEF DeltasIn
    <3>5. DeltaUsed(s, t, u)' <=> DeltaUsed(s, t, u)
      BY <1>2, <1>13, <3>2, DeltaUsedStep
    <3> QED BY <1>10, <1>14, <3>1, <3>3, <3>4, <3>5
  <2> HIDE DEF a, s, t
  <2> QED BY <1>2, <2>1, <2>2, DueFromW
<1>16. Ready({p}, N)
  <2>1. Taken({p}) = {l} /\ LinkDeps(FsgnW(s, t)) = Into({"fwd"}, a)
    BY <1>2, DepsTable, UnitFacts DEF Taken
  <2>2. N = IF full THEN {FsgnW(s, t)} ELSE {}
    BY DEF N
  <2> HIDE DEF a, s, t, l, full
  <2> QED BY <1>8, <2>1, <2>2 DEF Ready
<1>17. CoreOK(a)'
  <2>1. WCoreOK(a)'
    <3>1. GotInto("fwd", a)' = GotInto("fwd", a) + 1
      BY <1>1, <1>4, <1>7, <1>13, <1>15, CountAfter
    <3>2. wc[a].phase = F /\ F # B
      BY <1>2, <1>6, PhaseFacts DEF In
    <3> QED BY <1>3, <1>6, <1>8, <1>9, <1>14, <3>1, <3>2 DEF WCoreOK
  <2> QED BY <1>2, <1>9, <2>1, CoresApart DEF CoreOK
<1>18. OneOrNone({p})
  BY DEF OneOrNone
<1> QED BY <1>13, <1>15, <1>16, <1>17, <1>18, TickStepInv

\* A weight core handles a delta (wb_process).
LEMMA WBackpropInv ==
  ASSUME AllTimely, FlowAndMachine, NEW p \in net, WBackprop(p), UNCHANGED <<sc, ic, tc>>
  PROVE  FlowAndMachine' /\ Flow!Next
<1> DEFINE a == p.dst
           s == a[2]
           t == a[3]
           full == wc[a].wb_arrived + 1 = Units
           summed == DeltasSummed(cur)
           b(i) == Pkt("bkp", a, S(t), i, FALSE, Stamp(wc[a]))
           d == Pkt("lds", a, S(s), p.u, FALSE, Stamp(wc[a]))
           E == (IF full THEN {b(i) : i \in Unit} ELSE {}) \cup (IF summed THEN {d} ELSE {})
           N == (IF full THEN {BkpWS(s, t, i) : i \in Unit} ELSE {})
                  \cup (IF summed THEN {LdsW(s, t, p.u)} ELSE {})
           l == LinkOf(p)
<1>1. /\ p.kind = "bkp" /\ a \in WCores /\ UNCHANGED <<sc, ic, tc>>
      /\ wc[a].phase = p.st[3] => InTime(wc[a], p)
      /\ wc[a].phase = B
  BY DEF WBackprop
<1>2. /\ s \in Sub /\ t \in Sub /\ a = W(s, t) /\ a[1] = "W" /\ a \in Cores
      /\ Rec(a) = wc[a] /\ Rec(a)' = wc'[a]
  BY <1>1, CoreKinds, RecFacts
<1>3. WShape(wc[a]) /\ WCoreOK(a) /\ DOMAIN wc = WCores
  BY <1>1 DEF FlowAndMachine, MachineInv, ShapeOK, CoresOK
<1>4. Awaits(p) /\ InTime(Rec(p.dst), p)
  <2>1. Awaits(p)
    BY <1>1 DEF Awaits
  <2>2. l \in Sent /\ p.st = CurStamp
    BY <2>1 DEF FlowAndMachine, MachineInv, NetOK, PacketOK
  <2>3. l[1] = "bkp" /\ l \in LinksOf(cur)
    BY <1>1, <2>2, LinkApart, FlowFacts DEF LinkOf, FlowAndMachine
  <2>4. p.st[3] = B
    BY <2>2, <2>3, PhaseFacts DEF CurStamp, cur
  <2> QED BY <1>1, <1>2, <2>1, <2>4
<1>5. /\ a \in Cores \ Behind /\ cur[3] = B /\ Place(wc[a]) = cur /\ p.st = CurStamp
      /\ Stamp(wc[a]) = CurStamp /\ p.u \in Unit
      /\ LinksOf(cur) = BackpropLinks \cup IF DeltasSummed(cur) THEN DeltaSumLinks ELSE {}
      /\ l \in Sent \ Got
  BY <1>1, <1>2, <1>4, InTickLink, PhaseFacts
<1>6. In(a, B) /\ ~In(a, F)
  BY <1>5, PhaseFacts
<1>7. Counts(Into({"fwd"}, a), Units) /\ Counts(Into({"bkp"}, a), Units)
  BY <1>2, CountsW
<1>8. /\ wc[a].wb_arrived = GotInto("bkp", a) /\ wc[a].wb_arrived \in Nat
      /\ wc[a].wb_arrived # Units
      /\ full => Into({"bkp"}, a) \subseteq Got \cup {l}
      /\ l = BkpIW(s, t, p.u)
  <2>1. /\ GotInto("bkp", a) \in Nat /\ GotInto("bkp", a) # Units
        /\ GotInto("bkp", a) + 1 = Units <=> Into({"bkp"}, a) \subseteq Got \cup {l}
    BY <1>1, <1>4, <1>7, CountBefore
  <2>2. l \in IntoUnit("bkp", a, p.u)
    BY <1>1, <1>4, InTickLink
  <2>3. l = BkpIW(s, t, p.u)
    BY <1>2, <1>5, <2>2, IntoW
  <2> QED BY <1>3, <1>6, <2>1, <2>3 DEF WCoreOK
<1>9. /\ wc' = [wc EXCEPT ![a] = wc'[a]]
      /\ WShape(wc'[a])
      /\ wc'[a].wb_arrived = wc[a].wb_arrived + 1 /\ wc'[a].wf_arrived = wc[a].wf_arrived
      /\ wc'[a].epoch_rdy = wc[a].epoch_rdy /\ wc'[a].done = wc[a].done
      /\ wc'[a].wf_pending = wc[a].wf_pending
      /\ wc'[a].phase = wc[a].phase
      /\ Keeps(wc[a], wc'[a])
      /\ net' = (net \ {p}) \cup E
  <2> DEFINE r == wc[a]
             r1 == [r EXCEPT
               !.wb_arrived = @ + 1,
               !.w_link_deltas = @ (+)
                 SetToBag({<<i, p.u, r.w_outputs[0][i], p.st>> : i \in Unit}),
               !.w_errors = @ (+) SetToBag({<<p.u, p.st>>})]
  <2>1. wc' = [wc EXCEPT ![a] = r1] /\ r1.wb_arrived = r.wb_arrived + 1
    BY <1>3 DEF WBackprop, WShape
  <2>2. net' = (net \ {p}) \cup E
    <3>1. Dougs /\ LastTickOfEpoch(r) <=> summed
      BY <1>5 DEF LastTickOfEpoch, DeltasSummed, Place
    <3>2. net' = (net \ {p})
          \cup (IF r1.wb_arrived = Units
                  THEN {Pkt("bkp", a, S(t), i, FALSE, Stamp(r)) : i \in Unit}
                  ELSE {})
          \cup (IF Dougs /\ LastTickOfEpoch(r)
                  THEN {Pkt("lds", a, S(s), p.u, FALSE, Stamp(r))}
                  ELSE {})
      BY Zenon DEF WBackprop
    <3>3. r1.wb_arrived = Units <=> full
      BY <2>1
    <3> HIDE DEF r1
    <3> QED BY <3>1, <3>2, <3>3
  <2>3. wc'[a] = r1
    BY <1>1, <1>3, <2>1
  <2>4. /\ DOMAIN r1 = DOMAIN r
        /\ \A f \in DOMAIN r \ {"wb_arrived", "w_link_deltas", "w_errors"} : r1[f] = r[f]
    OBVIOUS
  <2> HIDE DEF r1
  <2>5. /\ r1.wf_procs = r.wf_procs /\ r1.wf_arrived = r.wf_arrived
        /\ r1.epoch_rdy = r.epoch_rdy /\ r1.wf_pending = r.wf_pending
        /\ r1.phase = r.phase /\ r1.tick = r.tick /\ r1.evt = r.evt
        /\ r1.example_cnt = r.example_cnt /\ r1.epoch = r.epoch /\ r1.done = r.done
        /\ r1.net_stop = r.net_stop /\ r1.net_stop_rdy = r.net_stop_rdy
    BY <1>3, <2>4 DEF WShape, StartFields
  <2> HIDE DEF r
  <2>6. WShape(r1) /\ Keeps(r, r1)
    BY <1>3, <2>4, <2>5 DEF WShape, StartShape, Keeps, Place, r
  <2> HIDE DEF E
  <2> QED BY <2>1, <2>2, <2>3, <2>5, <2>6 DEF r
<1>10. ~DeltasIn(a) /\ ~OutputsIn(a) /\ ~Products(a)
  BY <1>6, <1>8 DEF OutputsIn, DeltasIn, Products
<1>11. DueTable /\ ByGot
  BY DueByLink, ChainsByGot
<1>12. ASSUME NEW i \in Unit
       PROVE  /\ LinkOf(b(i)) = BkpWS(s, t, i) /\ Sending(b(i), a)
              /\ BkpWS(s, t, i) \in LinksOf(cur) \ Sent
  <2>1. /\ b(i).kind = "bkp" /\ b(i).src = a /\ b(i).dst = S(t) /\ b(i).u = i /\ b(i).b = FALSE
        /\ b(i).st = Stamp(wc[a]) /\ LinkOf(b(i)) = Link("bkp", a, S(t), i)
        /\ b(i) = Pkt(b(i).kind, b(i).src, b(i).dst, b(i).u, b(i).b, b(i).st)
    BY DEF Pkt, LinkOf
  <2>2. LinkOf(b(i)) = BkpWS(s, t, i)
    BY <1>2, <2>1 DEF BkpWS
  <2>3. Sending(b(i), a)
    BY <1>2, <1>5, <2>1, CoreFacts DEF Sending
  <2>4. BkpWS(s, t, i) \in LinksOf(cur) /\ ~Due(BkpWS(s, t, i))
    BY <1>2, <1>5, <1>10, <1>11, BackpropIntro DEF DueTable
  <2> QED BY <2>2, <2>3, <2>4 DEF Sent
<1>13. ASSUME summed
       PROVE  /\ LinkOf(d) = LdsW(s, t, p.u) /\ Sending(d, a)
              /\ LdsW(s, t, p.u) \in LinksOf(cur) \ Sent
  <2>1. /\ d.kind = "lds" /\ d.src = a /\ d.dst = S(s) /\ d.u = p.u /\ d.b = FALSE
        /\ d.st = Stamp(wc[a]) /\ LinkOf(d) = Link("lds", a, S(s), p.u)
        /\ d = Pkt(d.kind, d.src, d.dst, d.u, d.b, d.st)
    BY DEF Pkt, LinkOf
  <2>2. LinkOf(d) = LdsW(s, t, p.u)
    BY <1>2, <2>1 DEF LdsW
  <2>3. Dougs /\ d.dst[1] = "S"
    <3>1. Dougs
      BY <1>13 DEF DeltasSummed
    <3> HIDE DEF d, s
    <3> QED BY <2>1, <3>1, CoresApart
  <2>4. Sending(d, a)
    BY <1>2, <1>5, <2>1, <2>3, CoreFacts DEF Sending
  <2>5. LdsW(s, t, p.u) \in LinksOf(cur) /\ ~Due(LdsW(s, t, p.u))
    BY <1>2, <1>5, <1>8, <1>11, <1>13, DeltaSumIntro DEF DueTable, ByGot
  <2> QED BY <2>2, <2>4, <2>5 DEF Sent
<1>14. TickStep(a, {p}, E, N)
  <2>1. Others(a)
    BY <1>1, <1>2, <1>3, <1>9, CoresApart DEF Others
  <2>2. \A f, g \in E : LinkOf(f) = LinkOf(g) => f = g
    <3>1. \A f \in E : /\ f = Pkt(f.kind, f.src, f.dst, f.u, f.b, f.st)
                       /\ f.b = FALSE /\ f.st = Stamp(wc[a])
      BY DEF Pkt
    <3> QED BY <3>1, SameLink
  <2>3. \A f \in E : Sending(f, a) /\ LinkOf(f) \in N
    BY <1>12, <1>13
  <2>4. N \subseteq LinksOf(cur) \ Sent /\ \A x \in N : \E f \in E : LinkOf(f) = x
    BY <1>12, <1>13
  <2> HIDE DEF E, N
  <2> QED BY <1>1, <1>2, <1>4, <1>5, <1>9, <2>1, <2>2, <2>3, <2>4 DEF TickStep
<1> HIDE DEF E, N
<1>15. /\ In(a, B)' /\ ~In(a, F)' /\ Place(wc'[a]) = Place(wc[a])
  BY <1>1, <1>2, <1>6, <1>14, PlaceStep
<1>16. Taken({p}) = {BkpIW(s, t, p.u)}
  BY <1>8 DEF Taken
<1>17. DueFrom(a, N)
  <2>1. OutputsIn(a)' <=> OutputsIn(a) \/ FsgnW(s, t) \in N
    BY <1>10, <1>15, LinkTable DEF OutputsIn, N
  <2>2. ASSUME NEW u \in Unit
        PROVE  /\ Products(a)' <=> Products(a) \/ FwdWS(s, t, u) \in N
               /\ DeltasIn(a)' <=> DeltasIn(a) \/ BkpWS(s, t, u) \in N
               /\ DeltaUsed(s, t, u)' /\ DeltasSummed(Place(wc'[a]))
                    <=> (DeltaUsed(s, t, u) /\ DeltasSummed(Place(wc[a]))) \/ LdsW(s, t, u) \in N
    <3>1. LdsW(s, t, u) \in N <=> summed /\ u = p.u
      BY LinkTable DEF N
    <3>2. BkpIW(s, t, u) \in Taken({p}) <=> u = p.u
      <4> HIDE DEF s, t
      <4>1. BkpIW(s, t, u)[4] = u /\ BkpIW(s, t, p.u)[4] = p.u
        BY LinkTable
      <4> QED BY <1>16, <4>1
    <3>3. FwdWS(s, t, u) \notin N /\ ~Products(a)'
      BY <1>15, LinkTable DEF Products, N
    <3>4. DeltasIn(a)' <=> BkpWS(s, t, u) \in N
      <4>1. BkpWS(s, t, u) \in N <=> full
        BY LinkTable DEF N
      <4> QED BY <1>9, <1>15, <4>1 DEF DeltasIn
    <3>5. /\ DeltaUsed(s, t, u) <=> BkpIW(s, t, u) \in Got
          /\ DeltaUsed(s, t, u)' <=> BkpIW(s, t, u) \in Got \cup Taken({p})
      BY <1>2, <1>14, DeltaUsedStep
    <3>6. /\ DeltasSummed(Place(wc'[a])) <=> summed
          /\ DeltasSummed(Place(wc[a])) <=> summed
      BY <1>5, <1>15
    <3>7. /\ DeltaUsed(s, t, u)' /\ DeltasSummed(Place(wc'[a]))
                    <=> (DeltaUsed(s, t, u) /\ DeltasSummed(Place(wc[a]))) \/ LdsW(s, t, u) \in N
      BY <3>1, <3>2, <3>5, <3>6
    <3> QED BY <1>10, <3>3, <3>4, <3>7
  <2> HIDE DEF a, s, t
  <2> QED BY <1>2, <2>1, <2>2, DueFromW
<1>18. Ready({p}, N)
  <2>1. \A i \in Unit : LinkDeps(BkpWS(s, t, i)) = Into({"bkp"}, a)
    BY <1>2, DepsTable
  <2>2. LinkDeps(LdsW(s, t, p.u)) = {BkpIW(s, t, p.u)}
    <3> HIDE DEF a, s, t
    <3> QED BY <1>2, <1>5, DepsTable, IntoW
  <2> QED BY <1>8, <1>16, <2>1, <2>2 DEF Ready, N
<1>19. CoreOK(a)'
  <2>1. WCoreOK(a)'
    <3>1. GotInto("bkp", a)' = GotInto("bkp", a) + 1
      BY <1>1, <1>4, <1>7, <1>14, <1>17, CountAfter
    <3>2. F # B
      BY PhaseFacts
    <3> QED BY <1>1, <1>3, <1>6, <1>8, <1>9, <1>15, <3>1, <3>2 DEF WCoreOK
  <2> QED BY <1>2, <1>9, <2>1, CoresApart DEF CoreOK
<1>20. OneOrNone({p})
  BY DEF OneOrNone
<1> QED BY <1>14, <1>17, <1>18, <1>19, <1>20, TickStepInv

(***************************************************************************)
(* Sum cores.                                                              *)
(***************************************************************************)
LEMMA SAddress ==
  ASSUME FlowAndMachine, NEW p \in net, p.dst[1] = "S"
  PROVE  p.dst[2] \in Sub /\ p.dst = S(p.dst[2])
<1>1. p.dst \in Cores
  BY DEF FlowAndMachine, MachineInv, NetOK, PacketOK
<1> QED BY <1>1, CoreKinds

\* A sum core that handles a packet in time.
LEMMA SPacketFacts ==
  ASSUME AllTimely, FlowAndMachine, NEW p \in net, Awaits(p), NEW s \in Sub, p.dst = S(s),
         InTime(sc[s], p)
  PROVE  /\ S(s) \in Cores \ Behind
         /\ Rec(S(s)) = sc[s] /\ Rec(S(s))' = sc'[s]
         /\ InTime(Rec(p.dst), p) /\ Place(sc[s]) = cur
         /\ p.st = CurStamp /\ p.st = Stamp(sc[s]) /\ p.u \in Unit
         /\ LinkOf(p) \in Sent \ Got
         /\ \A ph : In(S(s), ph) <=> cur[3] = ph
         /\ SShape(sc[s]) /\ SCoreOK(s) /\ DOMAIN sc = Sub
<1>3. Rec(S(s)) = sc[s] /\ Rec(S(s))' = sc'[s]
  BY RecFacts
<1>4. InTime(Rec(p.dst), p)
  BY <1>3
<1>5. SShape(sc[s]) /\ SCoreOK(s) /\ DOMAIN sc = Sub
  BY DEF FlowAndMachine, MachineInv, ShapeOK, CoresOK
<1>6. /\ p.dst \in Cores \ Behind /\ p.u \in Unit /\ Place(Rec(p.dst)) = cur
      /\ p.st = CurStamp /\ p.st = Stamp(Rec(p.dst)) /\ LinkOf(p) \in Sent \ Got
  BY <1>4, InTickLink
<1>7. \A ph : In(S(s), ph) <=> cur[3] = ph
  BY <1>6, PhaseFacts
<1> QED BY <1>3, <1>4, <1>5, <1>6, <1>7

\* Routes lead to cores.
LEMMA RouteCores ==
  \A s \in Sub : FsgRoute(s) \subseteq Cores /\ StpRoute(s) \subseteq Cores
<1> SUFFICES ASSUME NEW s \in Sub PROVE FsgRoute(s) \subseteq Cores /\ StpRoute(s) \subseteq Cores
  OBVIOUS
<1>1. FsgRoute(s) \subseteq Cores
  BY FsgRouteFacts, CoreFacts
<1>2. StpRoute(s) \subseteq Cores
  BY StpRouteFacts, CoreFacts
<1> QED BY <1>1, <1>2

\* what a handler does with the record of a sum core
LEMMA SRecord ==
  ASSUME NEW r, NEW q, SShape(r), DOMAIN q = DOMAIN r,
         \A f \in StartFields : q[f] = r[f],
         DOMAIN q.sf_arrived = Unit, DOMAIN q.sb_arrived = Unit
  PROVE  SShape(q) /\ Keeps(r, q)
<1>1. /\ q.phase = r.phase /\ q.tick = r.tick /\ q.evt = r.evt
      /\ q.example_cnt = r.example_cnt /\ q.epoch = r.epoch /\ q.done = r.done
      /\ q.net_stop = r.net_stop /\ q.net_stop_rdy = r.net_stop_rdy
  BY DEF StartFields
<1> QED BY <1>1 DEF SShape, StartShape, Keeps, Place

\* A step of one sum core.
LEMMA SOnly ==
  ASSUME FlowAndMachine, NEW s \in Sub, UNCHANGED <<wc, ic, tc>>, sc' = [sc EXCEPT ![s] = sc'[s]]
  PROVE  /\ Others(S(s)) /\ S(s) \notin WCores
         /\ tc'[LastSub].advance = tc[LastSub].advance
         /\ tc'[LastSub].tick_stop = tc[LastSub].tick_stop
         /\ tc'[LastSub].ev_tick = tc[LastSub].ev_tick
<1>1. DOMAIN sc' = DOMAIN sc
  OBVIOUS
<1>2. \A t \in Sub : S(t) # S(s) => sc'[t] = sc[t]
  <2>1. \A t \in Sub : t # s => sc'[t] = sc[t]
    BY DEF FlowAndMachine, MachineInv, ShapeOK
  <2> QED BY <2>1
<1>3. S(s) \notin WCores
  BY RecFacts, CoresApart
<1> QED BY <1>1, <1>2, <1>3 DEF Others

\* A sum core adds up a net (sf_process).
LEMMA SForwardInv ==
  ASSUME AllTimely, FlowAndMachine, NEW p \in net, SForward(p), UNCHANGED <<wc, ic, tc>>
  PROVE  FlowAndMachine' /\ Flow!Next
<1> DEFINE s == p.dst[2]
           a == S(s)
           full == sc[s].sf_arrived[p.u] + 1 = fwd_expected
           e == Pkt("fwd", a, I(s), p.u, FALSE, p.st)
           E == IF full THEN {e} ELSE {}
           N == IF full THEN {FwdSI(s, p.u)} ELSE {}
           l == LinkOf(p)
<1>1. p.kind = "fwd" /\ p.dst[1] = "S" /\ InTime(sc[s], p)
  BY DEF SForward
<1>2. Awaits(p)
  BY <1>1 DEF Awaits
<1>3. /\ s \in Sub /\ p.dst = a /\ a \in Cores \ Behind
      /\ Rec(a) = sc[s] /\ Rec(a)' = sc'[s]
      /\ InTime(Rec(p.dst), p) /\ Place(sc[s]) = cur
      /\ p.st = CurStamp /\ p.u \in Unit /\ l \in Sent \ Got
      /\ \A ph : In(a, ph) <=> cur[3] = ph
      /\ SShape(sc[s]) /\ SCoreOK(s) /\ DOMAIN sc = Sub
  BY <1>1, <1>2, SAddress, SPacketFacts
<1>4. /\ cur[3] = F /\ F # B /\ LinksOf(cur) = ForwardLinks /\ In(a, F) /\ ~In(a, B)
  <2>1. cur[3] = F
    BY <1>1, <1>2, <1>3, InTickLink
  <2> QED BY <1>3, <2>1, PhaseFacts
<1>5. /\ \A u \in Unit : Counts(IntoUnit("fwd", a, u), fwd_expected)
      /\ Counts(Into({"fsgn"}, a), fsgn_expected(s))
  BY <1>3, CountsS
<1>6. /\ sc[s].sf_arrived[p.u] = GotUnit("fwd", a, p.u) /\ sc[s].sf_arrived[p.u] \in Nat
      /\ sc[s].sf_arrived[p.u] # fwd_expected
      /\ full => IntoUnit("fwd", a, p.u) \subseteq Got \cup {l}
  <2>1. /\ GotUnit("fwd", a, p.u) \in Nat /\ GotUnit("fwd", a, p.u) # fwd_expected
        /\ GotUnit("fwd", a, p.u) + 1 = fwd_expected <=> IntoUnit("fwd", a, p.u) \subseteq Got \cup {l}
    BY <1>1, <1>2, <1>3, <1>5, CountBefore
  <2>2. sc[s].sf_arrived[p.u] = GotUnit("fwd", a, p.u)
    BY <1>3, <1>4 DEF SCoreOK
  <2> QED BY <2>1, <2>2
<1>7. /\ sc' = [sc EXCEPT ![s] = sc'[s]]
      /\ SShape(sc'[s]) /\ Keeps(sc[s], sc'[s])
      /\ sc'[s].sf_arrived = [sc[s].sf_arrived EXCEPT ![p.u] = @ + 1]
      /\ sc'[s].s_fsgn_arrived = sc[s].s_fsgn_arrived
      /\ sc'[s].sb_arrived = sc[s].sb_arrived /\ sc'[s].sb_done = sc[s].sb_done
      /\ sc'[s].s_bsgn_arrived = sc[s].s_bsgn_arrived
      /\ sc'[s].s_lds_arrived = sc[s].s_lds_arrived
      /\ sc'[s].sb_thrds_pend = sc[s].sb_thrds_pend
      /\ sc'[s].phase = sc[s].phase
      /\ net' = (net \ {p}) \cup E
  <2> DEFINE r == sc[s]
             r1 == [r EXCEPT !.s_nets[p.u] = @ (+) SetToBag({<<p.src, p.st>>}),
                             !.sf_arrived[p.u] = @ + 1]
  <2>1. sc' = [sc EXCEPT ![s] = r1]
    BY DEF SForward
  <2>2. /\ DOMAIN r1 = DOMAIN r
        /\ \A f \in DOMAIN r \ {"s_nets", "sf_arrived"} : r1[f] = r[f]
    OBVIOUS
  <2>3. r1.sf_arrived = [r.sf_arrived EXCEPT ![p.u] = @ + 1] /\ DOMAIN r.sf_arrived = Unit
    BY <1>3 DEF SShape
  <2>4. sc'[s] = r1
    BY <1>3, <2>1
  <2>5. r1.sf_arrived[p.u] = fwd_expected <=> full
    BY <1>3, <2>3
  <2>6. net' = (net \ {p}) \cup E
    <3>1. net' = (net \ {p}) \cup
                 IF r1.sf_arrived[p.u] = fwd_expected
                   THEN {Pkt("fwd", p.dst, I(s), p.u, FALSE, p.st)} ELSE {}
      BY Zenon DEF SForward
    <3> HIDE DEF r1, s
    <3> QED BY <1>3, <2>5, <3>1
  <2> HIDE DEF r1
  <2>7. /\ r1.s_fsgn_arrived = r.s_fsgn_arrived /\ r1.sb_arrived = r.sb_arrived
        /\ r1.sb_done = r.sb_done /\ r1.s_bsgn_arrived = r.s_bsgn_arrived
        /\ r1.s_lds_arrived = r.s_lds_arrived /\ r1.sb_thrds_pend = r.sb_thrds_pend
        /\ r1.phase = r.phase /\ \A f \in StartFields : r1[f] = r[f]
    BY <1>3, <2>2 DEF SShape, StartFields
  <2>8. DOMAIN r1.sf_arrived = Unit /\ DOMAIN r1.sb_arrived = Unit
    BY <1>3, <2>3, <2>7 DEF SShape
  <2>9. SShape(r1) /\ Keeps(r, r1)
    BY <1>3, <2>2, <2>7, <2>8, SRecord
  <2> HIDE DEF E
  <2> QED BY <2>1, <2>3, <2>4, <2>6, <2>7, <2>9
<1> HIDE DEF s
<1>8. ASSUME full
      PROVE  /\ LinkOf(e) = FwdSI(s, p.u) /\ Sending(e, a)
             /\ FwdSI(s, p.u) \in LinksOf(cur) \ Sent
  <2>1. /\ e.kind = "fwd" /\ e.src = a /\ e.dst = I(s) /\ e.u = p.u /\ e.b = FALSE
        /\ e.st = p.st /\ LinkOf(e) = Link("fwd", a, I(s), p.u)
        /\ e = Pkt(e.kind, e.src, e.dst, e.u, e.b, e.st)
    BY DEF Pkt, LinkOf
  <2>2. LinkOf(e) = FwdSI(s, p.u)
    BY <2>1 DEF FwdSI
  <2>3. Sending(e, a)
    BY <1>3, <2>1, CoreFacts DEF Sending
  <2>4. ~NetWhole(s, p.u) /\ DueTable
    BY <1>6, DueByLink DEF NetWhole
  <2>5. FwdSI(s, p.u) \in LinksOf(cur) /\ ~Due(FwdSI(s, p.u))
    BY <1>3, <1>4, <2>4, ForwardIntro DEF DueTable
  <2> QED BY <2>2, <2>3, <2>5 DEF Sent
<1>9. TickStep(a, {p}, E, N)
  <2>1. \A f \in E : Sending(f, a) /\ LinkOf(f) \in N
    BY <1>8
  <2>2. N \subseteq LinksOf(cur) \ Sent /\ \A x \in N : \E f \in E : LinkOf(f) = x
    BY <1>8
  <2>3. \A f, g \in E : LinkOf(f) = LinkOf(g) => f = g
    OBVIOUS
  <2> HIDE DEF E, N
  <2> QED BY <1>2, <1>3, <1>7, <2>1, <2>2, <2>3, SOnly DEF TickStep
<1> HIDE DEF E
<1>10. In(a, F)' /\ ~In(a, B)' /\ Place(sc'[s]) = Place(sc[s])
  BY <1>3, <1>4, <1>9, PlaceStep DEF Keeps
<1>11. DueFrom(a, N)
  <2>1. /\ \A u \in Unit : ~ErrorWhole(s, u) /\ ~ErrorWhole(s, u)'
        /\ ~SBReported(s) /\ ~SBReported(s)' /\ ~LdsIn(s) /\ ~LdsIn(s)'
    BY <1>4, <1>10 DEF ErrorWhole, SBReported, LdsIn
  <2>2. ASSUME NEW u \in Unit
        PROVE  /\ NetWhole(s, u)' <=> NetWhole(s, u) \/ FwdSI(s, u) \in N
               /\ BkpST(s, u) \notin N
    <3>1. FwdSI(s, u) \in N <=> full /\ u = p.u
      BY LinkTable DEF N
    <3>2. u = p.u => (NetWhole(s, u)' <=> full)
      BY <1>3, <1>7, <1>10 DEF NetWhole, SShape
    <3>3. u # p.u => (NetWhole(s, u)' <=> NetWhole(s, u))
      BY <1>3, <1>4, <1>7, <1>10 DEF NetWhole, SShape
    <3>4. u = p.u => ~NetWhole(s, u)
      BY <1>6 DEF NetWhole
    <3> QED BY <3>1, <3>2, <3>3, <3>4, LinkTable DEF N
  <2>3. \A d : FsgnS(s, d) \notin N /\ BsgnS(s, d) \notin N /\ LdsS(s, d) \notin N
    BY LinkTable DEF N
  <2>4. FsgnIn(s)' <=> FsgnIn(s)
    BY <1>4, <1>7, <1>10 DEF FsgnIn
  <2> HIDE DEF N
  <2> QED BY <1>3, <2>1, <2>2, <2>3, <2>4, DueFromS
<1>12. Ready({p}, N)
  <2>1. LinkDeps(FwdSI(s, p.u)) = IntoUnit("fwd", a, p.u)
    BY <1>3, DepsTable
  <2> QED BY <1>6, <2>1 DEF Ready, Taken, N
<1>13. CoreOK(a)'
  <2> HIDE DEF N
  <2>2. GotInto("fsgn", a)' = GotInto("fsgn", a)
    BY <1>1, <1>2, <1>3, <1>5, <1>9, <1>11, CountAfter
  <2>1. CountedUnits(p, a, Got')
    BY <1>2, <1>3, <1>9, <1>11, CountUnitAfter
  <2>3. \A u \in Unit : GotUnit("fwd", a, u)' = IF u = p.u THEN GotUnit("fwd", a, u) + 1
                                                           ELSE GotUnit("fwd", a, u)
    <3>1. \A u \in Unit : Cardinality(IntoUnit("fwd", a, u) \cap Got') =
            IF u = p.u THEN GotUnit("fwd", a, u) + 1 ELSE GotUnit("fwd", a, u)
      BY <1>1, <1>5, <2>1 DEF CountedUnits
    <3> QED BY <3>1 DEF GotUnit
  <2>4. \A u \in Unit : sc'[s].sf_arrived[u] = IF u = p.u THEN sc[s].sf_arrived[u] + 1
                                                           ELSE sc[s].sf_arrived[u]
    BY <1>3, <1>7 DEF SShape
  <2>5. sc[s].phase = F
    BY <1>3, <1>4 DEF Place
  <2>6. SCoreOK(s)'
    BY <1>3, <1>4, <1>7, <1>10, <2>2, <2>3, <2>4, <2>5 DEF SCoreOK
  <2> QED BY <1>3, <1>7, <2>6, CoresApart, RecFacts DEF CoreOK
<1>14. OneOrNone({p})
  BY DEF OneOrNone
<1> HIDE DEF N, a
<1> QED BY <1>9, <1>11, <1>12, <1>13, <1>14, TickStepInv

\* A sum core counts sync generation (s_fsgn_packet).
LEMMA SFsgnInv ==
  ASSUME AllTimely, FlowAndMachine, NEW p \in net, SFsgn(p), UNCHANGED <<wc, ic, tc>>
  PROVE  FlowAndMachine' /\ Flow!Next
<1> DEFINE s == p.dst[2]
           a == S(s)
           full == sc[s].s_fsgn_arrived + 1 = fsgn_expected(s)
           e(d) == Pkt("fsgn", a, d, 0, FALSE, p.st)
           E == IF full THEN {e(d) : d \in FsgRoute(s)} ELSE {}
           N == IF full THEN {FsgnS(s, d) : d \in FsgRoute(s)} ELSE {}
           l == LinkOf(p)
<1>1. p.kind = "fsgn" /\ p.dst[1] = "S" /\ InTime(sc[s], p)
  BY DEF SFsgn
<1>2. Awaits(p)
  BY <1>1 DEF Awaits
<1>3. /\ s \in Sub /\ p.dst = a /\ a \in Cores \ Behind
      /\ Rec(a) = sc[s] /\ Rec(a)' = sc'[s]
      /\ InTime(Rec(p.dst), p) /\ Place(sc[s]) = cur
      /\ p.st = CurStamp /\ l \in Sent \ Got
      /\ \A ph : In(a, ph) <=> cur[3] = ph
      /\ SShape(sc[s]) /\ SCoreOK(s) /\ DOMAIN sc = Sub
  BY <1>1, <1>2, SAddress, SPacketFacts
<1>4. /\ cur[3] = F /\ F # B /\ LinksOf(cur) = ForwardLinks /\ In(a, F) /\ ~In(a, B)
  <2>1. cur[3] = F
    BY <1>1, <1>2, <1>3, InTickLink
  <2> QED BY <1>3, <2>1, PhaseFacts
<1>5. /\ \A u \in Unit : Counts(IntoUnit("fwd", a, u), fwd_expected)
      /\ Counts(Into({"fsgn"}, a), fsgn_expected(s))
  BY <1>3, CountsS
<1>6. /\ sc[s].s_fsgn_arrived = GotInto("fsgn", a) /\ sc[s].s_fsgn_arrived \in Nat
      /\ sc[s].s_fsgn_arrived # fsgn_expected(s)
      /\ full => Into({"fsgn"}, a) \subseteq Got \cup {l}
  <2>1. /\ GotInto("fsgn", a) \in Nat /\ GotInto("fsgn", a) # fsgn_expected(s)
        /\ GotInto("fsgn", a) + 1 = fsgn_expected(s) <=> Into({"fsgn"}, a) \subseteq Got \cup {l}
    BY <1>1, <1>2, <1>3, <1>5, CountBefore
  <2>2. sc[s].s_fsgn_arrived = GotInto("fsgn", a)
    BY <1>3, <1>4 DEF SCoreOK
  <2> QED BY <2>1, <2>2
<1>7. /\ sc' = [sc EXCEPT ![s] = sc'[s]]
      /\ SShape(sc'[s]) /\ Keeps(sc[s], sc'[s])
      /\ sc'[s].s_fsgn_arrived = sc[s].s_fsgn_arrived + 1
      /\ sc'[s].sf_arrived = sc[s].sf_arrived
      /\ sc'[s].sb_arrived = sc[s].sb_arrived /\ sc'[s].sb_done = sc[s].sb_done
      /\ sc'[s].s_bsgn_arrived = sc[s].s_bsgn_arrived
      /\ sc'[s].s_lds_arrived = sc[s].s_lds_arrived
      /\ sc'[s].sb_thrds_pend = sc[s].sb_thrds_pend
      /\ sc'[s].phase = sc[s].phase
      /\ net' = (net \ {p}) \cup E
  <2> DEFINE r == sc[s]
             r1 == [sc[s] EXCEPT !.s_fsgn_arrived = @ + 1]
  <2>1. sc' = [sc EXCEPT ![s] = r1]
    BY DEF SFsgn
  <2>2. /\ DOMAIN r1 = DOMAIN r
        /\ \A f \in DOMAIN r \ {"s_fsgn_arrived"} : r1[f] = r[f]
    OBVIOUS
  <2>3. r1.s_fsgn_arrived = r.s_fsgn_arrived + 1
    BY <1>3 DEF SShape
  <2>4. sc'[s] = r1
    BY <1>3, <2>1
  <2>6. net' = (net \ {p}) \cup E
    <3>1. net' = (net \ {p}) \cup
                 IF r1.s_fsgn_arrived = fsgn_expected(s)
                   THEN Multicast("fsgn", p.dst, FsgRoute(s), 0, FALSE, p.st) ELSE {}
      BY Zenon DEF SFsgn
    <3> HIDE DEF r1, s
    <3> QED BY <1>3, <2>3, <3>1 DEF Multicast
  <2> HIDE DEF r1
  <2>7. /\ r1.sf_arrived = r.sf_arrived /\ r1.sb_arrived = r.sb_arrived
        /\ r1.sb_done = r.sb_done /\ r1.s_bsgn_arrived = r.s_bsgn_arrived
        /\ r1.s_lds_arrived = r.s_lds_arrived /\ r1.sb_thrds_pend = r.sb_thrds_pend
        /\ r1.phase = r.phase /\ \A f \in StartFields : r1[f] = r[f]
    BY <1>3, <2>2 DEF SShape, StartFields
  <2>8. DOMAIN r1.sf_arrived = Unit /\ DOMAIN r1.sb_arrived = Unit
    BY <1>3, <2>7 DEF SShape
  <2>9. SShape(r1) /\ Keeps(r, r1)
    BY <1>3, <2>2, <2>7, <2>8, SRecord
  <2> HIDE DEF E
  <2> QED BY <2>1, <2>3, <2>4, <2>6, <2>7, <2>9
<1> HIDE DEF s
<1>8. ASSUME full, NEW d \in FsgRoute(s)
      PROVE  /\ LinkOf(e(d)) = FsgnS(s, d) /\ Sending(e(d), a)
             /\ FsgnS(s, d) \in LinksOf(cur) \ Sent
  <2>1. /\ e(d).kind = "fsgn" /\ e(d).src = a /\ e(d).dst = d /\ e(d).u = 0 /\ e(d).b = FALSE
        /\ e(d).st = p.st /\ LinkOf(e(d)) = Link("fsgn", a, d, 0)
        /\ e(d) = Pkt(e(d).kind, e(d).src, e(d).dst, e(d).u, e(d).b, e(d).st)
    BY DEF Pkt, LinkOf
  <2>2. LinkOf(e(d)) = FsgnS(s, d)
    BY <2>1 DEF FsgnS
  <2>3. Sending(e(d), a)
    <3>1. d \in Cores /\ 0 \in Unit /\ FALSE \in BOOLEAN
      BY <1>3, <1>8, RouteCores, UnitFacts
    <3> HIDE DEF e
    <3> QED BY <1>3, <2>1, <3>1 DEF Sending
  <2>4. ~FsgnIn(s) /\ DueTable /\ 0 \in Unit
    BY <1>6, DueByLink, UnitFacts DEF FsgnIn
  <2>5. FsgnS(s, d) \in LinksOf(cur) /\ ~Due(FsgnS(s, d))
    BY <1>3, <1>4, <1>8, <2>4, ForwardIntro DEF DueTable
  <2> QED BY <2>2, <2>3, <2>5 DEF Sent
<1>9. TickStep(a, {p}, E, N)
  <2>1. \A f \in E : Sending(f, a) /\ LinkOf(f) \in N
    BY <1>8
  <2>2. N \subseteq LinksOf(cur) \ Sent /\ \A x \in N : \E f \in E : LinkOf(f) = x
    BY <1>8
  <2>3. \A f, g \in E : LinkOf(f) = LinkOf(g) => f = g
    <3>1. \A f \in E : /\ f = Pkt(f.kind, f.src, f.dst, f.u, f.b, f.st)
                       /\ f.b = FALSE /\ f.st = p.st
      BY DEF Pkt
    <3> QED BY <3>1, SameLink
  <2> HIDE DEF E, N
  <2> QED BY <1>2, <1>3, <1>7, <2>1, <2>2, <2>3, SOnly DEF TickStep
<1> HIDE DEF E
<1>10. In(a, F)' /\ ~In(a, B)' /\ Place(sc'[s]) = Place(sc[s])
  BY <1>3, <1>4, <1>9, PlaceStep DEF Keeps
<1>11. DueFrom(a, N)
  <2>1. /\ \A u \in Unit : ~ErrorWhole(s, u) /\ ~ErrorWhole(s, u)'
        /\ ~SBReported(s) /\ ~SBReported(s)' /\ ~LdsIn(s) /\ ~LdsIn(s)'
    BY <1>4, <1>10 DEF ErrorWhole, SBReported, LdsIn
  <2>2. \A u \in Unit : NetWhole(s, u)' <=> NetWhole(s, u)
    BY <1>4, <1>7, <1>10 DEF NetWhole
  <2>3. /\ \A d : BsgnS(s, d) \notin N /\ LdsS(s, d) \notin N
        /\ \A u : FwdSI(s, u) \notin N /\ BkpST(s, u) \notin N
    BY LinkTable DEF N
  <2>4. \A d \in FsgRoute(s) : FsgnIn(s)' <=> FsgnIn(s) \/ FsgnS(s, d) \in N
    <3>1. \A d \in FsgRoute(s) : FsgnS(s, d) \in N <=> full
      BY LinkTable DEF N
    <3> QED BY <1>4, <1>6, <1>7, <1>10, <3>1 DEF FsgnIn
  <2> HIDE DEF N
  <2> QED BY <1>3, <2>1, <2>2, <2>3, <2>4, DueFromS
<1>12. Ready({p}, N)
  <2>1. \A d : LinkDeps(FsgnS(s, d)) = Into({"fsgn"}, a)
    BY <1>3, DepsTable, UnitFacts
  <2> QED BY <1>6, <2>1 DEF Ready, Taken, N
<1>13. CoreOK(a)'
  <2> HIDE DEF N
  <2>1. GotInto("fsgn", a)' = GotInto("fsgn", a) + 1
    BY <1>1, <1>2, <1>3, <1>5, <1>9, <1>11, CountAfter
  <2>3. CountedUnits(p, a, Got')
    BY <1>2, <1>3, <1>9, <1>11, CountUnitAfter
  <2>2. \A u \in Unit : GotUnit("fwd", a, u)' = GotUnit("fwd", a, u)
    <3>1. \A u \in Unit : Cardinality(IntoUnit("fwd", a, u) \cap Got') = GotUnit("fwd", a, u)
      BY <1>1, <1>5, <2>3 DEF CountedUnits
    <3> QED BY <3>1 DEF GotUnit
  <2>5. sc[s].phase = F
    BY <1>3, <1>4 DEF Place
  <2>6. SCoreOK(s)'
    BY <1>3, <1>4, <1>6, <1>7, <1>10, <2>1, <2>2, <2>5 DEF SCoreOK
  <2> QED BY <1>3, <1>7, <2>6, CoresApart, RecFacts DEF CoreOK
<1>14. OneOrNone({p})
  BY DEF OneOrNone
<1> HIDE DEF N, a
<1> QED BY <1>9, <1>11, <1>12, <1>13, <1>14, TickStepInv

(***************************************************************************)
(* Threads of a BACKPROP tick.                                             *)
(***************************************************************************)
\* the tick is reported done when all that was to be done is
SBByThreads(s) ==
  (bsgn_expected(s) = 0 => sc[s].s_bsgn_arrived = 0) =>
     (SBReported(s) <=> In(S(s), B) /\ SBThreads(s) \subseteq SBThreadsDone(s))

ByThreads == \A s \in Sub : SBByThreads(s)

\* A sum core has reported its BACKPROP tick when all its threads have ended,
LEMMA SBReportedByThreads == ByThreads
<1> SUFFICES ASSUME NEW s \in Sub, bsgn_expected(s) = 0 => sc[s].s_bsgn_arrived = 0
             PROVE  SBReported(s) <=> In(S(s), B) /\ SBThreads(s) \subseteq SBThreadsDone(s)
  BY DEF ByThreads, SBByThreads
<1> DEFINE r == sc[s]
           sum == DeltasSummed(Place(r))
<1>1. /\ "PROC" \in SBThreads(s)
      /\ "BSGN" \in SBThreads(s) <=> bsgn_expected(s) # 0
      /\ "LDSA" \in SBThreads(s) <=> sum
      /\ SBThreads(s) \subseteq {"PROC", "BSGN", "LDSA"}
  BY DEF SBThreads, sb_thrds_init
<1>2. /\ "PROC" \in SBThreadsDone(s) <=> r.sb_done = Units
      /\ "BSGN" \in SBThreadsDone(s) <=> r.s_bsgn_arrived = bsgn_expected(s)
      /\ "LDSA" \in SBThreadsDone(s) <=> r.s_lds_arrived = lds_expected(s)
  BY DEF SBThreadsDone
<1>3. SBThreads(s) \subseteq SBThreadsDone(s) <=>
        /\ r.sb_done = Units
        /\ r.s_bsgn_arrived = bsgn_expected(s)
        /\ sum => r.s_lds_arrived = lds_expected(s)
  BY <1>1, <1>2
<1> QED BY <1>3 DEF SBReported, LdsIn

\* then all that its report depends on has been handled
SBComplete(s) ==
  SCoreOK(s) /\ SBReported(s) /\ Place(sc[s]) = cur /\ cur[3] # F =>
    Into({"bkp", "bsgn", "lds"}, S(s)) \cap LinksOf(cur) \subseteq Got

ReportComplete == \A s \in Sub : SBComplete(s)

\* which only the last of them sees.
LEMMA SBReportComplete == ReportComplete
<1> SUFFICES ASSUME NEW s \in Sub, SCoreOK(s), SBReported(s), Place(sc[s]) = cur, cur[3] # F
             PROVE  Into({"bkp", "bsgn", "lds"}, S(s)) \cap LinksOf(cur) \subseteq Got
  BY DEF ReportComplete, SBComplete
<1> DEFINE Whole == {u \in Unit : sc[s].sb_arrived[u] = bkp_expected}
<1>1. In(S(s), B)
  BY DEF SBReported
<1>2. \A u \in Unit : IntoUnit("bkp", S(s), u) \subseteq Got
  <2>1. Cardinality(Whole) = Units
    BY <1>1 DEF SCoreOK, SBReported
  <2>2. Counts(Unit, Units) /\ Unit \cap Whole = Whole
    BY UnitFacts DEF Counts
  <2>3. Unit \subseteq Whole
    <3> HIDE DEF Whole
    <3> QED BY <2>1, <2>2, FullCount
  <2>4. \A u \in Unit : GotUnit("bkp", S(s), u) = bkp_expected
    BY <1>1, <2>3 DEF SCoreOK
  <2> QED BY <2>4, CountsS, FullCount DEF GotUnit
<1>3. Into({"bsgn"}, S(s)) \subseteq Got
  <2>1. GotInto("bsgn", S(s)) = bsgn_expected(s)
    BY <1>1 DEF SCoreOK, SBReported
  <2> QED BY <2>1, CountsS, FullCount DEF GotInto
<1>4. DeltasSummed(cur) => Into({"lds"}, S(s)) \subseteq Got
  <2>1. DeltasSummed(cur) => GotInto("lds", S(s)) = lds_expected(s)
    BY <1>1 DEF SCoreOK, SBReported, LdsIn
  <2> QED BY <2>1, CountsS, FullCount DEF GotInto
<1>5. \A l \in LinksOf(cur) : l[1] = "lds" => DeltasSummed(cur)
  BY LinkClass DEF LinksOf
<1>6. \A l \in AllLinks : l[1] = "bkp" /\ l[3] = S(s) => l[4] \in Unit /\ l \in IntoUnit("bkp", S(s), l[4])
  BY LinkTyped DEF IntoUnit
<1> QED BY <1>2, <1>3, <1>4, <1>5, <1>6 DEF Into

(***************************************************************************)
(* A step of a sum core in BACKPROP: p is counted, and may be the last one *)
(* of a thread.                                                            *)
(***************************************************************************)
SThread(p) == IF p.kind = "bkp" THEN "PROC" ELSE IF p.kind = "bsgn" THEN "BSGN" ELSE "LDSA"
SWhole(p, s) == p.kind = "bkp" /\ sc[s].sb_arrived[p.u] + 1 = bkp_expected
SFinishes(p, s) ==
  \/ SWhole(p, s) /\ sc[s].sb_done + 1 = Units
  \/ p.kind = "bsgn" /\ sc[s].s_bsgn_arrived + 1 = bsgn_expected(s)
  \/ p.kind = "lds" /\ sc[s].s_lds_arrived + 1 = lds_expected(s)
SReports(p, s) == SFinishes(p, s) /\ sc[s].sb_thrds_pend = {SThread(p)}

SBCounted(p, s, r, q) ==
  /\ SShape(q) /\ Keeps(r, q) /\ q.phase = r.phase
  /\ q.sf_arrived = r.sf_arrived /\ q.s_fsgn_arrived = r.s_fsgn_arrived
  /\ q.sb_arrived = IF p.kind = "bkp" THEN [r.sb_arrived EXCEPT ![p.u] = @ + 1] ELSE r.sb_arrived
  /\ q.sb_done = IF SWhole(p, s) THEN r.sb_done + 1 ELSE r.sb_done
  /\ q.s_bsgn_arrived = IF p.kind = "bsgn" THEN r.s_bsgn_arrived + 1 ELSE r.s_bsgn_arrived
  /\ q.s_lds_arrived = IF p.kind = "lds" THEN r.s_lds_arrived + 1 ELSE r.s_lds_arrived
  /\ q.sb_thrds_pend = IF SFinishes(p, s) /\ ~SReports(p, s) THEN r.sb_thrds_pend \ {SThread(p)}
                                                       ELSE r.sb_thrds_pend

SBStep(p, s) ==
  /\ p.kind \in {"bkp", "bsgn", "lds"} /\ p.dst = S(s) /\ InTime(sc[s], p)
  /\ UNCHANGED <<wc, ic, tc>> /\ sc' = [sc EXCEPT ![s] = sc'[s]]
  /\ SBCounted(p, s, sc[s], sc'[s])
  /\ net' = (net \ {p})
       \cup (IF SWhole(p, s) THEN {Pkt("bkp", S(s), T(s), p.u, FALSE, p.st)} ELSE {})
       \cup (IF p.kind = "lds" /\ SFinishes(p, s)
               THEN Multicast("lds", S(s), LdsRoute(s), 0, FALSE, p.st) ELSE {})
       \cup (IF SReports(p, s) THEN Multicast("bsgn", S(s), FsgRoute(s), 0, FALSE, p.st) ELSE {})

\* Any such step keeps the invariant.
LEMMA SBackStep ==
  ASSUME AllTimely, FlowAndMachine, NEW p \in net, NEW s \in Sub, SBStep(p, s)
  PROVE  FlowAndMachine' /\ Flow!Next
<1> DEFINE a == S(s)
           r == sc[s]
           l == LinkOf(p)
           total == p.kind = "lds" /\ SFinishes(p, s)
           e == Pkt("bkp", a, T(s), p.u, FALSE, p.st)
           m(d) == Pkt("lds", a, d, 0, FALSE, p.st)
           b(d) == Pkt("bsgn", a, d, 0, FALSE, p.st)
           E == (IF SWhole(p, s) THEN {e} ELSE {})
                  \cup (IF total THEN {m(d) : d \in LdsRoute(s)} ELSE {})
                  \cup (IF SReports(p, s) THEN {b(d) : d \in FsgRoute(s)} ELSE {})
           N == (IF SWhole(p, s) THEN {BkpST(s, p.u)} ELSE {})
                  \cup (IF total /\ s # FirstSub THEN {LdsS(s, d) : d \in FsgRoute(s)} ELSE {})
                  \cup (IF SReports(p, s) THEN {BsgnS(s, d) : d \in FsgRoute(s)} ELSE {})
<1>1. /\ p.kind \in {"bkp", "bsgn", "lds"} /\ p.dst = a /\ InTime(sc[s], p)
      /\ UNCHANGED <<wc, ic, tc>> /\ sc' = [sc EXCEPT ![s] = sc'[s]]
      /\ SBCounted(p, s, r, sc'[s])
      /\ net' = (net \ {p}) \cup E
  BY DEF SBStep, Multicast
<1>2. Awaits(p)
  BY <1>1, CoresApart DEF Awaits
<1>3. /\ a \in Cores \ Behind
      /\ Rec(a) = r /\ Rec(a)' = sc'[s]
      /\ InTime(Rec(p.dst), p) /\ Place(r) = cur
      /\ p.st = CurStamp /\ p.u \in Unit /\ l \in Sent \ Got
      /\ \A ph : In(a, ph) <=> cur[3] = ph
      /\ SShape(r) /\ SCoreOK(s) /\ DOMAIN sc = Sub
  BY <1>1, <1>2, SPacketFacts
<1>4. /\ cur[3] = B /\ F # B /\ In(a, B) /\ ~In(a, F) /\ r.phase = B
      /\ LinksOf(cur) = BackpropLinks \cup IF DeltasSummed(cur) THEN DeltaSumLinks ELSE {}
      /\ p.kind = "lds" => DeltasSummed(cur)
  <2>1. cur[3] = B /\ (p.kind = "lds" => DeltasSummed(cur))
    BY <1>1, <1>2, <1>3, InTickLink
  <2> QED BY <1>3, <2>1, PhaseFacts DEF Place
<1>5. /\ \A u \in Unit : Counts(IntoUnit("bkp", a, u), bkp_expected)
      /\ Counts(Into({"bsgn"}, a), bsgn_expected(s))
      /\ Counts(Into({"lds"}, a), lds_expected(s))
  BY <1>3, CountsS
<1>6. /\ \A u \in Unit : r.sb_arrived[u] = GotUnit("bkp", a, u)
      /\ r.s_bsgn_arrived = GotInto("bsgn", a) /\ r.s_lds_arrived = GotInto("lds", a)
      /\ r.s_bsgn_arrived \in Nat /\ r.s_lds_arrived \in Nat
      /\ ThreadsOK(r.sb_thrds_pend, SBThreads(s), SBThreadsDone(s))
  <2>1. ASSUME NEW X, NEW n, Counts(X, n) PROVE Cardinality(X \cap Got) \in Nat
    BY <2>1, CountNat
  <2>2. GotInto("bsgn", a) \in Nat /\ GotInto("lds", a) \in Nat
    BY <1>5, <2>1 DEF GotInto
  <2> QED BY <1>3, <1>4, <2>2 DEF SCoreOK
<1>7. /\ p.kind = "bkp" =>
           /\ r.sb_arrived[p.u] \in Nat /\ r.sb_arrived[p.u] # bkp_expected
           /\ SWhole(p, s) => IntoUnit("bkp", a, p.u) \subseteq Got \cup {l}
      /\ p.kind = "bsgn" => r.s_bsgn_arrived # bsgn_expected(s)
      /\ p.kind = "lds" =>
           /\ r.s_lds_arrived # lds_expected(s)
           /\ total => Into({"lds"}, a) \subseteq Got \cup {l}
  <2> HIDE DEF r
  <2>1. p.kind = "bkp" =>
          /\ GotUnit("bkp", a, p.u) \in Nat /\ GotUnit("bkp", a, p.u) # bkp_expected
          /\ GotUnit("bkp", a, p.u) + 1 = bkp_expected <=> IntoUnit("bkp", a, p.u) \subseteq Got \cup {l}
    BY <1>1, <1>2, <1>3, <1>5, CountBefore
  <2>2. p.kind = "bsgn" => GotInto("bsgn", a) # bsgn_expected(s)
    BY <1>1, <1>2, <1>3, <1>5, CountBefore
  <2>3. p.kind = "lds" =>
          /\ GotInto("lds", a) # lds_expected(s)
          /\ GotInto("lds", a) + 1 = lds_expected(s) <=> Into({"lds"}, a) \subseteq Got \cup {l}
    BY <1>1, <1>2, <1>3, <1>5, CountBefore
  <2> USE DEF r
  <2> QED BY <1>3, <1>6, <2>1, <2>2, <2>3 DEF SWhole, SFinishes
\* units
<1> DEFINE Whole == {u \in Unit : r.sb_arrived[u] = bkp_expected}
           WholeNext == {u \in Unit : sc'[s].sb_arrived[u] = bkp_expected}
<1>8. /\ r.sb_done = Cardinality(Whole) /\ r.sb_done \in Nat
      /\ SWhole(p, s) => r.sb_done # Units
      /\ sc'[s].sb_done = Cardinality(WholeNext)
  <2>1. r.sb_done = Cardinality(Whole)
    BY <1>3, <1>4 DEF SCoreOK
  <2>2. Counts(Unit, Units) /\ Unit \cap Whole = Whole
    BY UnitFacts DEF Counts
  <2>3. SWhole(p, s) => p.u \notin Whole /\ WholeNext = Whole \cup {p.u}
    BY <1>1, <1>3, <1>7 DEF SBCounted, SWhole, SShape
  <2>4. ~SWhole(p, s) => WholeNext = Whole
    <3>1. p.kind = "bkp" /\ ~SWhole(p, s) => WholeNext = Whole
      BY <1>1, <1>3, <1>7 DEF SBCounted, SWhole, SShape
    <3>2. p.kind # "bkp" => WholeNext = Whole
      BY <1>1 DEF SBCounted
    <3> QED BY <3>1, <3>2
  <2>5. sc'[s].sb_done = IF SWhole(p, s) THEN r.sb_done + 1 ELSE r.sb_done
    BY <1>1 DEF SBCounted
  <2>6. WholeNext \subseteq Unit
    OBVIOUS
  <2> HIDE DEF Whole, WholeNext, r
  <2>7. Cardinality(Whole) \in Nat
    BY <2>2, CountNat
  <2>8. ASSUME SWhole(p, s) PROVE Cardinality(WholeNext) = Cardinality(Whole) + 1 /\ r.sb_done # Units
    <3>1. p.u \notin Whole /\ p.u \in Unit /\ WholeNext = Unit \cap (Whole \cup {p.u})
      BY <1>3, <2>2, <2>3, <2>6, <2>8
    <3> QED BY <2>1, <2>2, <3>1, Scoreboard
  <2> QED BY <2>1, <2>4, <2>5, <2>7, <2>8
<1> HIDE DEF Whole, WholeNext
\* the packets sent
<1>9. DueTable /\ FsgRoute(s) \subseteq Cores /\ 0 \in Unit
  BY DueByLink, RouteCores, UnitFacts
<1>10. ASSUME SWhole(p, s)
       PROVE  /\ LinkOf(e) = BkpST(s, p.u) /\ Sending(e, a)
              /\ BkpST(s, p.u) \in LinksOf(cur) \ Sent
  <2>1. /\ e.kind = "bkp" /\ e.src = a /\ e.dst = T(s) /\ e.u = p.u /\ e.b = FALSE
        /\ e.st = p.st /\ LinkOf(e) = Link("bkp", a, T(s), p.u)
        /\ e = Pkt(e.kind, e.src, e.dst, e.u, e.b, e.st)
    BY DEF Pkt, LinkOf
  <2>2. LinkOf(e) = BkpST(s, p.u)
    BY <2>1 DEF BkpST
  <2>3. Sending(e, a)
    BY <1>3, <2>1, CoreFacts DEF Sending
  <2>4. ~ErrorWhole(s, p.u)
    BY <1>7, <1>10 DEF ErrorWhole, SWhole
  <2>5. BkpST(s, p.u) \in LinksOf(cur) /\ ~Due(BkpST(s, p.u))
    BY <1>3, <1>4, <1>9, <2>4, BackpropIntro DEF DueTable
  <2> QED BY <2>2, <2>3, <2>5 DEF Sent
<1>11. ASSUME total, NEW d \in LdsRoute(s)
       PROVE  /\ Sending(m(d), a) /\ (s = FirstSub => Loose(m(d)))
              /\ s # FirstSub => /\ d \in FsgRoute(s) /\ LinkOf(m(d)) = LdsS(s, d)
                                 /\ LdsS(s, d) \in LinksOf(cur) \ Sent
  <2>1. /\ m(d).kind = "lds" /\ m(d).src = a /\ m(d).dst = d /\ m(d).u = 0 /\ m(d).b = FALSE
        /\ m(d).st = p.st /\ LinkOf(m(d)) = Link("lds", a, d, 0)
        /\ m(d) = Pkt(m(d).kind, m(d).src, m(d).dst, m(d).u, m(d).b, m(d).st)
    BY DEF Pkt, LinkOf
  <2>2. Dougs /\ DeltasSummed(cur)
    BY <1>4, <1>11 DEF DeltasSummed
  <2>3. /\ s = FirstSub => d \in WCores /\ d[1] = "W" /\ d \in Cores
        /\ s # FirstSub => d \in FsgRoute(s) /\ d[1] = "S" /\ d \in Cores
    BY <1>9, <1>11, RecFacts, FsgRouteFacts, CoresApart DEF LdsRoute
  <2>4. Sending(m(d), a)
    <3> HIDE DEF m
    <3> QED BY <1>3, <1>9, <2>1, <2>2, <2>3 DEF Sending
  <2>5. s = FirstSub => Loose(m(d))
    <3> HIDE DEF m
    <3> QED BY <2>1, <2>3 DEF Loose
  <2>6. ASSUME s # FirstSub
        PROVE  LinkOf(m(d)) = LdsS(s, d) /\ LdsS(s, d) \in LinksOf(cur) /\ ~Due(LdsS(s, d))
    <3>1. LinkOf(m(d)) = LdsS(s, d)
      BY <2>1 DEF LdsS
    <3>2. ~LdsIn(s)
      BY <1>7, <1>11 DEF LdsIn
    <3> QED BY <1>3, <1>4, <1>9, <2>2, <2>3, <2>6, <3>1, <3>2, DeltaSumIntro DEF DueTable
  <2> QED BY <2>3, <2>4, <2>5, <2>6 DEF Sent
\* the threads
<1> DEFINE t == SThread(p)
           threads == SBThreads(s)
           done == SBThreadsDone(s)
<1>12. SBThreads(s)' = threads
  BY <1>1, <1>3 DEF SBThreads, SBCounted, Keeps
<1>13. /\ SFinishes(p, s) => t \in threads /\ t \notin done /\ SBThreadsDone(s)' = done \cup {t}
       /\ ~SFinishes(p, s) => SBThreadsDone(s)' = done
  <2>1. /\ "PROC" \in threads
        /\ bsgn_expected(s) # 0 => "BSGN" \in threads
        /\ DeltasSummed(cur) => "LDSA" \in threads
    BY <1>3 DEF SBThreads, sb_thrds_init
  <2>2. done = {x \in {"PROC", "BSGN", "LDSA"} :
                  \/ x = "PROC" /\ r.sb_done = Units
                  \/ x = "BSGN" /\ r.s_bsgn_arrived = bsgn_expected(s)
                  \/ x = "LDSA" /\ r.s_lds_arrived = lds_expected(s)}
    BY DEF SBThreadsDone
  <2>3. SBThreadsDone(s)' = {x \in {"PROC", "BSGN", "LDSA"} :
                  \/ x = "PROC" /\ sc'[s].sb_done = Units
                  \/ x = "BSGN" /\ sc'[s].s_bsgn_arrived = bsgn_expected(s)
                  \/ x = "LDSA" /\ sc'[s].s_lds_arrived = lds_expected(s)}
    BY DEF SBThreadsDone
  <2>4. CASE p.kind = "bkp"
    <3>1. /\ t = "PROC" /\ (SFinishes(p, s) <=> SWhole(p, s) /\ r.sb_done + 1 = Units)
          /\ sc'[s].sb_done = IF SWhole(p, s) THEN r.sb_done + 1 ELSE r.sb_done
          /\ sc'[s].s_bsgn_arrived = r.s_bsgn_arrived /\ sc'[s].s_lds_arrived = r.s_lds_arrived
      BY <1>1, <2>4 DEF SThread, SFinishes, SBCounted
    <3> HIDE DEF t, threads, done, r
    <3> QED BY <1>8, <2>1, <2>2, <2>3, <3>1
  <2>5. CASE p.kind = "bsgn"
    <3>1. /\ t = "BSGN" /\ (SFinishes(p, s) <=> r.s_bsgn_arrived + 1 = bsgn_expected(s))
          /\ sc'[s].sb_done = r.sb_done /\ sc'[s].s_bsgn_arrived = r.s_bsgn_arrived + 1
          /\ sc'[s].s_lds_arrived = r.s_lds_arrived
      BY <1>1, <2>5 DEF SThread, SFinishes, SBCounted, SWhole
    <3> HIDE DEF t, threads, done, r
    <3> QED BY <1>6, <1>7, <2>1, <2>2, <2>3, <2>5, <3>1
  <2>6. CASE p.kind = "lds"
    <3>1. /\ t = "LDSA" /\ (SFinishes(p, s) <=> r.s_lds_arrived + 1 = lds_expected(s))
          /\ sc'[s].sb_done = r.sb_done /\ sc'[s].s_bsgn_arrived = r.s_bsgn_arrived
          /\ sc'[s].s_lds_arrived = r.s_lds_arrived + 1
      BY <1>1, <2>6 DEF SThread, SFinishes, SBCounted, SWhole
    <3> HIDE DEF t, threads, done, r
    <3> QED BY <1>4, <1>6, <1>7, <2>1, <2>2, <2>3, <2>6, <3>1
  <2> QED BY <1>1, <2>4, <2>5, <2>6
<1>14. /\ SFinishes(p, s) => (SReports(p, s) <=> threads \subseteq SBThreadsDone(s)')
       /\ SReports(p, s) => SFinishes(p, s)
       /\ ThreadsOK(sc'[s].sb_thrds_pend, threads, SBThreadsDone(s)')
  <2>1. sc'[s].sb_thrds_pend = IF SFinishes(p, s) /\ ~SReports(p, s) THEN r.sb_thrds_pend \ {t}
                                                                  ELSE r.sb_thrds_pend
    BY <1>1 DEF SBCounted
  <2>2. SReports(p, s) <=> SFinishes(p, s) /\ r.sb_thrds_pend = {t}
    BY DEF SReports
  <2> HIDE DEF t, threads, done, r
  <2>5. ThreadsOK(r.sb_thrds_pend, threads, done)
    BY <1>6 DEF r, threads, done
  <2>3. CASE SFinishes(p, s)
    <3>1. t \in threads /\ t \notin done /\ SBThreadsDone(s)' = done \cup {t}
      BY <1>13, <2>3
    <3>2. /\ r.sb_thrds_pend = {t} <=> threads \subseteq done \cup {t}
          /\ r.sb_thrds_pend = {t} => ThreadsOK(r.sb_thrds_pend, threads, done \cup {t})
          /\ r.sb_thrds_pend # {t} => ThreadsOK(r.sb_thrds_pend \ {t}, threads, done \cup {t})
      BY <2>5, <3>1, ThreadStep
    <3> QED BY <2>1, <2>2, <2>3, <3>1, <3>2
  <2>4. CASE ~SFinishes(p, s)
    BY <1>13, <2>1, <2>2, <2>4, <2>5
  <2> QED BY <2>3, <2>4
<1>15. /\ SBReported(s) <=> threads \subseteq done
       /\ bsgn_expected(s) = 0 => r.s_bsgn_arrived = 0 /\ sc'[s].s_bsgn_arrived = 0
  <2>1. bsgn_expected(s) = 0 => r.s_bsgn_arrived = 0 /\ sc'[s].s_bsgn_arrived = 0
    <3>1. bsgn_expected(s) = 0 => GotInto("bsgn", a) = 0
      <4>1. bsgn_expected(s) = 0 => Into({"bsgn"}, a) = {}
        BY <1>5, FS_EmptySet DEF Counts
      <4> QED BY <4>1, FS_EmptySet DEF GotInto
    <3>2. bsgn_expected(s) = 0 => r.s_bsgn_arrived = 0
      BY <1>6, <3>1
    <3> QED BY <1>1, <1>7, <3>2 DEF SBCounted
  <2> QED BY <1>4, <2>1, SBReportedByThreads DEF ByThreads, SBByThreads
<1>16. ASSUME SReports(p, s), NEW d \in FsgRoute(s)
       PROVE  /\ LinkOf(b(d)) = BsgnS(s, d) /\ Sending(b(d), a)
              /\ BsgnS(s, d) \in LinksOf(cur) \ Sent
  <2>1. /\ b(d).kind = "bsgn" /\ b(d).src = a /\ b(d).dst = d /\ b(d).u = 0 /\ b(d).b = FALSE
        /\ b(d).st = p.st /\ LinkOf(b(d)) = Link("bsgn", a, d, 0)
        /\ b(d) = Pkt(b(d).kind, b(d).src, b(d).dst, b(d).u, b(d).b, b(d).st)
    BY DEF Pkt, LinkOf
  <2>2. LinkOf(b(d)) = BsgnS(s, d)
    BY <2>1 DEF BsgnS
  <2>3. Sending(b(d), a)
    <3> HIDE DEF b
    <3> QED BY <1>3, <1>9, <1>16, <2>1 DEF Sending
  <2>4. ~SBReported(s)
    BY <1>13, <1>14, <1>15, <1>16
  <2>5. BsgnS(s, d) \in LinksOf(cur) /\ ~Due(BsgnS(s, d))
    BY <1>3, <1>4, <1>9, <1>16, <2>4, BackpropIntro DEF DueTable
  <2> QED BY <2>2, <2>3, <2>5 DEF Sent
<1> HIDE DEF t, threads, done
<1>17. TickStep(a, {p}, E, N)
  <2>1. \A f \in E : Sending(f, a) /\ (Loose(f) \/ LinkOf(f) \in N)
    BY <1>10, <1>11, <1>16
  <2>2. N \subseteq LinksOf(cur) \ Sent /\ \A x \in N : \E f \in E : LinkOf(f) = x
    <3>1. total /\ s # FirstSub => LdsRoute(s) = FsgRoute(s)
      BY DEF LdsRoute
    <3> QED BY <1>10, <1>11, <1>16, <3>1
  <2>3. \A f, g \in E : LinkOf(f) = LinkOf(g) => f = g
    <3>1. \A f \in E : /\ f = Pkt(f.kind, f.src, f.dst, f.u, f.b, f.st)
                       /\ f.b = FALSE /\ f.st = p.st
      BY DEF Pkt
    <3> QED BY <3>1, SameLink
  <2>4. Keeps(r, sc'[s])
    BY <1>1 DEF SBCounted
  <2> HIDE DEF E, N
  <2> QED BY <1>1, <1>2, <1>3, <2>1, <2>2, <2>3, <2>4, SOnly DEF TickStep
<1> HIDE DEF E
<1>18. In(a, B)' /\ ~In(a, F)' /\ Place(sc'[s]) = Place(r) /\ cur' = cur
  BY <1>3, <1>4, <1>17, PlaceStep DEF Keeps
<1>19. /\ SBReported(s)' <=> SBReported(s) \/ SReports(p, s)
       /\ SReports(p, s) => SBReported(s)'
  <2>1. SBByThreads(s)'
    <3>1. ByThreads'
      BY SBReportedByThreads, PTL
    <3> QED BY <3>1 DEF ByThreads
  <2>2. SBReported(s)' <=> threads \subseteq SBThreadsDone(s)'
    BY <1>12, <1>15, <1>18, <2>1 DEF SBByThreads
  <2> QED BY <1>13, <1>14, <1>15, <2>2
<1>20. DueFrom(a, N)
  <2>1. /\ \A u \in Unit : ~NetWhole(s, u) /\ ~NetWhole(s, u)'
        /\ ~FsgnIn(s) /\ ~FsgnIn(s)'
    BY <1>4, <1>18 DEF NetWhole, FsgnIn
  <2>2. ASSUME NEW u \in Unit
        PROVE  /\ ErrorWhole(s, u)' <=> ErrorWhole(s, u) \/ BkpST(s, u) \in N
               /\ FwdSI(s, u) \notin N
    <3>1. BkpST(s, u) \in N <=> SWhole(p, s) /\ u = p.u
      BY LinkTable DEF N
    <3>2. sc'[s].sb_arrived[u] = IF p.kind = "bkp" /\ u = p.u THEN r.sb_arrived[u] + 1
                                                             ELSE r.sb_arrived[u]
      BY <1>1, <1>3 DEF SBCounted, SShape
    <3>3. (ErrorWhole(s, u)' <=> sc'[s].sb_arrived[u] = bkp_expected)
            /\ (ErrorWhole(s, u) <=> r.sb_arrived[u] = bkp_expected)
      BY <1>4, <1>18 DEF ErrorWhole
    <3>4. FwdSI(s, u) \notin N
      BY LinkTable DEF N
    <3> HIDE DEF N
    <3> QED BY <1>7, <3>1, <3>2, <3>3, <3>4 DEF SWhole
  <2>3. ASSUME NEW d \in FsgRoute(s)
        PROVE  /\ FsgnS(s, d) \notin N
               /\ SBReported(s)' <=> SBReported(s) \/ BsgnS(s, d) \in N
               /\ s # FirstSub =>
                    (LdsIn(s)' /\ DeltasSummed(Place(sc'[s]))
                       <=> (LdsIn(s) /\ DeltasSummed(Place(sc[s]))) \/ LdsS(s, d) \in N)
    <3>1. FsgnS(s, d) \notin N /\ (BsgnS(s, d) \in N <=> SReports(p, s))
      BY LinkTable DEF N
    <3>2. s # FirstSub => (LdsS(s, d) \in N <=> total)
      BY LinkTable DEF N
    <3>3. (LdsIn(s)' <=> sc'[s].s_lds_arrived = lds_expected(s))
            /\ (LdsIn(s) <=> r.s_lds_arrived = lds_expected(s))
      BY <1>4, <1>18 DEF LdsIn
    <3>4. /\ total <=> p.kind = "lds" /\ r.s_lds_arrived + 1 = lds_expected(s)
          /\ sc'[s].s_lds_arrived = IF p.kind = "lds" THEN r.s_lds_arrived + 1 ELSE r.s_lds_arrived
      BY <1>1 DEF SFinishes, SWhole, SBCounted
    <3> HIDE DEF N, total, r
    <3> QED BY <1>3, <1>4, <1>7, <1>18, <1>19, <3>1, <3>2, <3>3, <3>4 DEF r
  <2> HIDE DEF N
  <2> QED BY <1>3, <2>1, <2>2, <2>3, DueFromS
<1> HIDE DEF N
<1>21. SCoreOK(s)'
  <2>1. CountedUnits(p, a, Got')
    BY <1>1, <1>2, <1>3, <1>17, <1>20, CountUnitAfter
  <2>2. ASSUME NEW u \in Unit PROVE sc'[s].sb_arrived[u] = GotUnit("bkp", a, u)'
    <3>1. Cardinality(IntoUnit("bkp", a, u) \cap Got') =
            IF p.kind = "bkp" /\ u = p.u THEN GotUnit("bkp", a, u) + 1 ELSE GotUnit("bkp", a, u)
      BY <1>1, <1>5, <2>1 DEF CountedUnits
    <3>2. sc'[s].sb_arrived[u] = IF p.kind = "bkp" /\ u = p.u THEN r.sb_arrived[u] + 1
                                                             ELSE r.sb_arrived[u]
      BY <1>1, <1>3 DEF SBCounted, SShape
    <3> QED BY <1>6, <3>1, <3>2 DEF GotUnit
  <2>3. /\ GotInto("bsgn", a)' = IF p.kind = "bsgn" THEN GotInto("bsgn", a) + 1 ELSE GotInto("bsgn", a)
        /\ GotInto("lds", a)' = IF p.kind = "lds" THEN GotInto("lds", a) + 1 ELSE GotInto("lds", a)
    BY <1>1, <1>2, <1>3, <1>5, <1>17, <1>20, CountAfter
  <2>4. sc'[s].s_bsgn_arrived = GotInto("bsgn", a)' /\ sc'[s].s_lds_arrived = GotInto("lds", a)'
    BY <1>1, <1>6, <2>3 DEF SBCounted
  <2>5. sc'[s].sb_thrds_pend \subseteq sb_thrds_init(s) \cup {"LDSA"}
    BY <1>1, <1>3 DEF SBCounted, SCoreOK
  <2>6. /\ sc'[s].phase = B /\ sc'[s].sf_arrived = NoneArrived /\ sc'[s].s_fsgn_arrived = 0
    BY <1>1, <1>3, <1>4 DEF SBCounted, SCoreOK
  <2>7. ThreadsOK(sc'[s].sb_thrds_pend, SBThreads(s)', SBThreadsDone(s)')
    BY <1>12, <1>14
  <2>8. sc'[s].sb_done = Cardinality({u \in Unit : sc'[s].sb_arrived[u] = bkp_expected})
    BY <1>8 DEF WholeNext
  <2> QED BY <1>4, <1>18, <2>2, <2>4, <2>5, <2>6, <2>7, <2>8 DEF SCoreOK
<1>22. Ready({p}, N)
  <2>1. Got' = Got \cup Taken({p}) /\ l \in Taken({p})
    BY <1>17, <1>20, SentGot DEF Taken
  <2>2. SWhole(p, s) => LinkDeps(BkpST(s, p.u)) \subseteq Got \cup Taken({p})
    BY <1>1, <1>3, <1>7, <2>1, DepsTable DEF SWhole
  <2>3. total => \A d : LinkDeps(LdsS(s, d)) \subseteq Got \cup Taken({p})
    BY <1>3, <1>7, <1>9, <2>1, DepsTable
  <2>4. SReports(p, s) => \A d : LinkDeps(BsgnS(s, d)) \cap LinksOf(cur) \subseteq Got \cup Taken({p})
    <3>1. SBComplete(s)'
      <4>1. ReportComplete'
        BY SBReportComplete, PTL
      <4> QED BY <4>1 DEF ReportComplete
    <3>2. SReports(p, s) => Into({"bkp", "bsgn", "lds"}, a) \cap LinksOf(cur) \subseteq Got'
      BY <1>3, <1>4, <1>18, <1>19, <1>21, <3>1 DEF SBComplete
    <3>3. \A d : LinkDeps(BsgnS(s, d)) = Into({"bkp", "bsgn", "lds"}, a)
      BY <1>3, <1>9, DepsTable
    <3> QED BY <2>1, <3>2, <3>3
  <2> QED BY <2>2, <2>3, <2>4 DEF Ready, N
<1>23. CoreOK(a)'
  <2>1. SShape(sc'[s])
    BY <1>1 DEF SBCounted
  <2> QED BY <1>3, <1>21, <2>1, CoresApart, RecFacts DEF CoreOK
<1>24. OneOrNone({p})
  BY DEF OneOrNone
<1> HIDE DEF a
<1> QED BY <1>17, <1>20, <1>22, <1>23, <1>24, TickStepInv

\* what becomes of the record of a sum core in BACKPROP
LEMMA SBRecord ==
  ASSUME NEW p, NEW s, NEW r, NEW q, SShape(r), DOMAIN q = DOMAIN r, DOMAIN q.sb_arrived = Unit,
         \A f \in StartFields \cup {"sf_arrived", "s_fsgn_arrived"} : q[f] = r[f],
         /\ q.sb_arrived = IF p.kind = "bkp" THEN [r.sb_arrived EXCEPT ![p.u] = @ + 1] ELSE r.sb_arrived
         /\ q.sb_done = IF SWhole(p, s) THEN r.sb_done + 1 ELSE r.sb_done
         /\ q.s_bsgn_arrived = IF p.kind = "bsgn" THEN r.s_bsgn_arrived + 1 ELSE r.s_bsgn_arrived
         /\ q.s_lds_arrived = IF p.kind = "lds" THEN r.s_lds_arrived + 1 ELSE r.s_lds_arrived
         /\ q.sb_thrds_pend = IF SFinishes(p, s) /\ ~SReports(p, s)
                                THEN r.sb_thrds_pend \ {SThread(p)} ELSE r.sb_thrds_pend
  PROVE  SBCounted(p, s, r, q)
<1>1. q.sf_arrived = r.sf_arrived /\ q.s_fsgn_arrived = r.s_fsgn_arrived /\ q.phase = r.phase
  BY DEF StartFields
<1>2. DOMAIN q.sf_arrived = Unit
  BY <1>1 DEF SShape
<1>3. SShape(q) /\ Keeps(r, q)
  BY <1>2, SRecord
<1> QED BY <1>1, <1>3 DEF SBCounted

\* What the end of a thread does to the record.
LEMMA SBDoneFields ==
  ASSUME NEW q, NEW th, "sb_thrds_pend" \in DOMAIN q
  PROVE  /\ DOMAIN SBDone(q, th) = DOMAIN q
         /\ \A f \in DOMAIN q \ {"sb_thrds_pend"} : SBDone(q, th)[f] = q[f]
         /\ SBDone(q, th).sb_thrds_pend = IF q.sb_thrds_pend = {th} THEN q.sb_thrds_pend
                                                                  ELSE q.sb_thrds_pend \ {th}
  BY DEF SBDone

\* A sum core counts backprop sync generation (s_bsgn_packet).
LEMMA SBsgnInv ==
  ASSUME AllTimely, FlowAndMachine, NEW p \in net, SBsgn(p), UNCHANGED <<wc, ic, tc>>
  PROVE  FlowAndMachine' /\ Flow!Next
<1> DEFINE s == p.dst[2]
           r == sc[s]
           r1 == [sc[s] EXCEPT !.s_bsgn_arrived = @ + 1]
           all == r1.s_bsgn_arrived = bsgn_expected(s)
           q == IF all THEN SBDone(r1, "BSGN") ELSE r1
<1>1. /\ p.kind = "bsgn" /\ p.dst[1] = "S" /\ InTime(sc[s], p)
      /\ sc' = [sc EXCEPT ![s] = q]
      /\ net' = (net \ {p}) \cup IF all THEN SBReport(s, r1, "BSGN", p.st) ELSE {}
  BY Zenon DEF SBsgn
<1>2. s \in Sub /\ p.dst = S(s)
  BY <1>1, SAddress
<1>3. SShape(r) /\ DOMAIN sc = Sub
  BY <1>2 DEF FlowAndMachine, MachineInv, ShapeOK
<1>4. sc'[s] = q /\ sc' = [sc EXCEPT ![s] = sc'[s]]
  BY <1>1, <1>2, <1>3
<1>5. /\ DOMAIN r1 = DOMAIN r /\ \A f \in DOMAIN r \ {"s_bsgn_arrived"} : r1[f] = r[f]
      /\ r1.s_bsgn_arrived = r.s_bsgn_arrived + 1
  BY <1>3 DEF SShape
<1> HIDE DEF r1
<1>6. /\ SFinishes(p, s) <=> all
      /\ SReports(p, s) <=> all /\ r1.sb_thrds_pend = {"BSGN"}
      /\ SThread(p) = "BSGN" /\ ~SWhole(p, s) /\ r1.sb_thrds_pend = r.sb_thrds_pend
  BY <1>1, <1>3, <1>5 DEF SFinishes, SReports, SThread, SWhole, SShape
<1>7. /\ DOMAIN q = DOMAIN r
      /\ \A f \in DOMAIN r \ {"s_bsgn_arrived", "sb_thrds_pend"} : q[f] = r[f]
      /\ q.s_bsgn_arrived = r.s_bsgn_arrived + 1
      /\ q.sb_thrds_pend = IF SFinishes(p, s) /\ ~SReports(p, s)
                             THEN r.sb_thrds_pend \ {SThread(p)} ELSE r.sb_thrds_pend
  <2>1. "sb_thrds_pend" \in DOMAIN r1 /\ "s_bsgn_arrived" \in DOMAIN r1
    BY <1>3, <1>5 DEF SShape
  <2>4. /\ DOMAIN SBDone(r1, "BSGN") = DOMAIN r1
        /\ \A f \in DOMAIN r1 \ {"sb_thrds_pend"} : SBDone(r1, "BSGN")[f] = r1[f]
        /\ SBDone(r1, "BSGN").sb_thrds_pend = IF r1.sb_thrds_pend = {"BSGN"} THEN r1.sb_thrds_pend
                                                                  ELSE r1.sb_thrds_pend \ {"BSGN"}
    BY <2>1, SBDoneFields
  <2>5. q = IF all THEN SBDone(r1, "BSGN") ELSE r1
    OBVIOUS
  <2> HIDE DEF r, s, all, q
  <2>2. CASE all
    <3>1. q = SBDone(r1, "BSGN")
      BY <2>2, <2>5
    <3> QED BY <1>5, <1>6, <2>1, <2>2, <2>4, <3>1
  <2>3. CASE ~all
    BY <1>5, <1>6, <2>1, <2>3, <2>5
  <2> QED BY <2>2, <2>3
<1> HIDE DEF q
<1>8. SBCounted(p, s, r, q)
  <2>1. /\ \A f \in StartFields \cup {"sf_arrived", "s_fsgn_arrived"} : q[f] = r[f]
        /\ q.sb_arrived = r.sb_arrived /\ q.sb_done = r.sb_done /\ q.s_lds_arrived = r.s_lds_arrived
    BY <1>3, <1>7 DEF SShape, StartFields
  <2>2. DOMAIN q.sb_arrived = Unit
    BY <1>3, <2>1 DEF SShape
  <2> HIDE DEF s, r
  <2> QED BY <1>1, <1>3, <1>6, <1>7, <2>1, <2>2, SBRecord
<1>9. (IF all THEN SBReport(s, r1, "BSGN", p.st) ELSE {})
        = (IF SReports(p, s) THEN Multicast("bsgn", S(s), FsgRoute(s), 0, FALSE, p.st) ELSE {})
  BY <1>6 DEF SBReport
<1>10. SBStep(p, s)
  <2> HIDE DEF s, r, all
  <2> QED BY <1>1, <1>2, <1>4, <1>6, <1>8, <1>9 DEF SBStep, r
<1> QED BY <1>2, <1>10, SBackStep

\* A sum core adds up link delta sums (s_lds_packet).
LEMMA SLdsInv ==
  ASSUME AllTimely, FlowAndMachine, NEW p \in net, SLds(p), UNCHANGED <<wc, ic, tc>>
  PROVE  FlowAndMachine' /\ Flow!Next
<1> DEFINE s == p.dst[2]
           r == sc[s]
           r1 == [sc[s] EXCEPT !.s_lds_part = @ (+) SetToBag({<<p.src, p.u, p.st>>}),
                               !.s_lds_arrived = @ + 1]
           all == r1.s_lds_arrived = lds_expected(s)
           q == IF all THEN SBDone(r1, "LDSA") ELSE r1
           total == Multicast("lds", S(s), LdsRoute(s), 0, FALSE, p.st)
           report == SBReport(s, r1, "LDSA", p.st)
<1>1. /\ p.kind = "lds" /\ p.dst[1] = "S" /\ InTime(sc[s], p)
      /\ sc' = [sc EXCEPT ![s] = q]
      /\ net' = (net \ {p}) \cup (IF all THEN Multicast("lds", p.dst, LdsRoute(s), 0, FALSE, p.st) \cup report ELSE {})
  <2>1. CASE all
    BY <2>1, Zenon DEF SLds
  <2>2. CASE ~all
    BY <2>2, Zenon DEF SLds
  <2> QED BY <2>1, <2>2
<1>2. s \in Sub /\ p.dst = S(s)
  BY <1>1, SAddress
<1>3. SShape(r) /\ DOMAIN sc = Sub
  BY <1>2 DEF FlowAndMachine, MachineInv, ShapeOK
<1>4. sc'[s] = q /\ sc' = [sc EXCEPT ![s] = sc'[s]]
  BY <1>1, <1>2, <1>3
<1>5. /\ DOMAIN r1 = DOMAIN r
      /\ \A f \in DOMAIN r \ {"s_lds_part", "s_lds_arrived"} : r1[f] = r[f]
      /\ r1.s_lds_arrived = r.s_lds_arrived + 1
  BY <1>3 DEF SShape
<1> HIDE DEF r1
<1>6. /\ SFinishes(p, s) <=> all
      /\ SReports(p, s) <=> all /\ r1.sb_thrds_pend = {"LDSA"}
      /\ SThread(p) = "LDSA" /\ ~SWhole(p, s) /\ r1.sb_thrds_pend = r.sb_thrds_pend
  BY <1>1, <1>3, <1>5 DEF SFinishes, SReports, SThread, SWhole, SShape
<1>7. /\ DOMAIN q = DOMAIN r
      /\ \A f \in DOMAIN r \ {"s_lds_part", "s_lds_arrived", "sb_thrds_pend"} : q[f] = r[f]
      /\ q.s_lds_arrived = r.s_lds_arrived + 1
      /\ q.sb_thrds_pend = IF SFinishes(p, s) /\ ~SReports(p, s)
                             THEN r.sb_thrds_pend \ {SThread(p)} ELSE r.sb_thrds_pend
  <2>1. "sb_thrds_pend" \in DOMAIN r1 /\ "s_lds_arrived" \in DOMAIN r1
    BY <1>3, <1>5 DEF SShape
  <2>2. /\ DOMAIN SBDone(r1, "LDSA") = DOMAIN r1
        /\ \A f \in DOMAIN r1 \ {"sb_thrds_pend"} : SBDone(r1, "LDSA")[f] = r1[f]
        /\ SBDone(r1, "LDSA").sb_thrds_pend = IF r1.sb_thrds_pend = {"LDSA"} THEN r1.sb_thrds_pend
                                                                  ELSE r1.sb_thrds_pend \ {"LDSA"}
    BY <2>1, SBDoneFields
  <2>3. q = IF all THEN SBDone(r1, "LDSA") ELSE r1
    OBVIOUS
  <2> HIDE DEF r, s, all, q
  <2>4. CASE all
    <3>1. q = SBDone(r1, "LDSA")
      BY <2>3, <2>4
    <3> QED BY <1>5, <1>6, <2>1, <2>2, <2>4, <3>1
  <2>5. CASE ~all
    BY <1>5, <1>6, <2>1, <2>3, <2>5
  <2> QED BY <2>4, <2>5
<1> HIDE DEF q
<1>8. SBCounted(p, s, r, q)
  <2>1. /\ \A f \in StartFields \cup {"sf_arrived", "s_fsgn_arrived"} : q[f] = r[f]
        /\ q.sb_arrived = r.sb_arrived /\ q.sb_done = r.sb_done
        /\ q.s_bsgn_arrived = r.s_bsgn_arrived
    BY <1>3, <1>7 DEF SShape, StartFields
  <2>2. DOMAIN q.sb_arrived = Unit
    BY <1>3, <2>1 DEF SShape
  <2> HIDE DEF s, r
  <2> QED BY <1>1, <1>3, <1>6, <1>7, <2>1, <2>2, SBRecord
<1>9. report = (IF r1.sb_thrds_pend = {"LDSA"}
                  THEN Multicast("bsgn", S(s), FsgRoute(s), 0, FALSE, p.st) ELSE {})
  BY DEF SBReport
<1> HIDE DEF report
<1>10. (IF all THEN Multicast("lds", p.dst, LdsRoute(s), 0, FALSE, p.st) \cup report ELSE {})
         = (IF p.kind = "lds" /\ SFinishes(p, s) THEN total ELSE {})
             \cup (IF SReports(p, s) THEN Multicast("bsgn", S(s), FsgRoute(s), 0, FALSE, p.st) ELSE {})
  <2> HIDE DEF all, s
  <2> QED BY <1>1, <1>2, <1>6, <1>9 DEF total
<1>11. SBStep(p, s)
  <2>1. net' = (net \ {p}) \cup ((IF p.kind = "lds" /\ SFinishes(p, s) THEN total ELSE {})
             \cup (IF SReports(p, s) THEN Multicast("bsgn", S(s), FsgRoute(s), 0, FALSE, p.st) ELSE {}))
    BY <1>1, <1>10
  <2> HIDE DEF s, r, all, q
  <2>2. sc' = [sc EXCEPT ![s] = sc'[s]] /\ SBCounted(p, s, sc[s], sc'[s])
    BY <1>4, <1>8 DEF r
  <2> QED BY <1>1, <1>2, <1>6, <2>1, <2>2 DEF SBStep
<1> QED BY <1>2, <1>11, SBackStep

\* A sum core adds up an error (sb_process).
LEMMA SBackpropInv ==
  ASSUME AllTimely, FlowAndMachine, NEW p \in net, SBackprop(p), UNCHANGED <<wc, ic, tc>>
  PROVE  FlowAndMachine' /\ Flow!Next
<1> DEFINE s == p.dst[2]
           r == sc[s]
           r1 == [sc[s] EXCEPT !.s_errors[p.u] = @ (+) SetToBag({<<p.src, p.st>>}),
                               !.sb_arrived[p.u] = @ + 1]
           r2 == [r1 EXCEPT !.sb_done = @ + 1]
           whole == r1.sb_arrived[p.u] = bkp_expected
           all == r2.sb_done = Units
           q == IF ~whole THEN r1 ELSE IF all THEN SBDone(r2, "PROC") ELSE r2
           e == Pkt("bkp", S(s), T(s), p.u, FALSE, p.st)
           report == SBReport(s, r2, "PROC", p.st)
<1>1. /\ p.kind = "bkp" /\ p.dst[1] = "S" /\ InTime(sc[s], p)
      /\ sc' = [sc EXCEPT ![s] = q]
      /\ net' = (net \ {p}) \cup (IF whole THEN {Pkt("bkp", p.dst, T(s), p.u, FALSE, p.st)}
                                                 \cup (IF all THEN report ELSE {}) ELSE {})
  <2>1. CASE whole
    BY <2>1, Zenon DEF SBackprop
  <2>2. CASE ~whole
    BY <2>2, Zenon DEF SBackprop
  <2> QED BY <2>1, <2>2
<1>2. s \in Sub /\ p.dst = S(s)
  BY <1>1, SAddress
<1>3. SShape(r) /\ DOMAIN sc = Sub /\ p.u \in Unit
  BY <1>2 DEF FlowAndMachine, MachineInv, ShapeOK, NetOK, PacketOK
<1>4. sc'[s] = q /\ sc' = [sc EXCEPT ![s] = sc'[s]]
  <2> HIDE DEF q, s, r
  <2> QED BY <1>1, <1>2, <1>3
<1>5. /\ DOMAIN r1 = DOMAIN r
      /\ \A f \in DOMAIN r \ {"s_errors", "sb_arrived"} : r1[f] = r[f]
      /\ r1.sb_arrived = [r.sb_arrived EXCEPT ![p.u] = @ + 1]
  BY <1>3 DEF SShape
<1> HIDE DEF r1
<1>6. /\ DOMAIN r2 = DOMAIN r /\ "sb_thrds_pend" \in DOMAIN r2
      /\ \A f \in DOMAIN r \ {"s_errors", "sb_arrived", "sb_done"} : r2[f] = r[f]
      /\ r2.sb_arrived = [r.sb_arrived EXCEPT ![p.u] = @ + 1] /\ r2.sb_done = r.sb_done + 1
      /\ r2.sb_thrds_pend = r.sb_thrds_pend /\ r1.sb_done = r.sb_done
      /\ r1.sb_thrds_pend = r.sb_thrds_pend
  BY <1>3, <1>5 DEF SShape
<1> HIDE DEF r2
<1>7. /\ SWhole(p, s) <=> whole
      /\ SFinishes(p, s) <=> whole /\ all
      /\ SReports(p, s) <=> whole /\ all /\ r2.sb_thrds_pend = {"PROC"}
      /\ SThread(p) = "PROC"
  BY <1>1, <1>3, <1>5, <1>6 DEF SFinishes, SReports, SThread, SWhole, SShape
<1>8. /\ DOMAIN q = DOMAIN r
      /\ \A f \in DOMAIN r \ {"s_errors", "sb_arrived", "sb_done", "sb_thrds_pend"} : q[f] = r[f]
      /\ q.sb_arrived = [r.sb_arrived EXCEPT ![p.u] = @ + 1]
      /\ q.sb_done = IF SWhole(p, s) THEN r.sb_done + 1 ELSE r.sb_done
      /\ q.sb_thrds_pend = IF SFinishes(p, s) /\ ~SReports(p, s)
                             THEN r.sb_thrds_pend \ {SThread(p)} ELSE r.sb_thrds_pend
  <2>2. /\ DOMAIN SBDone(r2, "PROC") = DOMAIN r2
        /\ \A f \in DOMAIN r2 \ {"sb_thrds_pend"} : SBDone(r2, "PROC")[f] = r2[f]
        /\ SBDone(r2, "PROC").sb_thrds_pend = IF r2.sb_thrds_pend = {"PROC"} THEN r2.sb_thrds_pend
                                                                  ELSE r2.sb_thrds_pend \ {"PROC"}
    BY <1>6, SBDoneFields
  <2>3. q = IF ~whole THEN r1 ELSE IF all THEN SBDone(r2, "PROC") ELSE r2
    OBVIOUS
  <2>6. {"sb_arrived", "sb_done", "sb_thrds_pend"} \subseteq DOMAIN r
    BY <1>3 DEF SShape
  <2> HIDE DEF r, s, all, whole, q
  <2>4. CASE whole /\ all
    <3>1. q = SBDone(r2, "PROC")
      BY <2>3, <2>4
    <3> QED BY <1>6, <1>7, <2>2, <2>4, <2>6, <3>1
  <2>5. CASE whole /\ ~all
    <3>1. q = r2
      BY <2>3, <2>5
    <3> QED BY <1>6, <1>7, <2>5, <3>1
  <2>7. CASE ~whole
    <3>1. q = r1
      BY <2>3, <2>7
    <3> QED BY <1>5, <1>6, <1>7, <2>6, <2>7, <3>1
  <2> QED BY <2>4, <2>5, <2>7
<1> HIDE DEF q
<1>9. SBCounted(p, s, r, q)
  <2>1. /\ \A f \in StartFields \cup {"sf_arrived", "s_fsgn_arrived"} : q[f] = r[f]
        /\ q.s_bsgn_arrived = r.s_bsgn_arrived /\ q.s_lds_arrived = r.s_lds_arrived
    BY <1>3, <1>8 DEF SShape, StartFields
  <2>2. DOMAIN q.sb_arrived = Unit
    BY <1>3, <1>8 DEF SShape
  <2> HIDE DEF s, r
  <2> QED BY <1>1, <1>3, <1>7, <1>8, <2>1, <2>2, SBRecord
<1>10. report = (IF r2.sb_thrds_pend = {"PROC"}
                  THEN Multicast("bsgn", S(s), FsgRoute(s), 0, FALSE, p.st) ELSE {})
  BY DEF SBReport
<1> HIDE DEF report, e
<1>11. SBStep(p, s)
  <2> HIDE DEF s, r, all, whole, q
  <2>1. (IF whole THEN {e} \cup (IF all THEN report ELSE {}) ELSE {})
         = (IF SWhole(p, s) THEN {e} ELSE {})
             \cup (IF SReports(p, s) THEN Multicast("bsgn", S(s), FsgRoute(s), 0, FALSE, p.st) ELSE {})
    BY <1>7, <1>10
  <2>2. sc' = [sc EXCEPT ![s] = sc'[s]] /\ SBCounted(p, s, sc[s], sc'[s])
    BY <1>4, <1>9 DEF r
  <2>3. e = Pkt("bkp", S(s), T(s), p.u, FALSE, p.st) /\ e = Pkt("bkp", p.dst, T(s), p.u, FALSE, p.st)
    BY <1>2 DEF e
  <2>4. net' = (net \ {p}) \cup (IF whole THEN {e} \cup (IF all THEN report ELSE {}) ELSE {})
    BY <1>1, <2>3
  <2> QED BY <1>1, <1>2, <2>1, <2>2, <2>3, <2>4 DEF SBStep
<1> QED BY <1>2, <1>11, SBackStep

(***************************************************************************)
(* Threshold cores.                                                        *)
(***************************************************************************)
LEMMA TAddress ==
  ASSUME FlowAndMachine, NEW p \in net, p.dst[1] = "T"
  PROVE  p.dst[2] \in Sub /\ p.dst = T(p.dst[2])
<1>1. p.dst \in Cores
  BY DEF FlowAndMachine, MachineInv, NetOK, PacketOK
<1> QED BY <1>1, CoreKinds

\* A threshold core and its record.
LEMMA TFacts ==
  ASSUME FlowAndMachine, NEW s \in Sub
  PROVE  /\ T(s) \in Cores /\ Rec(T(s)) = tc[s] /\ Rec(T(s))' = tc'[s]
         /\ TShape(tc[s]) /\ TCoreOK(s) /\ DOMAIN tc = Sub
<1>1. Rec(T(s)) = tc[s] /\ Rec(T(s))' = tc'[s]
  BY RecFacts
<1>2. TShape(tc[s]) /\ TCoreOK(s) /\ DOMAIN tc = Sub
  BY DEF FlowAndMachine, MachineInv, ShapeOK, CoresOK
<1> QED BY <1>1, <1>2, CoreFacts

\* A threshold core that handles a packet in time.
LEMMA TPacketFacts ==
  ASSUME AllTimely, FlowAndMachine, NEW p \in net, Awaits(p), NEW s \in Sub, p.dst = T(s),
         InTime(tc[s], p)
  PROVE  /\ T(s) \in Cores \ Behind
         /\ InTime(Rec(p.dst), p) /\ Place(tc[s]) = cur
         /\ p.st = CurStamp /\ p.st = Stamp(tc[s]) /\ p.u \in Unit
         /\ LinkOf(p) \in Sent \ Got /\ LinkOf(p) \in AllLinks
         /\ \A ph : In(T(s), ph) <=> cur[3] = ph
         /\ ~tc[s].advance
<1>1. Rec(T(s)) = tc[s] /\ TCoreOK(s)
  BY TFacts
<1>2. InTime(Rec(p.dst), p)
  BY <1>1
<1>3. /\ p.dst \in Cores \ Behind /\ p.u \in Unit /\ Place(Rec(p.dst)) = cur
      /\ p.st = CurStamp /\ p.st = Stamp(Rec(p.dst)) /\ LinkOf(p) \in Sent \ Got
  BY <1>2, InTickLink
<1>4. \A ph : In(T(s), ph) <=> cur[3] = ph
  BY <1>3, PhaseFacts
<1>5. ~tc[s].advance
  BY <1>1, <1>3 DEF Behind, TCoreOK, LastT
<1> QED BY <1>1, <1>2, <1>3, <1>4, <1>5 DEF Sent

\* A step of one threshold core.
LEMMA TOnly ==
  ASSUME FlowAndMachine, NEW s \in Sub, UNCHANGED <<wc, sc, ic>>, tc' = [tc EXCEPT ![s] = tc'[s]]
  PROVE  /\ Others(T(s)) /\ T(s) \notin WCores
         /\ s # LastSub => tc'[LastSub] = tc[LastSub]
<1>1. DOMAIN tc' = DOMAIN tc
  OBVIOUS
<1>2. \A t \in Sub : t # s => tc'[t] = tc[t]
  BY DEF FlowAndMachine, MachineInv, ShapeOK
<1>3. T(s) \notin WCores
  BY RecFacts, CoresApart
<1> QED BY <1>1, <1>2, <1>3, LastSubFacts DEF Others

\* what a handler does with the record of a threshold core
LEMMA TRecord ==
  ASSUME NEW r, NEW q, TShape(r), DOMAIN q = DOMAIN r,
         \A f \in StartFields \cup {"tb_procs"} : q[f] = r[f],
         q.tick_stop \in BOOLEAN, q.advance \in BOOLEAN, q.tb_pending \in BOOLEAN
  PROVE  TShape(q) /\ Keeps(r, q)
<1>1. /\ q.phase = r.phase /\ q.tick = r.tick /\ q.evt = r.evt
      /\ q.example_cnt = r.example_cnt /\ q.epoch = r.epoch /\ q.done = r.done
      /\ q.net_stop = r.net_stop /\ q.net_stop_rdy = r.net_stop_rdy
      /\ q.tb_procs = r.tb_procs
  BY DEF StartFields
<1> QED BY <1>1 DEF TShape, StartShape, Keeps, Place

\* A threshold core computes its deltas (tb_process).
LEMMA TProcessInv ==
  ASSUME AllTimely, FlowAndMachine, NEW s \in Sub, TProcess(s), UNCHANGED <<wc, sc, ic>>
  PROVE  FlowAndMachine' /\ Flow!Next
<1> DEFINE a == T(s)
           r == tc[s]
           e(u) == Pkt("bkp", a, I(s), u, FALSE, Stamp(tc[s]))
           E == {e(u) : u \in Unit}
           N == {BkpTI(s, u) : u \in Unit}
<1>1. /\ r.tb_pending
      /\ net' = (net \ {}) \cup E
      /\ tc' = [tc EXCEPT ![s].tb_pending = FALSE]
  BY DEF TProcess
<1>2. /\ a \in Cores /\ Rec(a) = r /\ Rec(a)' = tc'[s]
      /\ TShape(r) /\ TCoreOK(s) /\ DOMAIN tc = Sub
  BY TFacts
<1>3. In(a, B) /\ ~Deltas(s)
  BY <1>1, <1>2 DEF TCoreOK, Deltas
<1>4. /\ a \notin Behind /\ Place(r) = cur /\ cur[3] = B /\ F # B /\ Stamp(r) = CurStamp
      /\ LinksOf(cur) = BackpropLinks \cup IF DeltasSummed(cur) THEN DeltaSumLinks ELSE {}
  <2>1. a \notin Behind /\ r.phase = B
    BY <1>2, <1>3 DEF In
  <2>2. Place(r) = cur
    BY <1>2, <2>1, FlowFacts DEF FlowAndMachine
  <2> QED BY <2>1, <2>2, PhaseFacts DEF Place, Stamp, CurStamp, cur
<1>5. /\ tc' = [tc EXCEPT ![s] = tc'[s]]
      /\ TShape(tc'[s]) /\ Keeps(r, tc'[s]) /\ ~tc'[s].tb_pending
      /\ tc'[s].tb_arrived = r.tb_arrived /\ tc'[s].tb_bsgn_arrived = r.tb_bsgn_arrived
      /\ tc'[s].tb_thrds_pend = r.tb_thrds_pend
      /\ tc'[s].tf_arrived = r.tf_arrived /\ tc'[s].tf_crit_arrived = r.tf_crit_arrived
      /\ tc'[s].tf_thrds_pend = r.tf_thrds_pend
      /\ tc'[s].advance = r.advance /\ tc'[s].tick_stop = r.tick_stop
      /\ tc'[s].ev_tick = r.ev_tick /\ tc'[s].phase = r.phase
  <2> DEFINE q == [r EXCEPT !.tb_pending = FALSE]
  <2>1. tc'[s] = q /\ tc' = [tc EXCEPT ![s] = q]
    BY <1>1, <1>2
  <2>2. DOMAIN q = DOMAIN r /\ (\A f \in DOMAIN r \ {"tb_pending"} : q[f] = r[f]) /\ q.tb_pending = FALSE
    BY <1>2 DEF TShape
  <2> HIDE DEF q
  <2>3. TShape(q) /\ Keeps(r, q)
    BY <1>2, <2>2, TRecord DEF TShape, StartFields
  <2>4. /\ q.tb_arrived = r.tb_arrived /\ q.tb_bsgn_arrived = r.tb_bsgn_arrived
        /\ q.tb_thrds_pend = r.tb_thrds_pend
        /\ q.tf_arrived = r.tf_arrived /\ q.tf_crit_arrived = r.tf_crit_arrived
        /\ q.tf_thrds_pend = r.tf_thrds_pend
        /\ q.advance = r.advance /\ q.tick_stop = r.tick_stop
        /\ q.ev_tick = r.ev_tick /\ q.phase = r.phase
    BY <1>2, <2>2 DEF TShape, StartFields
  <2> QED BY <2>1, <2>2, <2>3, <2>4
<1>6. DueTable
  BY DueByLink
<1>7. ASSUME NEW u \in Unit
      PROVE  /\ LinkOf(e(u)) = BkpTI(s, u) /\ Sending(e(u), a)
             /\ BkpTI(s, u) \in LinksOf(cur) \ Sent
  <2>1. /\ e(u).kind = "bkp" /\ e(u).src = a /\ e(u).dst = I(s) /\ e(u).u = u /\ e(u).b = FALSE
        /\ e(u).st = Stamp(tc[s]) /\ LinkOf(e(u)) = Link("bkp", a, I(s), u)
        /\ e(u) = Pkt(e(u).kind, e(u).src, e(u).dst, e(u).u, e(u).b, e(u).st)
    BY DEF Pkt, LinkOf
  <2>2. LinkOf(e(u)) = BkpTI(s, u)
    BY <2>1 DEF BkpTI
  <2>3. Sending(e(u), a)
    <3> HIDE DEF e
    <3> QED BY <1>4, <2>1, CoreFacts DEF Sending
  <2>4. BkpTI(s, u) \in LinksOf(cur) /\ ~Due(BkpTI(s, u))
    BY <1>3, <1>4, <1>6, BackpropIntro DEF DueTable
  <2> QED BY <2>2, <2>3, <2>4 DEF Sent
<1>8. TickStep(a, {}, E, N)
  <2>1. \A f, g \in E : LinkOf(f) = LinkOf(g) => f = g
    <3>1. \A f \in E : /\ f = Pkt(f.kind, f.src, f.dst, f.u, f.b, f.st)
                       /\ f.b = FALSE /\ f.st = Stamp(tc[s])
      BY DEF Pkt
    <3> QED BY <3>1, SameLink
  <2>2. \A f \in E : Sending(f, a) /\ LinkOf(f) \in N
    BY <1>7
  <2>3. N \subseteq LinksOf(cur) \ Sent /\ \A x \in N : \E f \in E : LinkOf(f) = x
    BY <1>7
  <2> HIDE DEF E, N
  <2>4. /\ tc'[LastSub].advance = tc[LastSub].advance
        /\ tc'[LastSub].tick_stop = tc[LastSub].tick_stop
        /\ tc'[LastSub].ev_tick = tc[LastSub].ev_tick
        /\ Others(a) /\ a \notin WCores
    BY <1>5, TOnly
  <2> QED BY <1>1, <1>2, <1>4, <1>5, <2>1, <2>2, <2>3, <2>4 DEF TickStep
<1> HIDE DEF E
<1>9. In(a, B)' /\ ~In(a, F)' /\ Place(tc'[s]) = Place(r)
  BY <1>2, <1>3, <1>4, <1>8, PlaceStep DEF Keeps, In
<1>10. DueFrom(a, N)
  <2>2. ASSUME NEW u \in Unit
        PROVE  /\ Deltas(s)' <=> Deltas(s) \/ BkpTI(s, u) \in N
               /\ \A t \in Sub : NetUsed(s, u)' <=> NetUsed(s, u) \/ FwdTW(t, s, u) \in N
    <3>1. BkpTI(s, u) \in N /\ Deltas(s)'
      BY <1>5, <1>9 DEF Deltas
    <3>2. /\ NetUsed(s, u) <=> FwdIT(s, u) \in Got
          /\ NetUsed(s, u)' <=> FwdIT(s, u) \in Got \cup Taken({})
      BY <1>8, NetUsedStep
    <3>3. \A t \in Sub : FwdTW(t, s, u) \notin N
      BY LinkTable DEF N
    <3> HIDE DEF N
    <3> QED BY <3>1, <3>2, <3>3 DEF Taken
  <2>3. ASSUME NEW d
        PROVE  /\ CritWhole(s)' <=> CritWhole(s) \/ CritT(s, d) \in N
               /\ TBReported(s)' <=> TBReported(s) \/ BsgnT(s, d) \in N
    <3>1. CritT(s, d) \notin N /\ BsgnT(s, d) \notin N
      BY LinkTable DEF N
    <3>2. ~CritWhole(s) /\ ~CritWhole(s)'
      BY <1>4, <1>2, <1>9 DEF CritWhole, In, Place
    <3>3. TBReported(s)' <=> TBReported(s)
      BY <1>3, <1>5, <1>9 DEF TBReported
    <3> QED BY <3>1, <3>2, <3>3
  <2> HIDE DEF N
  <2> QED BY <2>2, <2>3, DueFromT
<1>11. Ready({}, N)
  BY DepsTable DEF Ready
<1> HIDE DEF N
<1>12. CoreOK(a)'
  <2>1. Got' = Got /\ \A k, c : GotInto(k, c)' = GotInto(k, c)
    BY <1>8, <1>10, CountSame
  <2>2. TFThreadsDone(s)' = TFThreadsDone(s) /\ TBThreadsDone(s)' = TBThreadsDone(s)
    BY <1>5, <2>1 DEF TFThreadsDone, TBThreadsDone
  <2>3. TCoreOK(s)'
    BY <1>2, <1>3, <1>5, <1>9, <2>1, <2>2 DEF TCoreOK
  <2> QED BY <1>2, <1>5, <2>3, CoresApart, RecFacts DEF CoreOK
<1>13. OneOrNone({})
  <2>1. ~Flow!EpochOver(cur)
    BY <1>4 DEF Flow!EpochOver, B
  <2>2. Heading({"stpn"}) = {} /\ ~tc[LastSub].done
    BY <2>1 DEF FlowAndMachine, Flow!FlowInv, Flow!StageOK, cur
  <2> QED BY <2>1, <2>2 DEF OneOrNone
<1> HIDE DEF a
<1> QED BY <1>8, <1>10, <1>11, <1>12, <1>13, TickStepInv

(***************************************************************************)
(* A step of a threshold core in FORWARD: p is counted, and may finish a   *)
(* thread, perhaps the last one.                                           *)
(***************************************************************************)
TFThread(p) == IF p.kind = "fwd" THEN "PROC" ELSE IF p.kind = "crit" THEN "CRIT" ELSE "FSGN"
TFFinishes(p, s) ==
  \/ p.kind = "fwd" /\ tc[s].tf_arrived + 1 = Units
  \/ p.kind = "crit" /\ tc[s].tf_crit_arrived + 1 = crit_expected(s)
  \/ p.kind = "fsgn"
TFReports(p, s) == TFFinishes(p, s) /\ tc[s].tf_thrds_pend = {TFThread(p)}

\* what the last T decides is within the bounds of an event
StopInRange(r, b) ==
  /\ r.tick = GlobalMaxTicks - 1 => b
  /\ b => r.ev_tick >= MaxTicks \/ r.tick = GlobalMaxTicks - 1 \/ r.ev_tick >= MinTicks

TFCounted(p, s, r, q) ==
  /\ TShape(q) /\ Keeps(r, q) /\ q.phase = r.phase /\ q.ev_tick = r.ev_tick
  /\ q.tb_arrived = r.tb_arrived /\ q.tb_bsgn_arrived = r.tb_bsgn_arrived
  /\ q.tb_thrds_pend = r.tb_thrds_pend /\ q.tb_pending = r.tb_pending
  /\ q.tf_arrived = IF p.kind = "fwd" THEN r.tf_arrived + 1 ELSE r.tf_arrived
  /\ q.tf_crit_arrived = IF p.kind = "crit" THEN r.tf_crit_arrived + 1 ELSE r.tf_crit_arrived
  /\ q.tf_thrds_pend = IF TFFinishes(p, s) /\ ~TFReports(p, s) THEN r.tf_thrds_pend \ {TFThread(p)}
                                                         ELSE r.tf_thrds_pend
  /\ IF TFReports(p, s) /\ IsLast(s)
       THEN q.advance /\ StopInRange(r, q.tick_stop) /\ q.tick_stop = q.tf_stop_crit
       ELSE q.advance = r.advance /\ q.tick_stop = r.tick_stop
  /\ TFReports(p, s) => q.tf_stop_crit \in BOOLEAN

TFStep(p, s) ==
  /\ p.kind \in {"fwd", "crit", "fsgn"} /\ p.dst = T(s) /\ InTime(tc[s], p)
  /\ UNCHANGED <<wc, sc, ic>> /\ tc' = [tc EXCEPT ![s] = tc'[s]]
  /\ TFCounted(p, s, tc[s], tc'[s])
  /\ net' = (net \ {p})
       \cup (IF p.kind = "fwd"
               THEN Multicast("fwd", T(s), {W(to, s) : to \in Sub}, p.u, FALSE, p.st) ELSE {})
       \cup (IF TFReports(p, s)
               THEN Multicast(IF IsLast(s) THEN "stop" ELSE "crit", T(s), StpRoute(s), 0,
                              tc'[s].tf_stop_crit, p.st)
               ELSE {})

\* the threads done, when the links of G have been handled
TFDoneBy(s, r, G) ==
  (IF r.tf_arrived = Units THEN {"PROC"} ELSE {})
    \cup (IF r.tf_crit_arrived = crit_expected(s) THEN {"CRIT"} ELSE {})
    \cup (IF Into({"fsgn"}, T(s)) \subseteq G THEN {"FSGN"} ELSE {})

TFBoards(p, s, q, G) ==
  /\ q.tf_arrived = Cardinality(Into({"fwd"}, T(s)) \cap G)
  /\ q.tf_crit_arrived = Cardinality(Into({"crit"}, T(s)) \cap G)
  /\ ThreadsOK(q.tf_thrds_pend, tf_thrds_init(s), TFDoneBy(s, q, G))
  /\ TFReports(p, s) <=> tf_thrds_init(s) \subseteq TFDoneBy(s, q, G)
  /\ tf_thrds_init(s) \subseteq TFDoneBy(s, q, G) => Into({"fwd", "crit", "fsgn"}, T(s)) \subseteq G

\* The scoreboards have counted the packet, and the core had not ended its
\* threads.
LEMMA TFBoardsStep ==
  ASSUME AllTimely, FlowAndMachine, NEW p \in net, NEW s \in Sub, TFStep(p, s)
  PROVE  /\ TFBoards(p, s, tc'[s], Got \cup {LinkOf(p)})
         /\ ~(tf_thrds_init(s) \subseteq TFThreadsDone(s))
         /\ cur[3] = F /\ In(T(s), F) /\ Awaits(p)
<1> DEFINE a == T(s)
           r == tc[s]
           q == tc'[s]
           l == LinkOf(p)
           G == Got \cup {l}
           init == tf_thrds_init(s)
           done == TFDoneBy(s, r, Got)
           next == TFDoneBy(s, q, G)
           t == TFThread(p)
<1>1. /\ p.kind \in {"fwd", "crit", "fsgn"} /\ p.dst = a /\ InTime(tc[s], p)
      /\ TFCounted(p, s, r, q)
  BY DEF TFStep
<1>2. Awaits(p)
  BY <1>1 DEF Awaits
<1>3. /\ a \in Cores \ Behind /\ InTime(Rec(p.dst), p) /\ l \notin Got /\ l \in AllLinks
      /\ In(a, cur[3]) /\ TCoreOK(s)
  BY <1>1, <1>2, TPacketFacts, TFacts
<1>4. cur[3] = F
  BY <1>1, <1>2, <1>3, InTickLink
<1>5. /\ r.tf_arrived = GotInto("fwd", a) /\ r.tf_crit_arrived = GotInto("crit", a)
      /\ ThreadsOK(r.tf_thrds_pend, init, done)
  BY <1>3, <1>4 DEF TCoreOK, TFThreadsDone, TFDoneBy
<1>6. Counts(Into({"fwd"}, a), Units) /\ Counts(Into({"crit"}, a), crit_expected(s))
  BY CountsT
<1>7. l \in Into({p.kind}, a) /\ \A k : k # p.kind => l \notin Into({k}, a)
  BY <1>1, <1>2, <1>3, InTickLink, LinkApart DEF Into, LinkOf
<1>8. /\ r.tf_arrived \in Nat /\ r.tf_crit_arrived \in Nat
      /\ Cardinality(Into({"fwd"}, a) \cap G) = IF p.kind = "fwd" THEN r.tf_arrived + 1 ELSE r.tf_arrived
      /\ Cardinality(Into({"crit"}, a) \cap G)
           = IF p.kind = "crit" THEN r.tf_crit_arrived + 1 ELSE r.tf_crit_arrived
      /\ p.kind = "fwd" => r.tf_arrived # Units
      /\ p.kind = "crit" => r.tf_crit_arrived # crit_expected(s)
  <2> HIDE DEF l, r, q
  <2>1. ASSUME NEW X, NEW n, Counts(X, n)
        PROVE  /\ Cardinality(X \cap Got) \in Nat
               /\ l \notin X => Cardinality(X \cap G) = Cardinality(X \cap Got)
               /\ l \in X => /\ Cardinality(X \cap G) = Cardinality(X \cap Got) + 1
                             /\ Cardinality(X \cap Got) # n
    BY <1>3, <2>1, Scoreboard
  <2> QED BY <1>5, <1>6, <1>7, <2>1 DEF GotInto
<1>9. q.tf_arrived = Cardinality(Into({"fwd"}, a) \cap G)
      /\ q.tf_crit_arrived = Cardinality(Into({"crit"}, a) \cap G)
  BY <1>1, <1>8 DEF TFCounted
<1>10. /\ "PROC" \in init /\ (crit_expected(s) # 0 => "CRIT" \in init)
       /\ "FSGN" \in init <=> s = LastSub
       /\ "CRIT" \in init => crit_expected(s) # 0
       /\ init \subseteq {"PROC", "CRIT", "FSGN"}
  BY DEF tf_thrds_init, IsLast
<1>11. Into({"fsgn"}, a) = IF s = LastSub THEN {FsgnS(FirstSub, LastT)} ELSE {}
  BY IntoT
<1>12. p.kind = "crit" => crit_expected(s) # 0
  <2>1. crit_expected(s) = 0 => Into({"crit"}, a) = {}
    BY <1>6, FS_EmptySet DEF Counts
  <2> QED BY <1>7, <2>1
<1>13. /\ p.kind = "fsgn" => s = LastSub /\ Into({"fsgn"}, a) = {l}
       /\ p.kind # "fsgn" => l \notin Into({"fsgn"}, a)
  BY <1>7, <1>11
<1>14. /\ TFFinishes(p, s) => t \in init /\ t \notin done /\ next = done \cup {t}
       /\ ~TFFinishes(p, s) => next = done
       /\ ~(init \subseteq done)
  <2>1. done = {x \in {"PROC", "CRIT", "FSGN"} :
                  \/ x = "PROC" /\ r.tf_arrived = Units
                  \/ x = "CRIT" /\ r.tf_crit_arrived = crit_expected(s)
                  \/ x = "FSGN" /\ Into({"fsgn"}, a) \subseteq Got}
    BY DEF TFDoneBy
  <2>2. next = {x \in {"PROC", "CRIT", "FSGN"} :
                  \/ x = "PROC" /\ q.tf_arrived = Units
                  \/ x = "CRIT" /\ q.tf_crit_arrived = crit_expected(s)
                  \/ x = "FSGN" /\ Into({"fsgn"}, a) \subseteq G}
    BY DEF TFDoneBy
  <2>3. p.kind # "fsgn" => (Into({"fsgn"}, a) \subseteq G <=> Into({"fsgn"}, a) \subseteq Got)
    BY <1>13
  <2>4. CASE p.kind = "fwd"
    <3>1. /\ t = "PROC" /\ (TFFinishes(p, s) <=> r.tf_arrived + 1 = Units)
          /\ q.tf_arrived = r.tf_arrived + 1 /\ q.tf_crit_arrived = r.tf_crit_arrived
      BY <1>1, <2>4 DEF TFThread, TFFinishes, TFCounted
    <3> HIDE DEF t, init, done, next, r, q, G
    <3> QED BY <1>8, <1>10, <2>1, <2>2, <2>3, <2>4, <3>1
  <2>5. CASE p.kind = "crit"
    <3>1. /\ t = "CRIT" /\ (TFFinishes(p, s) <=> r.tf_crit_arrived + 1 = crit_expected(s))
          /\ q.tf_arrived = r.tf_arrived /\ q.tf_crit_arrived = r.tf_crit_arrived + 1
      BY <1>1, <2>5 DEF TFThread, TFFinishes, TFCounted
    <3> HIDE DEF t, init, done, next, r, q, G
    <3> QED BY <1>8, <1>10, <1>12, <2>1, <2>2, <2>3, <2>5, <3>1
  <2>6. CASE p.kind = "fsgn"
    <3>1. /\ t = "FSGN" /\ TFFinishes(p, s)
          /\ q.tf_arrived = r.tf_arrived /\ q.tf_crit_arrived = r.tf_crit_arrived
      BY <1>1, <2>6 DEF TFThread, TFFinishes, TFCounted
    <3>2. Into({"fsgn"}, a) \subseteq G /\ ~(Into({"fsgn"}, a) \subseteq Got) /\ s = LastSub
      BY <1>3, <1>13, <2>6
    <3> HIDE DEF t, init, done, next, r, q, G
    <3> QED BY <1>8, <1>10, <2>1, <2>2, <2>6, <3>1, <3>2
  <2> QED BY <1>1, <2>4, <2>5, <2>6
<1> HIDE DEF t, init, done, next, r, q, G
<1>15. /\ TFReports(p, s) <=> init \subseteq next
       /\ ThreadsOK(q.tf_thrds_pend, init, next)
  <2>1. /\ TFReports(p, s) <=> TFFinishes(p, s) /\ r.tf_thrds_pend = {t}
        /\ q.tf_thrds_pend = IF TFFinishes(p, s) /\ ~TFReports(p, s) THEN r.tf_thrds_pend \ {t}
                                                             ELSE r.tf_thrds_pend
    BY <1>1 DEF TFReports, TFCounted, r, t
  <2>4. ThreadsOK(r.tf_thrds_pend, init, done)
    BY <1>5 DEF r, init, done
  <2>2. CASE TFFinishes(p, s)
    <3>1. t \in init /\ t \notin done /\ next = done \cup {t}
      BY <1>14, <2>2
    <3>2. /\ r.tf_thrds_pend = {t} <=> init \subseteq done \cup {t}
          /\ r.tf_thrds_pend = {t} => ThreadsOK(r.tf_thrds_pend, init, done \cup {t})
          /\ r.tf_thrds_pend # {t} => ThreadsOK(r.tf_thrds_pend \ {t}, init, done \cup {t})
      BY <2>4, <3>1, ThreadStep
    <3> QED BY <2>1, <2>2, <3>1, <3>2
  <2>3. CASE ~TFFinishes(p, s)
    BY <1>14, <2>1, <2>3, <2>4
  <2> QED BY <2>2, <2>3
<1>16. init \subseteq next => Into({"fwd", "crit", "fsgn"}, a) \subseteq G
  <2> SUFFICES ASSUME init \subseteq next
               PROVE  Into({"fwd", "crit", "fsgn"}, a) \subseteq G
    OBVIOUS
  <2>1. Into({"fwd"}, a) \subseteq G
    <3>1. q.tf_arrived = Units
      BY <1>10 DEF next, TFDoneBy
    <3> QED BY <1>6, <1>9, <3>1, FullCount
  <2>2. Into({"crit"}, a) \subseteq G
    <3>1. CASE crit_expected(s) # 0
      <4>1. q.tf_crit_arrived = crit_expected(s)
        BY <1>10, <3>1 DEF next, TFDoneBy
      <4> QED BY <1>6, <1>9, <4>1, FullCount
    <3>2. CASE crit_expected(s) = 0
      BY <1>6, <3>2, FS_EmptySet DEF Counts
    <3> QED BY <3>1, <3>2
  <2>3. Into({"fsgn"}, a) \subseteq G
    <3>1. s = LastSub => "FSGN" \in next
      BY <1>10
    <3>2. "FSGN" \in next => Into({"fsgn"}, a) \subseteq G
      BY DEF next, TFDoneBy
    <3> QED BY <1>11, <3>1, <3>2
  <2> QED BY <2>1, <2>2, <2>3 DEF Into
<1>17. ~(init \subseteq TFThreadsDone(s))
  BY <1>14 DEF done, TFThreadsDone, TFDoneBy, r
<1> QED BY <1>2, <1>3, <1>4, <1>9, <1>15, <1>16, <1>17 DEF TFBoards, init, next, q, G

\* A step that does not end the tick keeps the invariant.
LEMMA TFStepInv ==
  ASSUME AllTimely, FlowAndMachine, NEW p \in net, NEW s \in Sub, TFStep(p, s),
         ~(TFReports(p, s) /\ IsLast(s))
  PROVE  FlowAndMachine' /\ Flow!Next
<1> DEFINE a == T(s)
           r == tc[s]
           q == tc'[s]
           l == LinkOf(p)
           m(d) == Pkt("fwd", a, d, p.u, FALSE, p.st)
           c(d) == Pkt("crit", a, d, 0, q.tf_stop_crit, p.st)
           ToW == {W(to, s) : to \in Sub}
           E == (IF p.kind = "fwd" THEN {m(d) : d \in ToW} ELSE {})
                  \cup (IF TFReports(p, s) THEN {c(d) : d \in StpRoute(s)} ELSE {})
           N == (IF p.kind = "fwd" THEN {FwdTW(to, s, p.u) : to \in Sub} ELSE {})
                  \cup (IF TFReports(p, s) THEN {CritT(s, d) : d \in StpRoute(s)} ELSE {})
<1>1. /\ p.kind \in {"fwd", "crit", "fsgn"} /\ p.dst = a /\ InTime(tc[s], p)
      /\ UNCHANGED <<wc, sc, ic>> /\ tc' = [tc EXCEPT ![s] = tc'[s]]
      /\ TFCounted(p, s, r, q)
      /\ net' = (net \ {p}) \cup E
  <2>1. TFReports(p, s) => ~IsLast(s)
    OBVIOUS
  <2> QED BY <2>1 DEF TFStep, Multicast
<1>2. /\ TFBoards(p, s, q, Got \cup {l}) /\ ~(tf_thrds_init(s) \subseteq TFThreadsDone(s))
      /\ cur[3] = F /\ In(a, F) /\ Awaits(p)
  <2>1. FlowAndMachine /\ AllTimely /\ TFStep(p, s)
    OBVIOUS
  <2> QED BY <2>1, TFBoardsStep
<1>3. /\ a \in Cores \ Behind /\ InTime(Rec(p.dst), p) /\ Place(r) = cur
      /\ p.st = CurStamp /\ p.u \in Unit /\ l \in Sent \ Got /\ l \in AllLinks
  BY <1>1, <1>2, TPacketFacts
<1>4. Rec(a) = r /\ Rec(a)' = q /\ TShape(r) /\ TCoreOK(s) /\ DOMAIN tc = Sub
  BY TFacts
<1>5. /\ F # B /\ LinksOf(cur) = ForwardLinks /\ r.phase = F /\ ~In(a, B)
  BY <1>2, <1>4, PhaseFacts DEF In
<1>6. /\ Counts(Into({"fwd"}, a), Units) /\ Counts(Into({"crit"}, a), crit_expected(s))
      /\ Counts(Into({"bkp"}, a), Units) /\ Counts(Into({"bsgn"}, a), tb_bsgn_expected(s))
  BY CountsT
<1>7. DueTable /\ ByGot /\ StpRoute(s) \subseteq Cores /\ 0 \in Unit
  BY DueByLink, ChainsByGot, RouteCores, UnitFacts
<1>8. p.kind = "fwd" => l = FwdIT(s, p.u)
  <2>1. p.kind = "fwd" => l \in IntoUnit("fwd", a, p.u)
    BY <1>1, <1>2, <1>3, InTickLink
  <2> QED BY <1>3, <2>1, IntoT
<1>9. TFReports(p, s) => s # LastSub /\ q.tf_stop_crit \in BOOLEAN
  BY <1>1 DEF IsLast, TFCounted
\* the packets sent
<1>10. ASSUME p.kind = "fwd", NEW to \in Sub
       PROVE  /\ LinkOf(m(W(to, s))) = FwdTW(to, s, p.u) /\ Sending(m(W(to, s)), a)
              /\ FwdTW(to, s, p.u) \in LinksOf(cur) \ Sent
  <2> DEFINE e == m(W(to, s))
  <2>1. /\ e.kind = "fwd" /\ e.src = a /\ e.dst = W(to, s) /\ e.u = p.u /\ e.b = FALSE
        /\ e.st = p.st /\ LinkOf(e) = Link("fwd", a, W(to, s), p.u)
        /\ e = Pkt(e.kind, e.src, e.dst, e.u, e.b, e.st)
    BY DEF Pkt, LinkOf
  <2>2. LinkOf(e) = FwdTW(to, s, p.u)
    BY <2>1 DEF FwdTW
  <2>3. Sending(e, a)
    <3> HIDE DEF e
    <3> QED BY <1>3, <2>1, CoreFacts DEF Sending
  <2>4. FwdTW(to, s, p.u) \in LinksOf(cur) /\ ~Due(FwdTW(to, s, p.u))
    BY <1>3, <1>5, <1>7, <1>8, <1>10, ForwardIntro DEF DueTable, ByGot
  <2> QED BY <2>2, <2>3, <2>4 DEF Sent
<1>11. ~(s # LastSub /\ CritWhole(s)) /\ ~TBReported(s) /\ ~Deltas(s)
  <2>1. s # LastSub /\ CritWhole(s) => tf_thrds_init(s) \subseteq TFThreadsDone(s)
    BY DEF CritWhole, TFThreadsDone, tf_thrds_init, IsLast
  <2> QED BY <1>2, <1>5, <2>1 DEF TBReported, Deltas
<1>12. ASSUME TFReports(p, s), NEW d \in StpRoute(s)
       PROVE  /\ LinkOf(c(d)) = CritT(s, d) /\ Sending(c(d), a)
              /\ CritT(s, d) \in LinksOf(cur) \ Sent
  <2> DEFINE e == c(d)
  <2>1. /\ e.kind = "crit" /\ e.src = a /\ e.dst = d /\ e.u = 0 /\ e.b = q.tf_stop_crit
        /\ e.st = p.st /\ LinkOf(e) = Link("crit", a, d, 0)
        /\ e = Pkt(e.kind, e.src, e.dst, e.u, e.b, e.st)
    BY DEF Pkt, LinkOf
  <2>2. LinkOf(e) = CritT(s, d)
    BY <2>1 DEF CritT
  <2>3. Sending(e, a)
    <3> HIDE DEF e
    <3> QED BY <1>3, <1>7, <1>9, <1>12, <2>1 DEF Sending
  <2>4. CritT(s, d) \in LinksOf(cur) /\ ~Due(CritT(s, d))
    BY <1>5, <1>7, <1>9, <1>11, <1>12, ForwardIntro DEF DueTable
  <2> QED BY <2>2, <2>3, <2>4 DEF Sent
<1>13. TickStep(a, {p}, E, N)
  <2>1. \A f \in E : Sending(f, a) /\ LinkOf(f) \in N
    BY <1>10, <1>12
  <2>2. N \subseteq LinksOf(cur) \ Sent /\ \A x \in N : \E f \in E : LinkOf(f) = x
    BY <1>10, <1>12
  <2>3. \A f, g \in E : LinkOf(f) = LinkOf(g) => f = g
    <3>1. \A f \in E : /\ f = Pkt(f.kind, f.src, f.dst, f.u, f.b, f.st)
                       /\ f.b = IF f.kind = "fwd" THEN FALSE ELSE q.tf_stop_crit
                       /\ f.st = p.st
      <4>1. ASSUME NEW d
            PROVE  /\ m(d).kind = "fwd" /\ m(d).b = FALSE /\ m(d).st = p.st
                   /\ m(d) = Pkt(m(d).kind, m(d).src, m(d).dst, m(d).u, m(d).b, m(d).st)
                   /\ c(d).kind = "crit" /\ c(d).b = q.tf_stop_crit /\ c(d).st = p.st
                   /\ c(d) = Pkt(c(d).kind, c(d).src, c(d).dst, c(d).u, c(d).b, c(d).st)
        BY DEF Pkt
      <4>2. \A f \in E : \E d : f = m(d) \/ f = c(d)
        OBVIOUS
      <4> HIDE DEF m, c, E, q
      <4> QED BY <4>1, <4>2
    <3>2. \A f, g : LinkOf(f) = LinkOf(g) => f.kind = g.kind
      BY LinkApart DEF LinkOf
    <3> HIDE DEF E
    <3> QED BY <3>1, <3>2, SameLink
  <2>4. Keeps(r, q) /\ q.advance = r.advance /\ q.tick_stop = r.tick_stop /\ q.ev_tick = r.ev_tick
    BY <1>1 DEF TFCounted
  <2> HIDE DEF E, N
  <2>5. /\ tc'[LastSub].advance = tc[LastSub].advance
        /\ tc'[LastSub].tick_stop = tc[LastSub].tick_stop
        /\ tc'[LastSub].ev_tick = tc[LastSub].ev_tick
        /\ Others(a) /\ a \notin WCores
    BY <1>1, <2>4, TOnly
  <2> QED BY <1>1, <1>2, <1>3, <1>4, <2>1, <2>2, <2>3, <2>4, <2>5 DEF TickStep
<1> HIDE DEF E
<1>14. In(a, F)' /\ ~In(a, B)' /\ Place(q) = Place(r)
  BY <1>2, <1>3, <1>4, <1>5, <1>13, PlaceStep DEF Keeps
<1>15. Taken({p}) = {l}
  BY DEF Taken
\* what has been counted
<1> DEFINE G == Got \cup {l}
<1>16. s # LastSub => (CritWhole(s)' <=> TFReports(p, s))
  <2>1. /\ TFReports(p, s) <=> tf_thrds_init(s) \subseteq TFDoneBy(s, q, G)
        /\ q.tf_crit_arrived = Cardinality(Into({"crit"}, a) \cap G)
    BY <1>2 DEF TFBoards
  <2>2. crit_expected(s) = 0 => q.tf_crit_arrived = crit_expected(s)
    <3>1. crit_expected(s) = 0 => Into({"crit"}, a) = {}
      BY <1>6, FS_EmptySet DEF Counts
    <3> QED BY <2>1, <3>1, FS_EmptySet
  <2>3. CritWhole(s)' <=> q.tf_arrived = Units /\ q.tf_crit_arrived = crit_expected(s)
    BY <1>14 DEF CritWhole
  <2>4. s # LastSub => (tf_thrds_init(s) \subseteq TFDoneBy(s, q, G)
                          <=> q.tf_arrived = Units
                                /\ (crit_expected(s) = 0 \/ q.tf_crit_arrived = crit_expected(s)))
    BY DEF tf_thrds_init, TFDoneBy, IsLast
  <2> QED BY <2>1, <2>2, <2>3, <2>4
<1>17. DueFrom(a, N)
  <2>1. ASSUME NEW u \in Unit
        PROVE  /\ Deltas(s)' <=> Deltas(s) \/ BkpTI(s, u) \in N
               /\ \A t \in Sub : NetUsed(s, u)' <=> NetUsed(s, u) \/ FwdTW(t, s, u) \in N
    <3>1. BkpTI(s, u) \notin N /\ ~Deltas(s)'
      BY <1>14, LinkTable DEF N, Deltas
    <3>2. /\ NetUsed(s, u) <=> FwdIT(s, u) \in Got
          /\ NetUsed(s, u)' <=> FwdIT(s, u) \in Got \cup Taken({p})
      BY <1>13, NetUsedStep
    <3>3. FwdIT(s, u) \in Taken({p}) <=> p.kind = "fwd" /\ u = p.u
      <4>1. FwdIT(s, u)[1] = "fwd" /\ FwdIT(s, u)[4] = u /\ FwdIT(s, p.u)[4] = p.u
        BY LinkTable
      <4>2. l[1] = p.kind
        BY LinkApart DEF LinkOf
      <4> HIDE DEF l
      <4> QED BY <1>8, <1>15, <4>1, <4>2
    <3>4. \A t \in Sub : FwdTW(t, s, u) \in N <=> p.kind = "fwd" /\ u = p.u
      BY LinkTable DEF N
    <3> HIDE DEF N
    <3> QED BY <1>11, <3>1, <3>2, <3>3, <3>4
  <2>2. ASSUME s # LastSub, NEW d \in StpRoute(s)
        PROVE  /\ CritWhole(s)' <=> CritWhole(s) \/ CritT(s, d) \in N
               /\ TBReported(s)' <=> TBReported(s) \/ BsgnT(s, d) \in N
    <3>1. BsgnT(s, d) \notin N /\ (CritT(s, d) \in N <=> TFReports(p, s))
      BY <2>2, LinkTable DEF N
    <3>2. ~TBReported(s)'
      BY <1>14 DEF TBReported
    <3> HIDE DEF N
    <3> QED BY <1>11, <1>16, <2>2, <3>1, <3>2
  <2> HIDE DEF N
  <2> QED BY <2>1, <2>2, DueFromT
<1>18. Ready({p}, N)
  <2>1. p.kind = "fwd" => \A to \in Sub : LinkDeps(FwdTW(to, s, p.u)) = {l}
    BY <1>3, <1>8, DepsTable, IntoT
  <2>2. ASSUME TFReports(p, s) PROVE \A d : LinkDeps(CritT(s, d)) \subseteq Got \cup {l}
    <3>1. Into({"fwd", "crit", "fsgn"}, a) \subseteq Got \cup {l}
      BY <1>2, <2>2 DEF TFBoards
    <3>2. \A d : LinkDeps(CritT(s, d)) = Into({"fwd", "crit"}, a)
      BY <1>7, DepsTable
    <3> QED BY <3>1, <3>2 DEF Into
  <2> QED BY <1>15, <2>1, <2>2 DEF Ready, N
<1> HIDE DEF N
<1>19. CoreOK(a)'
  <2>1. Got' = G
    BY <1>13, <1>15, <1>17, SentGot
  <2>2. /\ q.tf_arrived = GotInto("fwd", a)' /\ q.tf_crit_arrived = GotInto("crit", a)'
        /\ TFThreadsDone(s)' = TFDoneBy(s, q, G)
    BY <1>2, <2>1 DEF TFBoards, GotInto, TFThreadsDone, TFDoneBy
  <2>3. /\ ThreadsOK(q.tf_thrds_pend, tf_thrds_init(s), TFThreadsDone(s)')
        /\ s = LastSub => ~(tf_thrds_init(s) \subseteq TFThreadsDone(s)')
    BY <1>2, <1>9, <2>2 DEF TFBoards
  <2>4. /\ q.tf_thrds_pend \subseteq tf_thrds_init(s)
        /\ q.tb_thrds_pend = r.tb_thrds_pend /\ q.tb_arrived = r.tb_arrived
        /\ q.tb_bsgn_arrived = r.tb_bsgn_arrived /\ q.tb_pending = r.tb_pending
        /\ q.advance = r.advance /\ q.phase = F /\ TShape(q)
    <3>1. /\ q.tb_thrds_pend = r.tb_thrds_pend /\ q.tb_arrived = r.tb_arrived
          /\ q.tb_bsgn_arrived = r.tb_bsgn_arrived /\ q.tb_pending = r.tb_pending
          /\ q.advance = r.advance /\ q.phase = r.phase /\ TShape(q)
      BY <1>1 DEF TFCounted
    <3>2. q.tf_thrds_pend \subseteq r.tf_thrds_pend
      BY <1>1 DEF TFCounted
    <3>3. r.tf_thrds_pend \subseteq tf_thrds_init(s)
      BY <1>4 DEF TCoreOK
    <3> HIDE DEF q, r
    <3> QED BY <1>5, <3>1, <3>2, <3>3
  <2>5. TCoreOK(s)'
    BY <1>4, <1>5, <1>14, <2>2, <2>3, <2>4 DEF TCoreOK
  <2> QED BY <1>3, <2>4, <2>5, CoresApart, RecFacts DEF CoreOK
<1>20. OneOrNone({p})
  BY DEF OneOrNone
<1> HIDE DEF a
<1> QED BY <1>13, <1>17, <1>18, <1>19, <1>20, TickStepInv

TFDoneSets == {"tf_thrds_pend", "tf_stop_crit", "tf_group_crit", "tick_stop", "advance"}

\* What the end of a thread does to the record.
LEMMA TFDoneFields ==
  ASSUME NEW s, NEW q, NEW th, TFDoneSets \subseteq DOMAIN q
  PROVE  /\ DOMAIN TFDone(s, q, th) = DOMAIN q
         /\ \A f \in DOMAIN q \ TFDoneSets : TFDone(s, q, th)[f] = q[f]
         /\ TFDone(s, q, th).tf_thrds_pend = IF q.tf_thrds_pend = {th} THEN q.tf_thrds_pend
                                                                  ELSE q.tf_thrds_pend \ {th}
         /\ q.tf_thrds_pend # {th} \/ ~IsLast(s) =>
              /\ TFDone(s, q, th).tick_stop = q.tick_stop
              /\ TFDone(s, q, th).advance = q.advance
         /\ q.tf_thrds_pend = {th} /\ ~IsLast(s) => TFDone(s, q, th).tf_stop_crit = Aggregate(q)
         /\ q.tf_thrds_pend = {th} /\ IsLast(s) =>
              /\ TFDone(s, q, th).tf_stop_crit = StopDecision(q)
              /\ TFDone(s, q, th).tick_stop = StopDecision(q)
              /\ TFDone(s, q, th).advance = TRUE
<1> DEFINE x1 == [q EXCEPT !.tf_thrds_pend = @ \ {th}]
           x2 == [q EXCEPT !.tf_stop_crit = Aggregate(q)]
           x3 == [q EXCEPT !.tf_group_crit = Aggregate(q), !.tf_stop_crit = StopDecision(q),
                           !.tick_stop = StopDecision(q), !.advance = TRUE]
<1>1. CASE q.tf_thrds_pend # {th}
  <2>1. TFDone(s, q, th) = x1
    BY <1>1, Zenon DEF TFDone
  <2> QED BY <1>1, <2>1 DEF TFDoneSets
<1>2. CASE q.tf_thrds_pend = {th} /\ ~IsLast(s)
  <2>1. TFDone(s, q, th) = x2
    BY <1>2, Zenon DEF TFDone
  <2> QED BY <1>2, <2>1 DEF TFDoneSets
<1>3. CASE q.tf_thrds_pend = {th} /\ IsLast(s)
  <2>1. TFDone(s, q, th) = x3
    BY <1>3, Zenon DEF TFDone
  <2> QED BY <1>3, <2>1 DEF TFDoneSets
<1> QED BY <1>1, <1>2, <1>3

\* Verdicts are Boolean.
LEMMA Decisions ==
  ASSUME NEW r
  PROVE  Aggregate(r) \in BOOLEAN /\ StopDecision(r) \in BOOLEAN
  BY DEF Aggregate, StopDecision

\* what becomes of the record of a threshold core in FORWARD: r1 has counted p
TFCounts(p, r, r1) ==
  /\ DOMAIN r1 = DOMAIN r
  /\ \A f \in DOMAIN r \ {"t_outputs", "t_output_history", "tf_arrived", "tf_crit_arrived",
                          "tf_crit_prev", "tf_stop_crit", "tf_met"} : r1[f] = r[f]
  /\ r1.tf_arrived = IF p.kind = "fwd" THEN r.tf_arrived + 1 ELSE r.tf_arrived
  /\ r1.tf_crit_arrived = IF p.kind = "crit" THEN r.tf_crit_arrived + 1 ELSE r.tf_crit_arrived

\* The record after a packet is counted, and a thread ended if it was the last
\* one.
LEMMA TFRecord ==
  ASSUME NEW p, NEW s \in Sub, TShape(tc[s]), NEW r1, TFCounts(p, tc[s], r1), NEW q,
         q = IF TFFinishes(p, s) THEN TFDone(s, r1, TFThread(p)) ELSE r1
  PROVE  /\ TFCounted(p, s, tc[s], q)
         /\ TFReports(p, s) <=> TFFinishes(p, s) /\ r1.tf_thrds_pend = {TFThread(p)}
         /\ (IF TFFinishes(p, s) THEN TFReport(s, r1, TFThread(p)) ELSE {})
              = (IF TFReports(p, s)
                   THEN Multicast(IF IsLast(s) THEN "stop" ELSE "crit", T(s), StpRoute(s), 0,
                                  q.tf_stop_crit, Stamp(tc[s]))
                   ELSE {})
<1> DEFINE r == tc[s]
           th == TFThread(p)
           x == TFDone(s, r1, th)
<1>1. /\ r1.phase = r.phase /\ r1.tick = r.tick /\ r1.evt = r.evt /\ r1.epoch = r.epoch
      /\ r1.example_cnt = r.example_cnt /\ r1.ev_tick = r.ev_tick
      /\ r1.tb_arrived = r.tb_arrived /\ r1.tb_bsgn_arrived = r.tb_bsgn_arrived
      /\ r1.tb_thrds_pend = r.tb_thrds_pend /\ r1.tb_pending = r.tb_pending
      /\ r1.tf_thrds_pend = r.tf_thrds_pend /\ r1.tb_procs = r.tb_procs
      /\ r1.advance = r.advance /\ r1.tick_stop = r.tick_stop
      /\ \A f \in StartFields : r1[f] = r[f]
  BY DEF TFCounts, TShape, StartFields
<1>2. TFDoneSets \subseteq DOMAIN r1 /\ StartFields \subseteq DOMAIN r1
  BY DEF TFDoneSets, TFCounts, TShape
<1>3. /\ DOMAIN x = DOMAIN r1
      /\ \A f \in DOMAIN r1 \ TFDoneSets : x[f] = r1[f]
      /\ x.tf_thrds_pend = IF r1.tf_thrds_pend = {th} THEN r1.tf_thrds_pend
                                                      ELSE r1.tf_thrds_pend \ {th}
      /\ r1.tf_thrds_pend # {th} \/ ~IsLast(s) =>
           /\ x.tick_stop = r1.tick_stop
           /\ x.advance = r1.advance
      /\ r1.tf_thrds_pend = {th} /\ ~IsLast(s) => x.tf_stop_crit = Aggregate(r1)
      /\ r1.tf_thrds_pend = {th} /\ IsLast(s) =>
           /\ x.tf_stop_crit = StopDecision(r1)
           /\ x.tick_stop = StopDecision(r1)
           /\ x.advance = TRUE
  BY <1>2, TFDoneFields
<1> HIDE DEF x
<1>4. TFReports(p, s) <=> TFFinishes(p, s) /\ r1.tf_thrds_pend = {th}
  BY <1>1 DEF TFReports
<1>5. q = IF TFFinishes(p, s) THEN x ELSE r1
  BY DEF x
<1>6. /\ DOMAIN q = DOMAIN r /\ \A f \in DOMAIN r1 \ TFDoneSets : q[f] = r1[f]
      /\ q.tf_thrds_pend = IF TFFinishes(p, s) /\ ~TFReports(p, s) THEN r.tf_thrds_pend \ {th}
                                                         ELSE r.tf_thrds_pend
      /\ IF TFReports(p, s) /\ IsLast(s)
           THEN q.advance = TRUE /\ q.tick_stop = StopDecision(r1) /\ q.tf_stop_crit = StopDecision(r1)
           ELSE q.advance = r.advance /\ q.tick_stop = r.tick_stop
      /\ TFReports(p, s) => q.tf_stop_crit \in BOOLEAN
  <2>1. DOMAIN r1 = DOMAIN r
    BY DEF TFCounts
  <2> HIDE DEF r, th
  <2> QED BY <1>1, <1>3, <1>4, <1>5, <2>1, Decisions
<1>7. /\ q.phase = r.phase /\ q.ev_tick = r.ev_tick
      /\ q.tb_arrived = r.tb_arrived /\ q.tb_bsgn_arrived = r.tb_bsgn_arrived
      /\ q.tb_thrds_pend = r.tb_thrds_pend /\ q.tb_pending = r.tb_pending
      /\ q.tb_procs = r.tb_procs
      /\ q.tf_arrived = r1.tf_arrived /\ q.tf_crit_arrived = r1.tf_crit_arrived
      /\ \A f \in StartFields : q[f] = r[f]
  <2>1. {"phase", "ev_tick", "tb_arrived", "tb_bsgn_arrived", "tb_thrds_pend", "tb_pending",
         "tb_procs", "tf_arrived", "tf_crit_arrived"} \cup StartFields \subseteq DOMAIN r1 \ TFDoneSets
    BY DEF TFCounts, TShape, StartFields, TFDoneSets
  <2> HIDE DEF r
  <2> QED BY <1>1, <1>6, <2>1
<1>8. TShape(q) /\ Keeps(r, q)
  <2>1. r.tick_stop \in BOOLEAN /\ r.advance \in BOOLEAN /\ r.tb_pending \in BOOLEAN
    BY DEF TShape
  <2>2. q.tick_stop \in BOOLEAN /\ q.advance \in BOOLEAN
    BY <1>6, <2>1, Decisions
  <2>3. TShape(r) /\ \A f \in StartFields \cup {"tb_procs"} : q[f] = r[f]
    BY <1>7
  <2> HIDE DEF r
  <2> QED BY <1>6, <1>7, <2>1, <2>2, <2>3, TRecord
<1>9. TFCounted(p, s, r, q)
  <2>1. StopInRange(r, StopDecision(r1))
    BY <1>1 DEF StopInRange, StopDecision
  <2>2. /\ r1.tf_arrived = IF p.kind = "fwd" THEN r.tf_arrived + 1 ELSE r.tf_arrived
        /\ r1.tf_crit_arrived = IF p.kind = "crit" THEN r.tf_crit_arrived + 1 ELSE r.tf_crit_arrived
    BY DEF TFCounts
  <2> HIDE DEF r
  <2> QED BY <1>6, <1>7, <1>8, <2>1, <2>2 DEF TFCounted
<1>10. Stamp(r1) = Stamp(r)
  BY <1>1 DEF Stamp
<1>11. TFReports(p, s) => q.tf_stop_crit = x.tf_stop_crit
  BY <1>4, <1>5
<1> QED BY <1>4, <1>9, <1>10, <1>11 DEF TFReport, x

\* A threshold core handles a net (tf_process),
LEMMA TForwardStep ==
  ASSUME AllTimely, FlowAndMachine, NEW p \in net, TForward(p), UNCHANGED <<wc, sc, ic>>
  PROVE  p.dst[2] \in Sub /\ TFStep(p, p.dst[2])
<1> DEFINE s == p.dst[2]
           r == tc[s]
           r0 == [r EXCEPT !.t_outputs[p.u] = p.st,
                           !.t_output_history[r.tick][p.u] = IF Training THEN p.st ELSE @,
                           !.tf_arrived = @ + 1]
<1>1. PICK crit : LET r1 == std_stop_crit(r0, p.u, crit)
                      all == r1.tf_arrived = Units
                  IN /\ p.kind = "fwd" /\ p.dst[1] = "T" /\ InTime(tc[s], p)
                     /\ tc' = [tc EXCEPT ![s] = IF all THEN TFDone(s, r1, "PROC") ELSE r1]
                     /\ net' = (net \ {p})
                          \cup Multicast("fwd", T(s), {W(to, s) : to \in Sub}, p.u, FALSE, p.st)
                          \cup (IF all THEN TFReport(s, r1, "PROC") ELSE {})
  BY Zenon DEF TForward
<1> DEFINE r1 == std_stop_crit(r0, p.u, crit)
           q == IF TFFinishes(p, s) THEN TFDone(s, r1, TFThread(p)) ELSE r1
<1>2. s \in Sub /\ p.dst = T(s)
  BY <1>1, TAddress
<1>3. TShape(r) /\ DOMAIN tc = Sub
  BY <1>2, TFacts
<1>4. /\ DOMAIN r0 = DOMAIN r
      /\ \A f \in DOMAIN r \ {"t_outputs", "t_output_history", "tf_arrived"} : r0[f] = r[f]
      /\ r0.tf_arrived = r.tf_arrived + 1
  <2>1. {"t_outputs", "t_output_history", "tf_arrived"} \subseteq DOMAIN r
    BY <1>3 DEF TShape
  <2> HIDE DEF r, s
  <2> QED BY <2>1
<1>5. /\ DOMAIN r1 = DOMAIN r0 /\ \A f \in DOMAIN r0 \ {"tf_stop_crit", "tf_met"} : r1[f] = r0[f]
  <2> HIDE DEF r0
  <2> QED BY DEF std_stop_crit
<1> HIDE DEF r0, r1
<1>6. TFCounts(p, r, r1)
  <2>1. "tf_arrived" \in DOMAIN r /\ "tf_crit_arrived" \in DOMAIN r
    BY <1>3 DEF TShape
  <2> HIDE DEF r, s
  <2> QED BY <1>1, <1>4, <1>5, <2>1 DEF TFCounts
<1>7. TFThread(p) = "PROC" /\ (TFFinishes(p, s) <=> r1.tf_arrived = Units)
  BY <1>1, <1>6 DEF TFThread, TFFinishes, TFCounts
<1>8. /\ tc' = [tc EXCEPT ![s] = q]
      /\ net' = (net \ {p})
           \cup Multicast("fwd", T(s), {W(to, s) : to \in Sub}, p.u, FALSE, p.st)
           \cup (IF TFFinishes(p, s) THEN TFReport(s, r1, TFThread(p)) ELSE {})
  BY <1>1, <1>7 DEF r1
<1>9. p.st = Stamp(r)
  BY <1>1, <1>2, TPacketFacts DEF Awaits
<1>10. q = IF TFFinishes(p, s) THEN TFDone(s, r1, TFThread(p)) ELSE r1
  OBVIOUS
<1> HIDE DEF q
<1>11. tc'[s] = q /\ tc' = [tc EXCEPT ![s] = tc'[s]]
  BY <1>2, <1>3, <1>8
<1>12. /\ TFCounted(p, s, tc[s], q)
       /\ (IF TFFinishes(p, s) THEN TFReport(s, r1, TFThread(p)) ELSE {})
              = (IF TFReports(p, s)
                   THEN Multicast(IF IsLast(s) THEN "stop" ELSE "crit", T(s), StpRoute(s), 0,
                                  q.tf_stop_crit, Stamp(tc[s]))
                   ELSE {})
  <2> HIDE DEF s
  <2> QED BY <1>2, <1>3, <1>6, <1>10, TFRecord DEF r
<1>13. TFStep(p, s)
  <2> HIDE DEF s
  <2> QED BY <1>1, <1>2, <1>8, <1>9, <1>11, <1>12 DEF TFStep
<1> QED BY <1>2, <1>13

\* a criterion (t_criterion_packet),
LEMMA TCritStep ==
  ASSUME AllTimely, FlowAndMachine, NEW p \in net, TCrit(p), UNCHANGED <<wc, sc, ic>>
  PROVE  p.dst[2] \in Sub /\ TFStep(p, p.dst[2])
<1> DEFINE s == p.dst[2]
           r == tc[s]
           r1 == [tc[s] EXCEPT !.tf_crit_prev = @ /\ p.b, !.tf_crit_arrived = @ + 1]
           all == r1.tf_crit_arrived = crit_expected(s)
           q == IF TFFinishes(p, s) THEN TFDone(s, r1, TFThread(p)) ELSE r1
<1>1. /\ p.kind = "crit" /\ p.dst[1] = "T" /\ InTime(tc[s], p)
      /\ tc' = [tc EXCEPT ![s] = IF all THEN TFDone(s, r1, "CRIT") ELSE r1]
      /\ net' = (net \ {p}) \cup IF all THEN TFReport(s, r1, "CRIT") ELSE {}
  BY Zenon DEF TCrit
<1>2. s \in Sub /\ p.dst = T(s)
  BY <1>1, TAddress
<1>3. TShape(r) /\ DOMAIN tc = Sub
  BY <1>2, TFacts
<1>4. /\ DOMAIN r1 = DOMAIN r
      /\ \A f \in DOMAIN r \ {"tf_crit_prev", "tf_crit_arrived"} : r1[f] = r[f]
      /\ r1.tf_crit_arrived = r.tf_crit_arrived + 1
  <2>1. {"tf_crit_prev", "tf_crit_arrived"} \subseteq DOMAIN r
    BY <1>3 DEF TShape
  <2> HIDE DEF s
  <2> QED BY <2>1
<1> HIDE DEF r1
<1>6. TFCounts(p, r, r1)
  <2>1. "tf_arrived" \in DOMAIN r /\ "tf_crit_arrived" \in DOMAIN r
    BY <1>3 DEF TShape
  <2> HIDE DEF r, s
  <2> QED BY <1>1, <1>4, <2>1 DEF TFCounts
<1>7. TFThread(p) = "CRIT" /\ (TFFinishes(p, s) <=> r1.tf_crit_arrived = crit_expected(s))
  BY <1>1, <1>6 DEF TFThread, TFFinishes, TFCounts
<1>8. /\ tc' = [tc EXCEPT ![s] = q]
      /\ net' = (net \ {p})
           \cup (IF TFFinishes(p, s) THEN TFReport(s, r1, TFThread(p)) ELSE {})
  BY <1>1, <1>7
<1>9. p.st = Stamp(r)
  BY <1>1, <1>2, TPacketFacts DEF Awaits
<1>10. q = IF TFFinishes(p, s) THEN TFDone(s, r1, TFThread(p)) ELSE r1
  OBVIOUS
<1> HIDE DEF q
<1>11. tc'[s] = q /\ tc' = [tc EXCEPT ![s] = tc'[s]]
  BY <1>2, <1>3, <1>8
<1>12. /\ TFCounted(p, s, tc[s], q)
       /\ (IF TFFinishes(p, s) THEN TFReport(s, r1, TFThread(p)) ELSE {})
              = (IF TFReports(p, s)
                   THEN Multicast(IF IsLast(s) THEN "stop" ELSE "crit", T(s), StpRoute(s), 0,
                                  q.tf_stop_crit, Stamp(tc[s]))
                   ELSE {})
  <2> HIDE DEF s
  <2> QED BY <1>2, <1>3, <1>6, <1>10, TFRecord DEF r
<1>13. TFStep(p, s)
  <2> HIDE DEF s
  <2> QED BY <1>1, <1>2, <1>8, <1>9, <1>11, <1>12 DEF TFStep
<1> QED BY <1>2, <1>13

\* the sync generation of the FORWARD tick (t_fsgn_packet).
LEMMA TFsgnStep ==
  ASSUME AllTimely, FlowAndMachine, NEW p \in net, TFsgn(p), UNCHANGED <<wc, sc, ic>>
  PROVE  p.dst[2] \in Sub /\ TFStep(p, p.dst[2])
<1> DEFINE s == p.dst[2]
           r == tc[s]
           q == IF TFFinishes(p, s) THEN TFDone(s, r, TFThread(p)) ELSE r
<1>1. /\ p.kind = "fsgn" /\ p.dst[1] = "T" /\ InTime(tc[s], p)
      /\ tc' = [tc EXCEPT ![s] = TFDone(s, @, "FSGN")]
      /\ net' = (net \ {p}) \cup TFReport(s, tc[s], "FSGN")
  BY Zenon DEF TFsgn
<1>2. s \in Sub /\ p.dst = T(s)
  BY <1>1, TAddress
<1>3. TShape(r) /\ DOMAIN tc = Sub
  BY <1>2, TFacts
<1>6. TFCounts(p, r, r)
  BY <1>1 DEF TFCounts
<1>7. TFThread(p) = "FSGN" /\ TFFinishes(p, s)
  BY <1>1 DEF TFThread, TFFinishes
<1>8. /\ tc' = [tc EXCEPT ![s] = q]
      /\ net' = (net \ {p})
           \cup (IF TFFinishes(p, s) THEN TFReport(s, r, TFThread(p)) ELSE {})
  BY <1>1, <1>2, <1>3, <1>7
<1>9. p.st = Stamp(r)
  BY <1>1, <1>2, TPacketFacts DEF Awaits
<1>10. q = IF TFFinishes(p, s) THEN TFDone(s, r, TFThread(p)) ELSE r
  OBVIOUS
<1> HIDE DEF q
<1>11. tc'[s] = q /\ tc' = [tc EXCEPT ![s] = tc'[s]]
  BY <1>2, <1>3, <1>8
<1>12. /\ TFCounted(p, s, tc[s], q)
       /\ (IF TFFinishes(p, s) THEN TFReport(s, r, TFThread(p)) ELSE {})
              = (IF TFReports(p, s)
                   THEN Multicast(IF IsLast(s) THEN "stop" ELSE "crit", T(s), StpRoute(s), 0,
                                  q.tf_stop_crit, Stamp(tc[s]))
                   ELSE {})
  <2> HIDE DEF s
  <2> QED BY <1>2, <1>3, <1>6, <1>10, TFRecord DEF r
<1>13. TFStep(p, s)
  <2> HIDE DEF s
  <2> QED BY <1>1, <1>2, <1>8, <1>9, <1>11, <1>12 DEF TFStep
<1> QED BY <1>2, <1>13

(***************************************************************************)
(* The same in BACKPROP.                                                   *)
(***************************************************************************)
TBThread(p) == IF p.kind = "bkp" THEN "COMS" ELSE "BSGN"
TBFinishes(p, s) ==
  \/ p.kind = "bkp" /\ tc[s].tb_arrived + 1 = Units
  \/ p.kind = "bsgn" /\ tc[s].tb_bsgn_arrived + 1 = tb_bsgn_expected(s)
TBReports(p, s) == TBFinishes(p, s) /\ tc[s].tb_thrds_pend = {TBThread(p)}

TBCounted(p, s, r, q) ==
  /\ TShape(q) /\ Keeps(r, q) /\ q.phase = r.phase /\ q.ev_tick = r.ev_tick
  /\ q.tf_arrived = r.tf_arrived /\ q.tf_crit_arrived = r.tf_crit_arrived
  /\ q.tf_thrds_pend = r.tf_thrds_pend /\ q.tb_pending = r.tb_pending
  /\ q.tb_arrived = IF p.kind = "bkp" THEN r.tb_arrived + 1 ELSE r.tb_arrived
  /\ q.tb_bsgn_arrived = IF p.kind = "bsgn" THEN r.tb_bsgn_arrived + 1 ELSE r.tb_bsgn_arrived
  /\ q.tb_thrds_pend = IF TBFinishes(p, s) /\ ~TBReports(p, s) THEN r.tb_thrds_pend \ {TBThread(p)}
                                                         ELSE r.tb_thrds_pend
  /\ q.tick_stop = r.tick_stop
  /\ q.advance = IF TBReports(p, s) /\ IsLast(s) THEN TRUE ELSE r.advance

TBStep(p, s) ==
  /\ p.kind \in {"bkp", "bsgn"} /\ p.dst = T(s) /\ InTime(tc[s], p)
  /\ UNCHANGED <<wc, sc, ic>> /\ tc' = [tc EXCEPT ![s] = tc'[s]]
  /\ TBCounted(p, s, tc[s], tc'[s])
  /\ net' = (net \ {p})
       \cup (IF TBReports(p, s)
               THEN Multicast(IF IsLast(s) THEN "sync" ELSE "bsgn", T(s), StpRoute(s), 0,
                              FALSE, p.st)
               ELSE {})

TBDoneBy(s, r) ==
  (IF r.tb_arrived = Units THEN {"COMS"} ELSE {})
    \cup (IF r.tb_bsgn_arrived = tb_bsgn_expected(s) THEN {"BSGN"} ELSE {})

TBBoards(p, s, q, G) ==
  /\ q.tb_arrived = Cardinality(Into({"bkp"}, T(s)) \cap G)
  /\ q.tb_bsgn_arrived = Cardinality(Into({"bsgn"}, T(s)) \cap G)
  /\ ThreadsOK(q.tb_thrds_pend, tb_thrds_init(s), TBDoneBy(s, q))
  /\ TBReports(p, s) <=> tb_thrds_init(s) \subseteq TBDoneBy(s, q)
  /\ tb_thrds_init(s) \subseteq TBDoneBy(s, q) => Into({"bkp", "bsgn", "lds"}, T(s)) \subseteq G

\* The scoreboards have counted the packet, and the core had not ended its
\* threads.
LEMMA TBBoardsStep ==
  ASSUME AllTimely, FlowAndMachine, NEW p \in net, NEW s \in Sub, TBStep(p, s)
  PROVE  /\ TBBoards(p, s, tc'[s], Got \cup {LinkOf(p)})
         /\ ~(tb_thrds_init(s) \subseteq TBThreadsDone(s))
         /\ cur[3] = B /\ In(T(s), B) /\ Awaits(p)
<1> DEFINE a == T(s)
           r == tc[s]
           q == tc'[s]
           l == LinkOf(p)
           G == Got \cup {l}
           init == tb_thrds_init(s)
           done == TBDoneBy(s, r)
           next == TBDoneBy(s, q)
           t == TBThread(p)
<1>1. /\ p.kind \in {"bkp", "bsgn"} /\ p.dst = a /\ InTime(tc[s], p)
      /\ TBCounted(p, s, r, q)
  BY DEF TBStep
<1>2. Awaits(p)
  BY <1>1 DEF Awaits
<1>3. /\ a \in Cores \ Behind /\ InTime(Rec(p.dst), p) /\ l \notin Got /\ l \in AllLinks
      /\ In(a, cur[3]) /\ TCoreOK(s)
  BY <1>1, <1>2, TPacketFacts, TFacts
<1>4. cur[3] = B
  BY <1>1, <1>2, <1>3, InTickLink
<1>5. /\ r.tb_arrived = GotInto("bkp", a) /\ r.tb_bsgn_arrived = GotInto("bsgn", a)
      /\ ThreadsOK(r.tb_thrds_pend, init, done)
  BY <1>3, <1>4 DEF TCoreOK, TBThreadsDone, TBDoneBy
<1>6. Counts(Into({"bkp"}, a), Units) /\ Counts(Into({"bsgn"}, a), tb_bsgn_expected(s))
  BY CountsT
<1>7. l \in Into({p.kind}, a) /\ \A k : k # p.kind => l \notin Into({k}, a)
  BY <1>1, <1>2, <1>3, InTickLink, LinkApart DEF Into, LinkOf
<1>8. /\ r.tb_arrived \in Nat /\ r.tb_bsgn_arrived \in Nat
      /\ Cardinality(Into({"bkp"}, a) \cap G) = IF p.kind = "bkp" THEN r.tb_arrived + 1 ELSE r.tb_arrived
      /\ Cardinality(Into({"bsgn"}, a) \cap G)
           = IF p.kind = "bsgn" THEN r.tb_bsgn_arrived + 1 ELSE r.tb_bsgn_arrived
      /\ p.kind = "bkp" => r.tb_arrived # Units
      /\ p.kind = "bsgn" => r.tb_bsgn_arrived # tb_bsgn_expected(s)
  <2> HIDE DEF l, r, q
  <2>1. ASSUME NEW X, NEW n, Counts(X, n)
        PROVE  /\ Cardinality(X \cap Got) \in Nat
               /\ l \notin X => Cardinality(X \cap G) = Cardinality(X \cap Got)
               /\ l \in X => /\ Cardinality(X \cap G) = Cardinality(X \cap Got) + 1
                             /\ Cardinality(X \cap Got) # n
    BY <1>3, <2>1, Scoreboard
  <2> QED BY <1>5, <1>6, <1>7, <2>1 DEF GotInto
<1>9. q.tb_arrived = Cardinality(Into({"bkp"}, a) \cap G)
      /\ q.tb_bsgn_arrived = Cardinality(Into({"bsgn"}, a) \cap G)
  BY <1>1, <1>8 DEF TBCounted
<1>10. /\ "COMS" \in init /\ (tb_bsgn_expected(s) # 0 => "BSGN" \in init)
       /\ "BSGN" \in init => tb_bsgn_expected(s) # 0
       /\ init \subseteq {"COMS", "BSGN"}
  BY DEF tb_thrds_init
<1>12. p.kind = "bsgn" => tb_bsgn_expected(s) # 0
  <2>1. tb_bsgn_expected(s) = 0 => Into({"bsgn"}, a) = {}
    BY <1>6, FS_EmptySet DEF Counts
  <2> QED BY <1>7, <2>1
<1>14. /\ TBFinishes(p, s) => t \in init /\ t \notin done /\ next = done \cup {t}
       /\ ~TBFinishes(p, s) => next = done
       /\ ~(init \subseteq done)
  <2>1. done = {x \in {"COMS", "BSGN"} :
                  \/ x = "COMS" /\ r.tb_arrived = Units
                  \/ x = "BSGN" /\ r.tb_bsgn_arrived = tb_bsgn_expected(s)}
    BY DEF TBDoneBy
  <2>2. next = {x \in {"COMS", "BSGN"} :
                  \/ x = "COMS" /\ q.tb_arrived = Units
                  \/ x = "BSGN" /\ q.tb_bsgn_arrived = tb_bsgn_expected(s)}
    BY DEF TBDoneBy
  <2>4. CASE p.kind = "bkp"
    <3>1. /\ t = "COMS" /\ (TBFinishes(p, s) <=> r.tb_arrived + 1 = Units)
          /\ q.tb_arrived = r.tb_arrived + 1 /\ q.tb_bsgn_arrived = r.tb_bsgn_arrived
      BY <1>1, <2>4 DEF TBThread, TBFinishes, TBCounted
    <3> HIDE DEF t, init, done, next, r, q, G
    <3> QED BY <1>8, <1>10, <2>1, <2>2, <2>4, <3>1
  <2>5. CASE p.kind = "bsgn"
    <3>1. /\ t = "BSGN" /\ (TBFinishes(p, s) <=> r.tb_bsgn_arrived + 1 = tb_bsgn_expected(s))
          /\ q.tb_arrived = r.tb_arrived /\ q.tb_bsgn_arrived = r.tb_bsgn_arrived + 1
      BY <1>1, <2>5 DEF TBThread, TBFinishes, TBCounted
    <3> HIDE DEF t, init, done, next, r, q, G
    <3> QED BY <1>8, <1>10, <1>12, <2>1, <2>2, <2>5, <3>1
  <2> QED BY <1>1, <2>4, <2>5
<1> HIDE DEF t, init, done, next, r, q, G
<1>15. /\ TBReports(p, s) <=> init \subseteq next
       /\ ThreadsOK(q.tb_thrds_pend, init, next)
  <2>1. /\ TBReports(p, s) <=> TBFinishes(p, s) /\ r.tb_thrds_pend = {t}
        /\ q.tb_thrds_pend = IF TBFinishes(p, s) /\ ~TBReports(p, s) THEN r.tb_thrds_pend \ {t}
                                                             ELSE r.tb_thrds_pend
    BY <1>1 DEF TBReports, TBCounted, r, t
  <2>4. ThreadsOK(r.tb_thrds_pend, init, done)
    BY <1>5 DEF r, init, done
  <2>2. CASE TBFinishes(p, s)
    <3>1. t \in init /\ t \notin done /\ next = done \cup {t}
      BY <1>14, <2>2
    <3>2. /\ r.tb_thrds_pend = {t} <=> init \subseteq done \cup {t}
          /\ r.tb_thrds_pend = {t} => ThreadsOK(r.tb_thrds_pend, init, done \cup {t})
          /\ r.tb_thrds_pend # {t} => ThreadsOK(r.tb_thrds_pend \ {t}, init, done \cup {t})
      BY <2>4, <3>1, ThreadStep
    <3> QED BY <2>1, <2>2, <3>1, <3>2
  <2>3. CASE ~TBFinishes(p, s)
    BY <1>14, <2>1, <2>3, <2>4
  <2> QED BY <2>2, <2>3
<1>16. init \subseteq next => Into({"bkp", "bsgn", "lds"}, a) \subseteq G
  <2> SUFFICES ASSUME init \subseteq next
               PROVE  Into({"bkp", "bsgn", "lds"}, a) \subseteq G
    OBVIOUS
  <2>1. Into({"bkp"}, a) \subseteq G
    <3>1. q.tb_arrived = Units
      BY <1>10 DEF next, TBDoneBy
    <3> QED BY <1>6, <1>9, <3>1, FullCount
  <2>2. Into({"bsgn"}, a) \subseteq G
    <3>1. CASE tb_bsgn_expected(s) # 0
      <4>1. q.tb_bsgn_arrived = tb_bsgn_expected(s)
        BY <1>10, <3>1 DEF next, TBDoneBy
      <4> QED BY <1>6, <1>9, <4>1, FullCount
    <3>2. CASE tb_bsgn_expected(s) = 0
      BY <1>6, <3>2, FS_EmptySet DEF Counts
    <3> QED BY <3>1, <3>2
  <2>3. Into({"lds"}, a) = {}
    BY IntoT
  <2> QED BY <2>1, <2>2, <2>3 DEF Into
<1>17. ~(init \subseteq TBThreadsDone(s))
  BY <1>14 DEF done, TBThreadsDone, TBDoneBy, r
<1> QED BY <1>2, <1>3, <1>4, <1>9, <1>15, <1>16, <1>17 DEF TBBoards, init, next, q, G

\* A step that does not end the tick keeps the invariant.
LEMMA TBStepInv ==
  ASSUME AllTimely, FlowAndMachine, NEW p \in net, NEW s \in Sub, TBStep(p, s),
         ~(TBReports(p, s) /\ IsLast(s))
  PROVE  FlowAndMachine' /\ Flow!Next
<1> DEFINE a == T(s)
           r == tc[s]
           q == tc'[s]
           l == LinkOf(p)
           c(d) == Pkt("bsgn", a, d, 0, FALSE, p.st)
           E == IF TBReports(p, s) THEN {c(d) : d \in StpRoute(s)} ELSE {}
           N == IF TBReports(p, s) THEN {BsgnT(s, d) : d \in StpRoute(s)} ELSE {}
<1>1. /\ p.kind \in {"bkp", "bsgn"} /\ p.dst = a /\ InTime(tc[s], p)
      /\ UNCHANGED <<wc, sc, ic>> /\ tc' = [tc EXCEPT ![s] = tc'[s]]
      /\ TBCounted(p, s, r, q)
      /\ net' = (net \ {p}) \cup E
  <2>1. TBReports(p, s) => ~IsLast(s)
    OBVIOUS
  <2> QED BY <2>1 DEF TBStep, Multicast
<1>2. /\ TBBoards(p, s, q, Got \cup {l}) /\ ~(tb_thrds_init(s) \subseteq TBThreadsDone(s))
      /\ cur[3] = B /\ In(a, B) /\ Awaits(p)
  <2>1. FlowAndMachine /\ AllTimely /\ TBStep(p, s)
    OBVIOUS
  <2> QED BY <2>1, TBBoardsStep
<1>3. /\ a \in Cores \ Behind /\ InTime(Rec(p.dst), p) /\ Place(r) = cur
      /\ p.st = CurStamp /\ p.u \in Unit /\ l \in Sent \ Got /\ l \in AllLinks
  BY <1>1, <1>2, TPacketFacts
<1>4. Rec(a) = r /\ Rec(a)' = q /\ TShape(r) /\ TCoreOK(s) /\ DOMAIN tc = Sub
  BY TFacts
<1>5. /\ F # B /\ r.phase = B /\ ~In(a, F)
      /\ LinksOf(cur) = BackpropLinks \cup IF DeltasSummed(cur) THEN DeltaSumLinks ELSE {}
  BY <1>2, <1>4, PhaseFacts DEF In
<1>7. DueTable /\ StpRoute(s) \subseteq Cores /\ 0 \in Unit
  BY DueByLink, RouteCores, UnitFacts
<1>8. Counts(Into({"bkp"}, a), Units) /\ Counts(Into({"bsgn"}, a), tb_bsgn_expected(s))
  BY CountsT
<1>9. TBReports(p, s) => s # LastSub
  BY <1>1 DEF IsLast
<1>11. ~TBReported(s) /\ ~CritWhole(s)
  <2>1. TBReported(s) => tb_thrds_init(s) \subseteq TBThreadsDone(s)
    BY DEF TBReported, TBThreadsDone, tb_thrds_init
  <2> QED BY <1>2, <1>5, <2>1 DEF CritWhole
<1>12. ASSUME TBReports(p, s), NEW d \in StpRoute(s)
       PROVE  /\ LinkOf(c(d)) = BsgnT(s, d) /\ Sending(c(d), a)
              /\ BsgnT(s, d) \in LinksOf(cur) \ Sent
  <2> DEFINE e == c(d)
  <2>1. /\ e.kind = "bsgn" /\ e.src = a /\ e.dst = d /\ e.u = 0 /\ e.b = FALSE
        /\ e.st = p.st /\ LinkOf(e) = Link("bsgn", a, d, 0)
        /\ e = Pkt(e.kind, e.src, e.dst, e.u, e.b, e.st)
    BY DEF Pkt, LinkOf
  <2>2. LinkOf(e) = BsgnT(s, d)
    BY <2>1 DEF BsgnT
  <2>3. Sending(e, a)
    <3> HIDE DEF e
    <3> QED BY <1>3, <1>7, <1>9, <1>12, <2>1 DEF Sending
  <2>4. BsgnT(s, d) \in LinksOf(cur) /\ ~Due(BsgnT(s, d))
    BY <1>5, <1>7, <1>9, <1>11, <1>12, BackpropIntro DEF DueTable
  <2> QED BY <2>2, <2>3, <2>4 DEF Sent
<1>13. TickStep(a, {p}, E, N)
  <2>1. \A f \in E : Sending(f, a) /\ LinkOf(f) \in N
    BY <1>12
  <2>2. N \subseteq LinksOf(cur) \ Sent /\ \A x \in N : \E f \in E : LinkOf(f) = x
    BY <1>12
  <2>3. \A f, g \in E : LinkOf(f) = LinkOf(g) => f = g
    <3>1. \A f \in E : /\ f = Pkt(f.kind, f.src, f.dst, f.u, f.b, f.st)
                       /\ f.b = FALSE /\ f.st = p.st
      BY DEF Pkt
    <3> HIDE DEF E
    <3> QED BY <3>1, SameLink
  <2>4. Keeps(r, q) /\ q.advance = r.advance /\ q.tick_stop = r.tick_stop /\ q.ev_tick = r.ev_tick
    BY <1>1 DEF TBCounted
  <2> HIDE DEF E, N
  <2>5. /\ tc'[LastSub].advance = tc[LastSub].advance
        /\ tc'[LastSub].tick_stop = tc[LastSub].tick_stop
        /\ tc'[LastSub].ev_tick = tc[LastSub].ev_tick
        /\ Others(a) /\ a \notin WCores
    BY <1>1, <2>4, TOnly
  <2> QED BY <1>1, <1>2, <1>3, <1>4, <2>1, <2>2, <2>3, <2>4, <2>5 DEF TickStep
<1> HIDE DEF E
<1>14. In(a, B)' /\ ~In(a, F)' /\ Place(q) = Place(r)
  BY <1>2, <1>3, <1>4, <1>5, <1>13, PlaceStep DEF Keeps
<1>15. Taken({p}) = {l}
  BY DEF Taken
<1> DEFINE G == Got \cup {l}
<1>16. s # LastSub => (TBReported(s)' <=> TBReports(p, s))
  <2>1. /\ TBReports(p, s) <=> tb_thrds_init(s) \subseteq TBDoneBy(s, q)
        /\ q.tb_bsgn_arrived = Cardinality(Into({"bsgn"}, a) \cap G)
    BY <1>2 DEF TBBoards
  <2>2. tb_bsgn_expected(s) = 0 => q.tb_bsgn_arrived = tb_bsgn_expected(s)
    <3>1. tb_bsgn_expected(s) = 0 => Into({"bsgn"}, a) = {}
      BY <1>8, FS_EmptySet DEF Counts
    <3> QED BY <2>1, <3>1, FS_EmptySet
  <2>3. TBReported(s)' <=> q.tb_arrived = Units /\ q.tb_bsgn_arrived = tb_bsgn_expected(s)
    BY <1>14 DEF TBReported
  <2>4. tb_thrds_init(s) \subseteq TBDoneBy(s, q)
          <=> /\ q.tb_arrived = Units
              /\ tb_bsgn_expected(s) = 0 \/ q.tb_bsgn_arrived = tb_bsgn_expected(s)
    BY DEF tb_thrds_init, TBDoneBy
  <2> QED BY <2>1, <2>2, <2>3, <2>4
<1>17. DueFrom(a, N)
  <2>1. ASSUME NEW u \in Unit
        PROVE  /\ Deltas(s)' <=> Deltas(s) \/ BkpTI(s, u) \in N
               /\ \A t \in Sub : NetUsed(s, u)' <=> NetUsed(s, u) \/ FwdTW(t, s, u) \in N
    <3>1. BkpTI(s, u) \notin N /\ \A t \in Sub : FwdTW(t, s, u) \notin N
      BY LinkTable DEF N
    <3>2. Deltas(s)' <=> Deltas(s)
      <4>1. q.tb_pending = r.tb_pending
        BY <1>1 DEF TBCounted
      <4> QED BY <1>2, <1>14, <4>1 DEF Deltas
    <3>3. /\ NetUsed(s, u) <=> FwdIT(s, u) \in Got
          /\ NetUsed(s, u)' <=> FwdIT(s, u) \in Got \cup Taken({p})
      BY <1>13, NetUsedStep
    <3>4. FwdIT(s, u) # l
      <4>1. FwdIT(s, u)[1] = "fwd" /\ l[1] = p.kind
        BY LinkTable, LinkApart DEF LinkOf
      <4> HIDE DEF l
      <4> QED BY <1>1, <4>1
    <3> HIDE DEF N, l
    <3> QED BY <1>15, <3>1, <3>2, <3>3, <3>4
  <2>2. ASSUME s # LastSub, NEW d \in StpRoute(s)
        PROVE  /\ CritWhole(s)' <=> CritWhole(s) \/ CritT(s, d) \in N
               /\ TBReported(s)' <=> TBReported(s) \/ BsgnT(s, d) \in N
    <3>1. CritT(s, d) \notin N /\ (BsgnT(s, d) \in N <=> TBReports(p, s))
      BY <2>2, LinkTable DEF N
    <3>2. ~CritWhole(s)'
      BY <1>14 DEF CritWhole
    <3> HIDE DEF N
    <3> QED BY <1>11, <1>16, <2>2, <3>1, <3>2
  <2> HIDE DEF N
  <2> QED BY <2>1, <2>2, DueFromT
<1>18. Ready({p}, N)
  <2>2. ASSUME TBReports(p, s) PROVE \A d : LinkDeps(BsgnT(s, d)) \subseteq Got \cup {l}
    <3>1. Into({"bkp", "bsgn", "lds"}, a) \subseteq Got \cup {l}
      BY <1>2, <2>2 DEF TBBoards
    <3>2. \A d : LinkDeps(BsgnT(s, d)) = Into({"bkp", "bsgn", "lds"}, a)
      BY <1>7, DepsTable
    <3> QED BY <3>1, <3>2
  <2> QED BY <1>15, <2>2 DEF Ready, N
<1> HIDE DEF N
<1>19. CoreOK(a)'
  <2>1. Got' = G
    BY <1>13, <1>15, <1>17, SentGot
  <2>2. /\ q.tb_arrived = GotInto("bkp", a)' /\ q.tb_bsgn_arrived = GotInto("bsgn", a)'
        /\ TBThreadsDone(s)' = TBDoneBy(s, q)
    BY <1>2, <2>1 DEF TBBoards, GotInto, TBThreadsDone, TBDoneBy
  <2>3. /\ ThreadsOK(q.tb_thrds_pend, tb_thrds_init(s), TBThreadsDone(s)')
        /\ s = LastSub => ~(tb_thrds_init(s) \subseteq TBThreadsDone(s)')
    BY <1>2, <1>9, <2>2 DEF TBBoards
  <2>4. /\ q.tb_thrds_pend \subseteq tb_thrds_init(s)
        /\ q.tf_thrds_pend = r.tf_thrds_pend /\ q.tf_arrived = r.tf_arrived
        /\ q.tf_crit_arrived = r.tf_crit_arrived /\ q.tb_pending = r.tb_pending
        /\ q.advance = r.advance /\ q.phase = B /\ TShape(q)
    <3>1. /\ q.tf_thrds_pend = r.tf_thrds_pend /\ q.tf_arrived = r.tf_arrived
          /\ q.tf_crit_arrived = r.tf_crit_arrived /\ q.tb_pending = r.tb_pending
          /\ q.advance = r.advance /\ q.phase = r.phase /\ TShape(q)
      BY <1>1 DEF TBCounted
    <3>2. q.tb_thrds_pend \subseteq r.tb_thrds_pend
      BY <1>1 DEF TBCounted
    <3>3. r.tb_thrds_pend \subseteq tb_thrds_init(s)
      BY <1>4 DEF TCoreOK
    <3> HIDE DEF q, r
    <3> QED BY <1>5, <3>1, <3>2, <3>3
  <2>5. TCoreOK(s)'
    BY <1>4, <1>5, <1>14, <2>2, <2>3, <2>4 DEF TCoreOK
  <2> QED BY <1>3, <2>4, <2>5, CoresApart, RecFacts DEF CoreOK
<1>20. OneOrNone({p})
  BY DEF OneOrNone
<1> HIDE DEF a
<1> QED BY <1>13, <1>17, <1>18, <1>19, <1>20, TickStepInv

\* What the end of a thread does to the record.
LEMMA TBDoneFields ==
  ASSUME NEW s, NEW q, NEW th, {"tb_thrds_pend", "advance"} \subseteq DOMAIN q
  PROVE  /\ DOMAIN TBDone(s, q, th) = DOMAIN q
         /\ \A f \in DOMAIN q \ {"tb_thrds_pend", "advance"} : TBDone(s, q, th)[f] = q[f]
         /\ TBDone(s, q, th).tb_thrds_pend = IF q.tb_thrds_pend = {th} THEN q.tb_thrds_pend
                                                                  ELSE q.tb_thrds_pend \ {th}
         /\ q.tb_thrds_pend = {th} /\ IsLast(s) => TBDone(s, q, th).advance = TRUE
         /\ ~(q.tb_thrds_pend = {th} /\ IsLast(s)) => TBDone(s, q, th).advance = q.advance
<1> DEFINE x1 == [q EXCEPT !.tb_thrds_pend = @ \ {th}]
           x3 == [q EXCEPT !.advance = TRUE]
<1>1. CASE q.tb_thrds_pend # {th}
  <2>1. TBDone(s, q, th) = x1
    BY <1>1, Zenon DEF TBDone
  <2> QED BY <1>1, <2>1
<1>2. CASE q.tb_thrds_pend = {th} /\ ~IsLast(s)
  <2>1. TBDone(s, q, th) = q
    BY <1>2, Zenon DEF TBDone
  <2> QED BY <1>2, <2>1
<1>3. CASE q.tb_thrds_pend = {th} /\ IsLast(s)
  <2>1. TBDone(s, q, th) = x3
    BY <1>3, Zenon DEF TBDone
  <2> QED BY <1>3, <2>1
<1> QED BY <1>1, <1>2, <1>3

\* what becomes of the record of a threshold core in BACKPROP: r1 has counted p
TBCounts(p, r, r1) ==
  /\ DOMAIN r1 = DOMAIN r
  /\ \A f \in DOMAIN r \ {"t_errors", "tb_arrived", "tb_bsgn_arrived"} : r1[f] = r[f]
  /\ r1.tb_arrived = IF p.kind = "bkp" THEN r.tb_arrived + 1 ELSE r.tb_arrived
  /\ r1.tb_bsgn_arrived = IF p.kind = "bsgn" THEN r.tb_bsgn_arrived + 1 ELSE r.tb_bsgn_arrived

\* The record after a packet is counted, and a thread ended if it was the last
\* one.
LEMMA TBRecord ==
  ASSUME NEW p, NEW s \in Sub, TShape(tc[s]), NEW r1, TBCounts(p, tc[s], r1), NEW q,
         q = IF TBFinishes(p, s) THEN TBDone(s, r1, TBThread(p)) ELSE r1
  PROVE  /\ TBCounted(p, s, tc[s], q)
         /\ (IF TBFinishes(p, s) THEN TBReport(s, r1, TBThread(p)) ELSE {})
              = (IF TBReports(p, s)
                   THEN Multicast(IF IsLast(s) THEN "sync" ELSE "bsgn", T(s), StpRoute(s), 0,
                                  FALSE, Stamp(tc[s]))
                   ELSE {})
<1> DEFINE r == tc[s]
           th == TBThread(p)
           x == TBDone(s, r1, th)
<1>1. /\ r1.phase = r.phase /\ r1.tick = r.tick /\ r1.evt = r.evt /\ r1.epoch = r.epoch
      /\ r1.example_cnt = r.example_cnt /\ r1.ev_tick = r.ev_tick
      /\ r1.tf_arrived = r.tf_arrived /\ r1.tf_crit_arrived = r.tf_crit_arrived
      /\ r1.tf_thrds_pend = r.tf_thrds_pend /\ r1.tb_pending = r.tb_pending
      /\ r1.tb_thrds_pend = r.tb_thrds_pend /\ r1.tb_procs = r.tb_procs
      /\ r1.advance = r.advance /\ r1.tick_stop = r.tick_stop
      /\ \A f \in StartFields : r1[f] = r[f]
  BY DEF TBCounts, TShape, StartFields
<1>2. {"tb_thrds_pend", "advance"} \subseteq DOMAIN r1
  BY DEF TBCounts, TShape
<1>3. /\ DOMAIN x = DOMAIN r1
      /\ \A f \in DOMAIN r1 \ {"tb_thrds_pend", "advance"} : x[f] = r1[f]
      /\ x.tb_thrds_pend = IF r1.tb_thrds_pend = {th} THEN r1.tb_thrds_pend
                                                      ELSE r1.tb_thrds_pend \ {th}
      /\ r1.tb_thrds_pend = {th} /\ IsLast(s) => x.advance = TRUE
      /\ ~(r1.tb_thrds_pend = {th} /\ IsLast(s)) => x.advance = r1.advance
  BY <1>2, TBDoneFields
<1> HIDE DEF x
<1>4. TBReports(p, s) <=> TBFinishes(p, s) /\ r1.tb_thrds_pend = {th}
  BY <1>1 DEF TBReports
<1>5. q = IF TBFinishes(p, s) THEN x ELSE r1
  BY DEF x
<1>6. /\ DOMAIN q = DOMAIN r /\ \A f \in DOMAIN r1 \ {"tb_thrds_pend", "advance"} : q[f] = r1[f]
      /\ q.tb_thrds_pend = IF TBFinishes(p, s) /\ ~TBReports(p, s) THEN r.tb_thrds_pend \ {th}
                                                         ELSE r.tb_thrds_pend
      /\ q.advance = IF TBReports(p, s) /\ IsLast(s) THEN TRUE ELSE r.advance
  <2>1. DOMAIN r1 = DOMAIN r
    BY DEF TBCounts
  <2> HIDE DEF r, th
  <2> QED BY <1>1, <1>3, <1>4, <1>5, <2>1
<1>7. /\ q.phase = r.phase /\ q.ev_tick = r.ev_tick
      /\ q.tf_arrived = r.tf_arrived /\ q.tf_crit_arrived = r.tf_crit_arrived
      /\ q.tf_thrds_pend = r.tf_thrds_pend /\ q.tb_pending = r.tb_pending
      /\ q.tb_procs = r.tb_procs /\ q.tick_stop = r.tick_stop
      /\ q.tb_arrived = r1.tb_arrived /\ q.tb_bsgn_arrived = r1.tb_bsgn_arrived
      /\ \A f \in StartFields : q[f] = r[f]
  <2>1. {"phase", "ev_tick", "tb_arrived", "tb_bsgn_arrived", "tf_thrds_pend", "tb_pending",
         "tb_procs", "tf_arrived", "tf_crit_arrived", "tick_stop"} \cup StartFields
           \subseteq DOMAIN r1 \ {"tb_thrds_pend", "advance"}
    BY DEF TBCounts, TShape, StartFields
  <2> HIDE DEF r
  <2> QED BY <1>1, <1>6, <2>1
<1>8. TShape(q) /\ Keeps(r, q)
  <2>1. r.tick_stop \in BOOLEAN /\ r.advance \in BOOLEAN /\ r.tb_pending \in BOOLEAN
    BY DEF TShape
  <2>2. q.tick_stop \in BOOLEAN /\ q.advance \in BOOLEAN
    BY <1>6, <1>7, <2>1
  <2>3. TShape(r) /\ \A f \in StartFields \cup {"tb_procs"} : q[f] = r[f]
    BY <1>7
  <2> HIDE DEF r
  <2> QED BY <1>6, <1>7, <2>1, <2>2, <2>3, TRecord
<1>9. TBCounted(p, s, r, q)
  <2>2. /\ r1.tb_arrived = IF p.kind = "bkp" THEN r.tb_arrived + 1 ELSE r.tb_arrived
        /\ r1.tb_bsgn_arrived = IF p.kind = "bsgn" THEN r.tb_bsgn_arrived + 1 ELSE r.tb_bsgn_arrived
    BY DEF TBCounts
  <2> HIDE DEF r
  <2> QED BY <1>6, <1>7, <1>8, <2>2 DEF TBCounted
<1>10. Stamp(r1) = Stamp(r)
  BY <1>1 DEF Stamp
<1> QED BY <1>4, <1>9, <1>10 DEF TBReport

\* A threshold core handles an error (tb_process),
LEMMA TErrorStep ==
  ASSUME AllTimely, FlowAndMachine, NEW p \in net, TError(p), UNCHANGED <<wc, sc, ic>>
  PROVE  p.dst[2] \in Sub /\ TBStep(p, p.dst[2])
<1> DEFINE s == p.dst[2]
           r == tc[s]
           r1 == [r EXCEPT !.t_errors[tb_comms(r)][p.u] = p.st, !.tb_arrived = @ + 1]
           all == r1.tb_arrived = Units
           q == IF TBFinishes(p, s) THEN TBDone(s, r1, TBThread(p)) ELSE r1
<1>1. /\ p.kind = "bkp" /\ p.dst[1] = "T" /\ InTime(tc[s], p)
      /\ tc' = [tc EXCEPT ![s] = IF all THEN TBDone(s, r1, "COMS") ELSE r1]
      /\ net' = (net \ {p}) \cup IF all THEN TBReport(s, r1, "COMS") ELSE {}
  BY Zenon DEF TError
<1>2. s \in Sub /\ p.dst = T(s)
  BY <1>1, TAddress
<1>3. TShape(r) /\ DOMAIN tc = Sub
  BY <1>2, TFacts
<1>4. /\ DOMAIN r1 = DOMAIN r
      /\ \A f \in DOMAIN r \ {"t_errors", "tb_arrived"} : r1[f] = r[f]
      /\ r1.tb_arrived = r.tb_arrived + 1
  <2>1. {"t_errors", "tb_arrived"} \subseteq DOMAIN r
    BY <1>3 DEF TShape
  <2> HIDE DEF r, s
  <2> QED BY <2>1
<1> HIDE DEF r1
<1>6. TBCounts(p, r, r1)
  <2>1. "tb_arrived" \in DOMAIN r /\ "tb_bsgn_arrived" \in DOMAIN r
    BY <1>3 DEF TShape
  <2> HIDE DEF r, s
  <2> QED BY <1>1, <1>4, <2>1 DEF TBCounts
<1>7. TBThread(p) = "COMS" /\ (TBFinishes(p, s) <=> r1.tb_arrived = Units)
  BY <1>1, <1>6 DEF TBThread, TBFinishes, TBCounts
<1>8. /\ tc' = [tc EXCEPT ![s] = q]
      /\ net' = (net \ {p})
           \cup (IF TBFinishes(p, s) THEN TBReport(s, r1, TBThread(p)) ELSE {})
  BY <1>1, <1>7
<1>9. p.st = Stamp(r)
  BY <1>1, <1>2, TPacketFacts DEF Awaits
<1>10. q = IF TBFinishes(p, s) THEN TBDone(s, r1, TBThread(p)) ELSE r1
  OBVIOUS
<1> HIDE DEF q
<1>11. tc'[s] = q /\ tc' = [tc EXCEPT ![s] = tc'[s]]
  BY <1>2, <1>3, <1>8
<1>12. /\ TBCounted(p, s, tc[s], q)
       /\ (IF TBFinishes(p, s) THEN TBReport(s, r1, TBThread(p)) ELSE {})
              = (IF TBReports(p, s)
                   THEN Multicast(IF IsLast(s) THEN "sync" ELSE "bsgn", T(s), StpRoute(s), 0,
                                  FALSE, Stamp(tc[s]))
                   ELSE {})
  <2> HIDE DEF s
  <2> QED BY <1>2, <1>3, <1>6, <1>10, TBRecord DEF r
<1>13. TBStep(p, s)
  <2> HIDE DEF s
  <2> QED BY <1>1, <1>2, <1>8, <1>9, <1>11, <1>12 DEF TBStep
<1> QED BY <1>2, <1>13

\* the sync generation of the BACKPROP tick (t_bsgn_packet).
LEMMA TBsgnStep ==
  ASSUME AllTimely, FlowAndMachine, NEW p \in net, TBsgn(p), UNCHANGED <<wc, sc, ic>>
  PROVE  p.dst[2] \in Sub /\ TBStep(p, p.dst[2])
<1> DEFINE s == p.dst[2]
           r == tc[s]
           r1 == [tc[s] EXCEPT !.tb_bsgn_arrived = @ + 1]
           all == r1.tb_bsgn_arrived = tb_bsgn_expected(s)
           q == IF TBFinishes(p, s) THEN TBDone(s, r1, TBThread(p)) ELSE r1
<1>1. /\ p.kind = "bsgn" /\ p.dst[1] = "T" /\ InTime(tc[s], p)
      /\ tc' = [tc EXCEPT ![s] = IF all THEN TBDone(s, r1, "BSGN") ELSE r1]
      /\ net' = (net \ {p}) \cup IF all THEN TBReport(s, r1, "BSGN") ELSE {}
  BY Zenon DEF TBsgn
<1>2. s \in Sub /\ p.dst = T(s)
  BY <1>1, TAddress
<1>3. TShape(r) /\ DOMAIN tc = Sub
  BY <1>2, TFacts
<1>4. /\ DOMAIN r1 = DOMAIN r
      /\ \A f \in DOMAIN r \ {"tb_bsgn_arrived"} : r1[f] = r[f]
      /\ r1.tb_bsgn_arrived = r.tb_bsgn_arrived + 1
  <2>1. "tb_bsgn_arrived" \in DOMAIN r
    BY <1>3 DEF TShape
  <2> HIDE DEF s
  <2> QED BY <2>1
<1> HIDE DEF r1
<1>6. TBCounts(p, r, r1)
  <2>1. "tb_arrived" \in DOMAIN r /\ "tb_bsgn_arrived" \in DOMAIN r
    BY <1>3 DEF TShape
  <2> HIDE DEF r, s
  <2> QED BY <1>1, <1>4, <2>1 DEF TBCounts
<1>7. TBThread(p) = "BSGN" /\ (TBFinishes(p, s) <=> r1.tb_bsgn_arrived = tb_bsgn_expected(s))
  BY <1>1, <1>6 DEF TBThread, TBFinishes, TBCounts
<1>8. /\ tc' = [tc EXCEPT ![s] = q]
      /\ net' = (net \ {p})
           \cup (IF TBFinishes(p, s) THEN TBReport(s, r1, TBThread(p)) ELSE {})
  BY <1>1, <1>7
<1>9. p.st = Stamp(r)
  BY <1>1, <1>2, TPacketFacts DEF Awaits
<1>10. q = IF TBFinishes(p, s) THEN TBDone(s, r1, TBThread(p)) ELSE r1
  OBVIOUS
<1> HIDE DEF q
<1>11. tc'[s] = q /\ tc' = [tc EXCEPT ![s] = tc'[s]]
  BY <1>2, <1>3, <1>8
<1>12. /\ TBCounted(p, s, tc[s], q)
       /\ (IF TBFinishes(p, s) THEN TBReport(s, r1, TBThread(p)) ELSE {})
              = (IF TBReports(p, s)
                   THEN Multicast(IF IsLast(s) THEN "sync" ELSE "bsgn", T(s), StpRoute(s), 0,
                                  FALSE, Stamp(tc[s]))
                   ELSE {})
  <2> HIDE DEF s
  <2> QED BY <1>2, <1>3, <1>6, <1>10, TBRecord DEF r
<1>13. TBStep(p, s)
  <2> HIDE DEF s
  <2> QED BY <1>1, <1>2, <1>8, <1>9, <1>11, <1>12 DEF TBStep
<1> QED BY <1>2, <1>13

(***************************************************************************)
(* The end of a tick.                                                      *)
(***************************************************************************)
\* the last packet of a tick: nothing else is left of the tick
LastPacket(p) ==
  /\ p \in net /\ Awaits(p) /\ p.dst = LastT /\ InTime(tc[LastSub], p)
  /\ Awaited(cur) \subseteq Got \cup {LinkOf(p)}

\* With the packet that ends the last thread of the last T, every packet of the
\* tick has been handled.
LEMMA LastPacketFacts ==
  ASSUME AllTimely, FlowAndMachine, NEW p, LastPacket(p)
  PROVE  /\ Behind = {} /\ Sent = LinksOf(cur) /\ Got \cup {LinkOf(p)} = LinksOf(cur)
         /\ p.kind # "fwd"
         /\ \A q \in net : q = p \/ (q.kind = "lds" /\ Loose(q))
         /\ Heading({"stpn"}) = {} /\ ~tc[LastSub].done
         /\ \A c \in Cores : Place(Rec(c)) = cur /\ Rec(c).phase = cur[3]
         /\ LinkOf(p) \in Sent \ Got /\ p.st = CurStamp
<1> DEFINE l == LinkOf(p)
<1>1. LastSub \in Sub /\ LastT = T(LastSub)
  BY LastSubFacts DEF LastT
<1>2. /\ LastT \in Cores \ Behind /\ l \in Sent \ Got /\ l \in AllLinks /\ p.st = CurStamp
      /\ p.u \in Unit /\ InTime(Rec(p.dst), p)
  BY <1>1, TPacketFacts DEF LastPacket
<1>3. l[3] = LastT
  BY LinkApart DEF LinkOf, LastPacket
<1>4. cur \in FlowPlaces /\ TickLinks[cur] = LinksOf(cur) /\ TickFinal[cur] = Awaited(cur)
  BY FlowFacts, LinksOfFacts DEF FlowAndMachine
<1>5. Got \cup {l} = LinksOf(cur) /\ Sent = LinksOf(cur) /\ Behind = {}
  <2>1. Flow!FlowInv
    BY DEF FlowAndMachine
  <2>2. TickFinal[Flow!cur] \subseteq Got \cup {l}
    BY <1>4 DEF LastPacket, cur
  <2> HIDE DEF l
  <2>3. Got \cup {l} = TickLinks[Flow!cur] /\ Sent = TickLinks[Flow!cur] /\ Behind = {}
    BY <1>2, <1>3, <2>1, <2>2, MachineGraph, Flow!TickComplete
  <2> QED BY <1>4, <2>3 DEF cur
<1>6. p.kind # "fwd"
  <2> SUFFICES ASSUME p.kind = "fwd" PROVE FALSE
    OBVIOUS
  <2>1. l = FwdIT(LastSub, p.u)
    <3>1. l \in IntoUnit("fwd", T(LastSub), p.u)
      BY <1>1, <1>2, InTickLink DEF LastPacket
    <3> QED BY <1>1, <1>2, <3>1, IntoT
  <2>2. cur[3] = F
    BY <1>2, InTickLink DEF LastPacket
  <2>3. FwdTW(LastSub, LastSub, p.u) \in Sent
    BY <1>1, <1>2, <1>5, <2>2, PhaseFacts, ForwardIntro
  <2>4. NetUsed(LastSub, p.u)
    BY <1>1, <1>2, <2>3, DueByLink DEF DueTable, Sent
  <2> QED BY <1>1, <1>2, <2>1, <2>4, ChainsByGot DEF ByGot
<1>7. Heading({"stpn"}) = {} /\ ~tc[LastSub].done
  BY <1>2, FlowFacts DEF FlowAndMachine
<1>8. ASSUME NEW q \in net, q # p
      PROVE  q.kind = "lds" /\ Loose(q)
  <2>1. PacketOK(q)
    BY DEF FlowAndMachine, MachineInv, NetOK
  <2>2. ~Awaits(q)
    <3> SUFFICES ASSUME Awaits(q) PROVE FALSE
      OBVIOUS
    <3>1. LinkOf(q) \in Sent /\ LinkOf(q) \notin Got
      BY <2>1 DEF PacketOK, Got, OnLink
    <3>2. LinkOf(q) = LinkOf(p)
      BY <1>5, <3>1
    <3>3. ~Loose(q)
      BY PacketKinds
    <3> QED BY <1>8, <3>2, <3>3 DEF FlowAndMachine, MachineInv, OnePacket, LastPacket
  <2>3. q.kind \notin {"stop", "sync"}
    BY <1>5 DEF Behind, Heading
  <2>4. q.kind # "stpn"
    BY <1>7 DEF Heading
  <2>5. q.kind \in DataKinds \cup ControlKinds /\ (q.kind = "lds" => q.dst[1] \in {"W", "S"})
    BY <2>1 DEF PacketOK
  <2> QED BY <2>2, <2>3, <2>4, <2>5 DEF Awaits, Loose, DataKinds, ControlKinds
<1>9. \A c \in Cores : Place(Rec(c)) = cur /\ Rec(c).phase = cur[3]
  <2>1. \A c \in Cores : Place(Rec(c)) = cur
    BY <1>5, FlowFacts DEF FlowAndMachine
  <2> QED BY <2>1 DEF Place
<1> QED BY <1>2, <1>5, <1>6, <1>7, <1>8, <1>9

\* the last T handles it: it ends the tick, and tells the others
Ending(p) ==
  LET r == tc[LastSub]
      q == tc'[LastSub] IN
  /\ UNCHANGED <<wc, sc, ic>> /\ tc' = [tc EXCEPT ![LastSub] = q]
  /\ TShape(q) /\ Keeps(r, q) /\ q.phase = r.phase /\ q.ev_tick = r.ev_tick
  /\ q.advance /\ q.tb_pending = r.tb_pending
  /\ q.tf_thrds_pend \subseteq r.tf_thrds_pend /\ q.tb_thrds_pend \subseteq r.tb_thrds_pend
  /\ r.phase = F => /\ q.tb_arrived = r.tb_arrived /\ q.tb_bsgn_arrived = r.tb_bsgn_arrived
                    /\ q.tb_thrds_pend = r.tb_thrds_pend
                    /\ StopInRange(r, q.tick_stop)
  /\ r.phase = B => /\ q.tf_arrived = r.tf_arrived /\ q.tf_crit_arrived = r.tf_crit_arrived
                    /\ q.tf_thrds_pend = r.tf_thrds_pend
                    /\ q.tick_stop = r.tick_stop
  /\ net' = (net \ {p}) \cup
       Multicast(IF r.phase = F THEN "stop" ELSE "sync", LastT, StpRoute(LastSub), 0,
                 IF r.phase = F THEN q.tick_stop ELSE FALSE, p.st)

\* Then only stop or sync packets are in the fabric, and every core is behind.
LEMMA EndNet ==
  ASSUME AllTimely, FlowAndMachine, NEW p, LastPacket(p), Ending(p)
  PROVE  /\ Behind' = Cores /\ Sent' = {} /\ Got' = {} /\ Heading({"stpn"})' = {}
         /\ NetOK' /\ OnePacket'
         /\ \A c, ph : c \in Cores => ~In(c, ph)'
         /\ \A c \in Cores : Keeps(Rec(c), Rec(c)')
<1> DEFINE r == tc[LastSub]
           q == tc'[LastSub]
           k == IF r.phase = F THEN "stop" ELSE "sync"
           b == IF r.phase = F THEN q.tick_stop ELSE FALSE
           e(d) == Pkt(k, LastT, d, 0, b, p.st)
           E == {e(d) : d \in Cores \ {LastT}}
<1>1. /\ Behind = {} /\ Sent = LinksOf(cur)
      /\ \A f \in net : f = p \/ (f.kind = "lds" /\ Loose(f))
      /\ Heading({"stpn"}) = {} /\ ~tc[LastSub].done
      /\ \A c \in Cores : Place(Rec(c)) = cur /\ Rec(c).phase = cur[3]
      /\ p.st = CurStamp
  BY LastPacketFacts
<1>2. LastSub \in Sub /\ LastT = T(LastSub) /\ LastT \in Cores
  BY LastSubFacts, CoreFacts DEF LastT
<1>3. DOMAIN tc = Sub /\ TShape(r) /\ Rec(LastT) = r /\ Rec(LastT)' = q
  BY <1>2, TFacts
<1>4. net' = (net \ {p}) \cup E
  <2>1. StpRoute(LastSub) = Cores \ {LastT}
    BY <1>2, StpRouteFacts
  <2> QED BY <2>1 DEF Ending, Multicast
<1>5. \A c \in Cores : Keeps(Rec(c), Rec(c)')
  <2>1. UNCHANGED <<wc, sc, ic>> /\ tc' = [tc EXCEPT ![LastSub] = tc'[LastSub]] /\ Keeps(r, q)
    BY DEF Ending
  <2>2. \A s \in Sub : s # LastSub => tc'[s] = tc[s]
    BY <1>3, <2>1
  <2>3. \A x : Keeps(x, x)
    BY DEF Keeps
  <2> QED BY <1>2, <1>3, <2>1, <2>2, <2>3, RecFacts, CoreKinds
<1>6. ASSUME NEW d
      PROVE  /\ e(d).kind = k /\ e(d).src = LastT /\ e(d).dst = d /\ e(d).u = 0 /\ e(d).b = b
             /\ e(d).st = p.st
             /\ e(d) = Pkt(e(d).kind, e(d).src, e(d).dst, e(d).u, e(d).b, e(d).st)
  BY DEF Pkt
<1>7. k \in {"stop", "sync"} /\ b \in BOOLEAN /\ r.phase = cur[3]
  <2>1. q.tick_stop \in BOOLEAN
    BY DEF Ending, TShape
  <2> QED BY <1>1, <1>2, <1>3, <2>1
<1> HIDE DEF e, k, b
<1>8. Heading({"stop", "sync"})' = Cores \ {LastT} /\ Heading({"stpn"})' = {}
  BY <1>1, <1>4, <1>6, <1>7 DEF Heading
<1>9. Behind' = Cores
  BY <1>2, <1>8 DEF Behind, Ending
<1>10. \A c, ph : c \in Cores => ~In(c, ph)'
  BY <1>9 DEF In
<1>11. Sent' = {} /\ Got' = {}
  <2>1. ASSUME NEW x \in AllLinks
        PROVE  ~Due(x)'
    <3>1. DueTable'
      BY DueByLink, PTL
    <3>2. \A s, t \in Sub, u \in Unit :
            /\ ~Products(W(s, t))' /\ ~NetWhole(s, u)' /\ ~NetPassed(s, u)' /\ ~NetUsed(s, u)'
            /\ ~OutputsIn(W(s, t))' /\ ~FsgnIn(s)' /\ ~CritWhole(s)' /\ ~Deltas(s)'
            /\ ~DeltaPassed(s, u)' /\ ~DeltasIn(W(s, t))' /\ ~ErrorWhole(s, u)'
            /\ ~SBReported(s)' /\ ~TBReported(s)' /\ ~DeltaUsed(s, t, u)' /\ ~LdsIn(s)'
      <4> SUFFICES ASSUME NEW s \in Sub, NEW t \in Sub, NEW u \in Unit
                   PROVE  /\ ~Products(W(s, t))' /\ ~NetWhole(s, u)' /\ ~NetPassed(s, u)' /\ ~NetUsed(s, u)'
                          /\ ~OutputsIn(W(s, t))' /\ ~FsgnIn(s)' /\ ~CritWhole(s)' /\ ~Deltas(s)'
                          /\ ~DeltaPassed(s, u)' /\ ~DeltasIn(W(s, t))' /\ ~ErrorWhole(s, u)'
                          /\ ~SBReported(s)' /\ ~TBReported(s)' /\ ~DeltaUsed(s, t, u)' /\ ~LdsIn(s)'
        OBVIOUS
      <4>1. \A ph : ~In(W(s, t), ph)' /\ ~In(S(s), ph)' /\ ~In(T(s), ph)'
        BY <1>10, CoreFacts
      <4> QED BY <4>1 DEF Products, NetWhole, NetPassed, NetUsed, OutputsIn, FsgnIn, CritWhole, Deltas,
                DeltaPassed, DeltasIn, ErrorWhole, SBReported, TBReported, DeltaUsed, LdsIn
    <3>3. CASE x \in ForwardLinks
      <4>1. ForwardKind(x)
        BY <3>3, ForwardElim
      <4> QED BY <3>1, <3>2, <4>1, UnitFacts DEF ForwardKind, DueTable
    <3>4. CASE x \in BackpropLinks
      <4>1. BackpropKind(x)
        BY <3>4, BackpropElim
      <4> QED BY <3>1, <3>2, <4>1, UnitFacts DEF BackpropKind, DueTable
    <3>5. CASE x \in DeltaSumLinks
      <4>1. DeltaSumKind(x)
        BY <3>5, DeltaSumElim
      <4> QED BY <3>1, <3>2, <4>1, UnitFacts DEF DeltaSumKind, DueTable
    <3> QED BY <3>3, <3>4, <3>5 DEF AllLinks
  <2> QED BY <2>1 DEF Sent, Got
<1>12. NetOK'
  <2>1. ASSUME NEW f \in net, f # p
        PROVE  PacketOK(f)'
    <3>1. PacketOK(f) /\ f.kind = "lds" /\ Loose(f)
      BY <1>1, <2>1 DEF FlowAndMachine, MachineInv, NetOK
    <3> QED BY <3>1, PacketKinds DEF PacketOK, Loose
  <2>2. ASSUME NEW f \in E
        PROVE  PacketOK(f)'
    <3> DEFINE d == f.dst
    <3>1. /\ d \in Cores \ {LastT} /\ f.kind = k /\ f.src = LastT /\ f.u = 0 /\ f.b = b
          /\ f.st = p.st /\ f = Pkt(f.kind, f.src, f.dst, f.u, f.b, f.st)
      BY <1>6, <2>2
    <3>2. Stamp(Rec(d)') = p.st /\ Rec(d)'.phase = cur[3]
      <4>1. Stamp(Rec(d)) = p.st /\ Rec(d).phase = cur[3]
        BY <1>1, <3>1 DEF Place, Stamp, CurStamp, cur
      <4>2. Keeps(Rec(d), Rec(d)')
        BY <1>5, <3>1
      <4> QED BY <4>1, <4>2 DEF Keeps, Place, Stamp
    <3>3. ~Awaits(f) /\ f.kind # "lds" /\ f.kind # "stpn"
      BY <1>7, <3>1 DEF Awaits
    <3>4. IF Rec(d)'.phase = F THEN f.kind = "stop" /\ f.b = tc'[LastSub].tick_stop
                               ELSE f.kind = "sync" /\ f.b = FALSE
      BY <1>7, <3>1, <3>2 DEF k, b
    <3> QED BY <1>2, <1>7, <3>1, <3>2, <3>3, <3>4, UnitFacts
         DEF PacketOK, DataKinds, ControlKinds
  <2> QED BY <1>4, <2>1, <2>2 DEF NetOK
<1>13. OnePacket'
  <2> SUFFICES ASSUME NEW f \in net', NEW g \in net', ~Loose(f), LinkOf(f) = LinkOf(g)
               PROVE  f = g
    BY DEF OnePacket, Loose
  <2>1. f \in E
    BY <1>1, <1>4
  <2>2. g \in E
    <3>1. f.kind = g.kind
      BY LinkApart DEF LinkOf
    <3> QED BY <1>1, <1>4, <1>6, <1>7, <2>1, <3>1
  <2>3. f.dst = g.dst
    BY LinkApart DEF LinkOf
  <2> QED BY <1>6, <2>1, <2>2, <2>3
<1> QED BY <1>5, <1>8, <1>9, <1>10, <1>11, <1>12, <1>13

\* The tick has ended in TickFlow, too.
LEMMA EndFlow ==
  ASSUME AllTimely, FlowAndMachine, NEW p, LastPacket(p), Ending(p)
  PROVE  Flow!Next /\ Flow!FlowInv'
<1> DEFINE l == LinkOf(p)
           r == tc[LastSub]
           q == tc'[LastSub]
<1>1. /\ l \in Sent \ Got /\ Behind = {} /\ Heading({"stpn"}) = {}
      /\ \A c \in Cores : Place(Rec(c)) = cur /\ Rec(c).phase = cur[3]
  BY LastPacketFacts
<1>2. LastSub \in Sub /\ LastT = T(LastSub) /\ LastT \in Cores /\ Rec(LastT) = r /\ Rec(LastT)' = q
  BY LastSubFacts, CoreFacts, TFacts DEF LastT
<1>3. l[3] = LastT
  BY LinkApart DEF LinkOf, LastPacket
<1>4. cur \in FlowPlaces /\ TickFinal[cur] = Awaited(cur)
  BY FlowFacts, LinksOfFacts DEF FlowAndMachine
<1>5. TickFinal[cur] \subseteq Got \cup {l}
  BY <1>4 DEF LastPacket
<1>6. /\ Behind' = Cores /\ Sent' = {} /\ Got' = {} /\ Heading({"stpn"})' = {}
      /\ \A c \in Cores : Keeps(Rec(c), Rec(c)')
  BY EndNet
<1>7. /\ [c \in Cores |-> Place(Rec(c))]' = [c \in Cores |-> Place(Rec(c))]
      /\ {c \in Cores : Rec(c).done}' = {c \in Cores : Rec(c).done}
      /\ q.done = r.done
  <2>1. \A c \in Cores : Place(Rec(c))' = Place(Rec(c)) /\ Rec(c)'.done = Rec(c).done
    BY <1>6 DEF Keeps, Place
  <2> QED BY <1>2, <2>1
<1>8. IF cur[3] = F THEN q.tick_stop \in BOOLEAN /\ (cur[4] = GlobalMaxTicks - 1 => q.tick_stop)
                    ELSE q.tick_stop = r.tick_stop
  <2>1. Place(r) = cur /\ r.phase = cur[3]
    BY <1>1, <1>2
  <2>2. r.tick = cur[4]
    BY <2>1 DEF Place
  <2>3. q.tick_stop \in BOOLEAN
    BY DEF Ending, TShape
  <2>4. r.phase \in {F, B}
    BY <1>4, <2>1 DEF FlowPlaces
  <2>5. CASE r.phase = F
    BY <2>1, <2>2, <2>3, <2>5 DEF Ending, StopInRange
  <2>6. CASE r.phase = B
    BY <2>1, <2>6 DEF Ending, F, B
  <2> QED BY <2>4, <2>5, <2>6
<1> HIDE DEF l
<1>9. Flow!Decide(l)
  <2>1. cur = Flow!cur /\ F = "F"
    BY DEF cur, F
  <2> QED BY <1>1, <1>2, <1>3, <1>5, <1>6, <1>7, <1>8, <2>1 DEF Flow!Decide, Flow!stage
<1>10. Flow!Next
  BY <1>1, <1>9 DEF Flow!Next
<1>11. Flow!FlowInv'
  <2>1. Flow!FlowInv
    BY DEF FlowAndMachine
  <2> QED BY <1>10, <2>1, MachineGraph, Flow!StepInv
<1> QED BY <1>10, <1>11

\* No core has been told of the end of an epoch,
LEMMA EndEpochOK ==
  ASSUME AllTimely, FlowAndMachine, NEW p, LastPacket(p), Ending(p)
  PROVE  EpochOK'
<1> SUFFICES ASSUME NEW c \in Cores \ {LastT}
             PROVE  RendezvousOK(c)'
  BY DEF EpochOK
<1>1. /\ Behind = {} /\ Heading({"stpn"}) = {} /\ ~tc[LastSub].done
  BY LastPacketFacts
<1>2. Behind' = Cores /\ Keeps(Rec(c), Rec(c)')
  BY EndNet
<1>3. LastT \in Cores /\ LastSub \in Sub
  BY CoreFacts, LastSubFacts
<1>4. Opened(c) = Told(c)
  BY <1>1 DEF Opened, Told
<1>5. RendezvousOK(c)
  BY DEF FlowAndMachine, MachineInv, EpochOK
<1>6. ~Opened(c)' /\ ~Told(c)'
  BY <1>2, <1>3 DEF Opened, Told
<1>7. c[1] = "W" => Rec(c)' = Rec(c)
  BY RecFacts, CoreKinds DEF Ending
<1>8. Told(c) => Rec(c).net_stop = FALSE
  BY <1>1, <1>5 DEF RendezvousOK
<1>9. StartShape(Rec(c))
  BY RecFacts, CoreKinds DEF FlowAndMachine, MachineInv, ShapeOK, WShape, SShape, IShape, TShape
<1>10. c[1] # "W" => ~Rec(c).net_stop_rdy
  BY <1>4, <1>5 DEF RendezvousOK
<1>11. c[1] = "W" => ~Rec(c).net_stop_rdy /\ ~Rec(c).epoch_rdy /\ ~Rec(c).net_stop
  BY <1>4, <1>5, <1>8 DEF RendezvousOK
<1>12. Rec(c)'.net_stop = Rec(c).net_stop /\ Rec(c)'.net_stop_rdy = Rec(c).net_stop_rdy
  BY <1>2 DEF Keeps
<1>13. Opened(c)' = FALSE /\ Told(c)' = FALSE
  <2>1. Opened(c)' \in BOOLEAN /\ Told(c)' \in BOOLEAN
    BY DEF Opened, Told
  <2> QED BY <1>6, <2>1
<1>14. CASE c[1] = "W"
  <2>1. Rec(c)'.epoch_rdy = Rec(c).epoch_rdy
    BY <1>7, <1>14
  <2> QED BY <1>11, <1>12, <1>13, <1>14, <2>1 DEF RendezvousOK
<1>15. CASE c[1] # "W"
  BY <1>10, <1>12, <1>13, <1>15 DEF RendezvousOK
<1> QED BY <1>14, <1>15

\* and no scoreboard is read until its core advances.
LEMMA EndCoresOK ==
  ASSUME AllTimely, FlowAndMachine, NEW p, LastPacket(p), Ending(p)
  PROVE  CoresOK'
<1> DEFINE r == tc[LastSub]
           q == tc'[LastSub]
<1>1. /\ Sent = LinksOf(cur) /\ Behind = {}
      /\ \A c \in Cores : Place(Rec(c)) = cur /\ Rec(c).phase = cur[3]
  BY LastPacketFacts
<1>2. LastSub \in Sub /\ LastT = T(LastSub) /\ LastT \in Cores /\ Rec(LastT) = r /\ Rec(LastT)' = q
  BY LastSubFacts, CoreFacts, TFacts DEF LastT
<1>3. \A c, ph : c \in Cores => ~In(c, ph)'
  BY EndNet
<1>4. wc' = wc /\ sc' = sc /\ \A s \in Sub : s # LastSub => tc'[s] = tc[s]
  <2>1. UNCHANGED <<wc, sc, ic>> /\ tc' = [tc EXCEPT ![LastSub] = tc'[LastSub]]
    BY DEF Ending
  <2>2. DOMAIN tc = Sub
    BY <1>2, TFacts
  <2> HIDE DEF q
  <2> QED BY <2>1, <2>2
<1>5. cur \in FlowPlaces
  BY FlowFacts DEF FlowAndMachine
<1>6. DueTable
  BY DueByLink
<1>7. ASSUME NEW c \in WCores
      PROVE  WCoreOK(c)'
  <2>1. c \in Cores /\ c[2] \in Sub /\ c[3] \in Sub /\ c = W(c[2], c[3])
    BY RecFacts, CoreKinds
  <2>2. WCoreOK(c)
    BY DEF FlowAndMachine, MachineInv, CoresOK
  <2>3. ~wc[c].wf_pending
    <3> SUFFICES ASSUME wc[c].wf_pending PROVE FALSE
      OBVIOUS
    <3>1. In(c, F)
      BY <2>2 DEF WCoreOK
    <3>2. cur[3] = F
      BY <1>1, <2>1, <3>1 DEF In
    <3>3. FwdWS(c[2], c[3], 0) \in Sent
      BY <1>1, <1>5, <2>1, <3>2, LinksOfFacts, ForwardIntro, UnitFacts
    <3>4. Products(c)
      BY <1>6, <2>1, <3>3, UnitFacts DEF DueTable, Sent
    <3> QED BY <3>4 DEF Products
  <2> QED BY <1>3, <1>4, <2>1, <2>2, <2>3 DEF WCoreOK
<1>8. ASSUME NEW s \in Sub
      PROVE  SCoreOK(s)'
  <2>1. SCoreOK(s) /\ S(s) \in Cores
    BY CoreFacts DEF FlowAndMachine, MachineInv, CoresOK
  <2> QED BY <1>3, <1>4, <2>1 DEF SCoreOK
<1>9. ASSUME NEW s \in Sub
      PROVE  ~tc[s].tb_pending
  <2>1. TCoreOK(s) /\ T(s) \in Cores
    BY CoreFacts DEF FlowAndMachine, MachineInv, CoresOK
  <2> SUFFICES ASSUME tc[s].tb_pending PROVE FALSE
    OBVIOUS
  <2>2. In(T(s), B)
    BY <2>1 DEF TCoreOK
  <2>3. cur[3] = B /\ cur[3] # F
    BY <1>1, <2>1, <2>2 DEF In, F, B
  <2>4. BkpTI(s, 0) \in Sent
    BY <1>1, <1>5, <2>3, LinksOfFacts, BackpropIntro, UnitFacts
  <2>5. Deltas(s)
    BY <1>6, <2>4, UnitFacts DEF DueTable, Sent
  <2> QED BY <2>5 DEF Deltas
<1>10. ASSUME NEW s \in Sub
       PROVE  TCoreOK(s)'
  <2>1. TCoreOK(s) /\ T(s) \in Cores
    BY CoreFacts DEF FlowAndMachine, MachineInv, CoresOK
  <2>2. \A ph : ~In(T(s), ph)'
    BY <1>3, <2>1
  <2>3. CASE s # LastSub
    BY <1>4, <1>9, <2>1, <2>2, <2>3 DEF TCoreOK
  <2>4. CASE s = LastSub
    <3>1. /\ q.phase = r.phase /\ q.tb_pending = r.tb_pending
          /\ q.tf_thrds_pend \subseteq r.tf_thrds_pend /\ q.tb_thrds_pend \subseteq r.tb_thrds_pend
          /\ r.phase = F => /\ q.tb_arrived = r.tb_arrived /\ q.tb_bsgn_arrived = r.tb_bsgn_arrived
                            /\ q.tb_thrds_pend = r.tb_thrds_pend
          /\ r.phase = B => /\ q.tf_arrived = r.tf_arrived /\ q.tf_crit_arrived = r.tf_crit_arrived
                            /\ q.tf_thrds_pend = r.tf_thrds_pend
      BY DEF Ending
    <3> QED BY <1>2, <1>9, <2>1, <2>2, <2>4, <3>1 DEF TCoreOK
  <2> QED BY <2>3, <2>4
<1> QED BY <1>7, <1>8, <1>10 DEF CoresOK

\* A tick ends when all is handled, and nothing is left of it
LEMMA DecideInv ==
  ASSUME AllTimely, LongPhases, FlowAndMachine, NEW p, LastPacket(p), Ending(p)
  PROVE  FlowAndMachine' /\ Flow!Next
<1> DEFINE r == tc[LastSub]
           q == tc'[LastSub]
<1>1. Flow!Next /\ Flow!FlowInv' /\ NetOK' /\ OnePacket' /\ EpochOK' /\ CoresOK'
  BY EndFlow, EndNet, EndEpochOK, EndCoresOK
<1>2. LastSub \in Sub /\ LastT \in Cores /\ DOMAIN tc = Sub /\ Rec(LastT) = r /\ Rec(LastT)' = q
  BY LastSubFacts, CoreFacts, TFacts DEF LastT
<1>3. ShapeOK'
  <2>1. UNCHANGED <<wc, sc, ic>> /\ tc' = [tc EXCEPT ![LastSub] = tc'[LastSub]] /\ TShape(q)
    BY DEF Ending
  <2>2. DOMAIN tc' = Sub /\ \A s \in Sub : s # LastSub => tc'[s] = tc[s]
    BY <1>2, <2>1
  <2>3. ShapeOK
    BY DEF FlowAndMachine, MachineInv
  <2> QED BY <2>1, <2>2, <2>3 DEF ShapeOK
<1>4. PacedOK'
  <2> SUFFICES ASSUME Dougs PROVE PacedOK'
    BY DEF PacedOK
  <2>1. q.phase = r.phase /\ q.tick = r.tick /\ q.ev_tick = r.ev_tick
    BY DEF Ending, Keeps, Place
  <2>2. r.phase = F /\ r.tick = INIT_TICK => r.ev_tick = INIT_TICK
    BY DEF FlowAndMachine, MachineInv, PacedOK
  <2>3. \A c \in Cores : Keeps(Rec(c), Rec(c)') /\ Place(Rec(c)) = Place(r)
    BY <1>2, EndNet, LastPacketFacts
  <2>4. \A c \in Cores : Rec(c)'.phase = r.phase /\ Rec(c)'.tick = r.tick
    BY <2>3 DEF Keeps, Place
  <2>5. r.phase = F /\ r.tick = INIT_TICK => ~q.tick_stop
    <3>1. MinTicks \in Nat /\ MaxTicks \in Nat /\ GlobalMaxTicks \in Nat
      BY StageAssumption
    <3> QED BY <2>2, <3>1 DEF Ending, StopInRange, LongPhases, INIT_TICK
  <2>6. Behind' = Cores
    BY EndNet
  <2> QED BY <2>1, <2>2, <2>4, <2>5, <2>6 DEF PacedOK
<1> QED BY <1>1, <1>3, <1>4 DEF FlowAndMachine, MachineInv

\* the last T ends a FORWARD tick
LEMMA TFDecideInv ==
  ASSUME AllTimely, LongPhases, FlowAndMachine, NEW p \in net, TFStep(p, LastSub),
         TFReports(p, LastSub)
  PROVE  FlowAndMachine' /\ Flow!Next
<1> DEFINE r == tc[LastSub]
           q == tc'[LastSub]
           l == LinkOf(p)
           G == Got \cup {l}
           init == tf_thrds_init(LastSub)
<1>1. LastSub \in Sub /\ LastT = T(LastSub) /\ LastT \in Cores /\ Rec(LastT) = r
  BY LastSubFacts, CoreFacts, RecFacts DEF LastT
<1>2. /\ TFBoards(p, LastSub, q, G) /\ cur[3] = F /\ In(T(LastSub), F) /\ Awaits(p)
  BY <1>1, TFBoardsStep
<1>3. r.phase = F
  BY <1>1, <1>2 DEF In
<1>4. LastPacket(p)
  <2>1. p.dst = LastT /\ InTime(r, p)
    BY <1>1 DEF TFStep
  <2>2. Into({"fwd", "crit", "fsgn"}, LastT) \subseteq G
    BY <1>1, <1>2 DEF TFBoards
  <2>3. Awaited(cur) = Into({"fwd", "crit", "fsgn"}, LastT)
    BY <1>2 DEF Awaited, Into
  <2> QED BY <1>2, <2>1, <2>2, <2>3 DEF LastPacket
<1>5. p.kind # "fwd" /\ p.st = CurStamp
  BY <1>4, LastPacketFacts
<1>6. TCoreOK(LastSub)
  BY <1>1 DEF FlowAndMachine, MachineInv, CoresOK
<1>7. TFCounted(p, LastSub, r, q) /\ IsLast(LastSub)
  BY DEF TFStep, IsLast
<1>8. Ending(p)
  <2>1. net' = (net \ {p}) \cup Multicast("stop", LastT, StpRoute(LastSub), 0, q.tf_stop_crit, p.st)
    BY <1>1, <1>5, <1>7 DEF TFStep
  <2>2. q.tick_stop = q.tf_stop_crit /\ q.advance /\ StopInRange(r, q.tick_stop)
    BY <1>7 DEF TFCounted
  <2>3. q.tf_thrds_pend \subseteq r.tf_thrds_pend
    BY <1>7 DEF TFCounted
  <2>4. UNCHANGED <<wc, sc, ic>> /\ tc' = [tc EXCEPT ![LastSub] = q]
    BY DEF TFStep
  <2>5. /\ TShape(q) /\ Keeps(r, q) /\ q.phase = r.phase /\ q.ev_tick = r.ev_tick
        /\ q.tb_arrived = r.tb_arrived /\ q.tb_bsgn_arrived = r.tb_bsgn_arrived
        /\ q.tb_thrds_pend = r.tb_thrds_pend /\ q.tb_pending = r.tb_pending
    BY <1>7 DEF TFCounted
  <2>6. r.phase # B
    BY <1>3 DEF F, B
  <2> QED BY <1>3, <2>1, <2>2, <2>3, <2>4, <2>5, <2>6 DEF Ending
<1> QED BY <1>4, <1>8, DecideInv

\* ... and a BACKPROP tick
LEMMA TBDecideInv ==
  ASSUME AllTimely, LongPhases, FlowAndMachine, NEW p \in net, TBStep(p, LastSub),
         TBReports(p, LastSub)
  PROVE  FlowAndMachine' /\ Flow!Next
<1> DEFINE r == tc[LastSub]
           q == tc'[LastSub]
           l == LinkOf(p)
           G == Got \cup {l}
           init == tb_thrds_init(LastSub)
<1>1. LastSub \in Sub /\ LastT = T(LastSub) /\ LastT \in Cores /\ Rec(LastT) = r
  BY LastSubFacts, CoreFacts, RecFacts DEF LastT
<1>2. /\ TBBoards(p, LastSub, q, G) /\ cur[3] = B /\ In(T(LastSub), B) /\ Awaits(p)
  BY <1>1, TBBoardsStep
<1>3. r.phase = B /\ r.phase # F
  BY <1>1, <1>2 DEF In, F, B
<1>4. LastPacket(p)
  <2>1. p.dst = LastT /\ InTime(r, p)
    BY <1>1 DEF TBStep
  <2>2. Into({"bkp", "bsgn", "lds"}, LastT) \subseteq G
    BY <1>1, <1>2 DEF TBBoards
  <2>3. Awaited(cur) \subseteq Into({"bkp", "bsgn", "lds"}, LastT)
    BY <1>2 DEF Awaited, Into, F, B
  <2> QED BY <1>2, <2>1, <2>2, <2>3 DEF LastPacket
<1>5. p.st = CurStamp
  BY <1>4, LastPacketFacts
<1>6. TBCounted(p, LastSub, r, q) /\ IsLast(LastSub)
  BY DEF TBStep, IsLast
<1>7. Ending(p)
  <2>1. net' = (net \ {p}) \cup Multicast("sync", LastT, StpRoute(LastSub), 0, FALSE, p.st)
    BY <1>1, <1>6 DEF TBStep
  <2>2. q.tick_stop = r.tick_stop /\ q.advance
    BY <1>6 DEF TBCounted
  <2>3. q.tb_thrds_pend \subseteq r.tb_thrds_pend
    BY <1>6 DEF TBCounted
  <2>4. UNCHANGED <<wc, sc, ic>> /\ tc' = [tc EXCEPT ![LastSub] = q]
    BY DEF TBStep
  <2>5. /\ TShape(q) /\ Keeps(r, q) /\ q.phase = r.phase /\ q.ev_tick = r.ev_tick
        /\ q.tf_arrived = r.tf_arrived /\ q.tf_crit_arrived = r.tf_crit_arrived
        /\ q.tf_thrds_pend = r.tf_thrds_pend /\ q.tb_pending = r.tb_pending
    BY <1>6 DEF TBCounted
  <2> QED BY <1>3, <2>1, <2>2, <2>3, <2>4, <2>5 DEF Ending
<1> QED BY <1>4, <1>7, DecideInv

\* A threshold core handles a packet of the tick, and may end it.
LEMMA TDataInv ==
  ASSUME AllTimely, LongPhases, FlowAndMachine, NEW p \in net, UNCHANGED <<wc, sc, ic>>,
         TForward(p) \/ TCrit(p) \/ TFsgn(p) \/ TError(p) \/ TBsgn(p)
  PROVE  FlowAndMachine' /\ Flow!Next
<1> DEFINE s == p.dst[2]
<1>1. CASE TForward(p) \/ TCrit(p) \/ TFsgn(p)
  <2>1. s \in Sub /\ TFStep(p, s)
    BY <1>1, TForwardStep, TCritStep, TFsgnStep
  <2>2. CASE TFReports(p, s) /\ IsLast(s)
    BY <2>1, <2>2, TFDecideInv DEF IsLast
  <2>3. CASE ~(TFReports(p, s) /\ IsLast(s))
    BY <2>1, <2>3, TFStepInv
  <2> QED BY <2>2, <2>3
<1>2. CASE TError(p) \/ TBsgn(p)
  <2>1. s \in Sub /\ TBStep(p, s)
    BY <1>2, TErrorStep, TBsgnStep
  <2>2. CASE TBReports(p, s) /\ IsLast(s)
    BY <2>1, <2>2, TBDecideInv DEF IsLast
  <2>3. CASE ~(TBReports(p, s) /\ IsLast(s))
    BY <2>1, <2>3, TBStepInv
  <2> QED BY <2>2, <2>3
<1> QED BY <1>1, <1>2
=============================================================================
