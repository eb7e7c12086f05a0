---------------------------- MODULE SumTreeProofs ----------------------------
(***************************************************************************)
(* Proofs about SumTree, for every limit on links and network of any size: *)
(* the vertices computed in advance have room for every link, every sum    *)
(* core expects exactly the packets its links bring, and what the root     *)
(* sends is all of the products, once each.                                *)
(***************************************************************************)
EXTENDS SumTree, TLAPS, FiniteSetTheorems, WellFoundedInduction

(***************************************************************************)
(* Arithmetic.                                                             *)
(***************************************************************************)
LEMMA DivMod ==
  ASSUME NEW a \in Nat, NEW b \in Nat \ {0}
  PROVE  /\ a \div b \in Nat /\ a % b \in 0 .. b - 1
         /\ a = (a \div b) * b + (a % b)
BY Z3

LEMMA Product ==
  ASSUME NEW a \in Nat, NEW m \in Nat
  PROVE  a * m \in Nat
BY SMT

LEMMA Monotonic ==
  ASSUME NEW a \in Nat, NEW b \in Nat, a <= b, NEW m \in Nat
  PROVE  a * m <= b * m
BY Z3

LEMMA Distributes ==
  ASSUME NEW a \in Int, NEW b \in Int, NEW m \in Int
  PROVE  (a + b) * m = a * m + b * m
BY Z3

LEMMA Enlarges ==
  ASSUME NEW a \in Nat, NEW m \in Nat \ {0}
  PROVE  a <= a * m
BY SMT

LEMMA NextMultiple ==
  ASSUME NEW a \in Int, NEW m \in Int
  PROVE  /\ (a + 1) * m = a * m + m
         /\ (a - 1) * m = a * m - m
BY Distributes, Z3

LEMMA MIsNat == M \in Nat /\ M >= 2 /\ M - 1 \in Nat \ {0}
BY TreeAssumption DEF M

(***************************************************************************)
(* The size of the tree.                                                   *)
(***************************************************************************)
LEMMA TreeSize ==
  ASSUME subgroups \in Nat, subgroups >= 2
  PROVE  /\ num_vrt \in Nat \ {0} /\ num_vrt < subgroups
         /\ lvs \in Nat /\ lvs <= subgroups - 2 /\ subgroups - 1 <= lvs + (M - 1)
         /\ (num_vrt - 1) * M = lvs + (num_vrt - 1)
<1> DEFINE q == (subgroups - 2) \div (M - 1)
<1>1. /\ q \in Nat /\ (subgroups - 2) % (M - 1) \in 0 .. (M - 1) - 1
      /\ subgroups - 2 = q * (M - 1) + ((subgroups - 2) % (M - 1))
  <2>1. subgroups - 2 \in Nat
    OBVIOUS
  <2> QED BY <2>1, MIsNat, DivMod
<1>2. num_vrt = q + 1 /\ lvs = q * (M - 1)
  BY <1>1, MIsNat DEF num_vrt, lvs
<1> HIDE DEF q
<1>3. q * (M - 1) \in Nat /\ q <= q * (M - 1)
  BY <1>1, MIsNat, Product, Enlarges
<1>4. q * M = q * (M - 1) + q
  <2>1. M * q = (M - 1) * q + 1 * q
    <3>1. (M - 1) + 1 = M
      BY MIsNat
    <3>2. ((M - 1) + 1) * q = (M - 1) * q + 1 * q
      BY Distributes, MIsNat, <1>1
    <3> QED BY <3>1, <3>2
  <2> QED BY <2>1, <1>1, MIsNat
<1> QED
  BY <1>1, <1>2, <1>3, <1>4, MIsNat

\* All the links there are fit: with one vertex more they would not be full.
LEMMA Capacity ==
  ASSUME subgroups \in Nat, subgroups >= 2
  PROVE  num_vrt * M >= (num_vrt - 1) + subgroups
<1>1. num_vrt * M = (num_vrt - 1) * M + M
  <2>1. (num_vrt - 1) + 1 = num_vrt
    BY TreeSize
  <2>2. ((num_vrt - 1) + 1) * M = (num_vrt - 1) * M + M
    BY NextMultiple, TreeSize, MIsNat
  <2> QED BY <2>1, <2>2
<1> QED
  BY <1>1, TreeSize, MIsNat

(***************************************************************************)
(* The links are handed out in order: of the first x links, those up to    *)
(* v * M go to the vertices before v, and the next M to v.                 *)
(***************************************************************************)
Taken(x, v) ==
  IF x <= v * M THEN 0 ELSE IF x >= v * M + M THEN M ELSE x - v * M

LEMMA TakenRange ==
  ASSUME NEW x \in Nat, NEW v \in Nat
  PROVE  Taken(x, v) \in 0 .. M
BY MIsNat, Product DEF Taken

LEMMA TakenNext ==
  ASSUME NEW t \in Nat, NEW free \in 1 .. M, NEW v \in Nat, NEW x \in Nat,
         x = t * M + (M - free)
  PROVE  Taken(x + 1, v) = Taken(x, v) + (IF v = t THEN 1 ELSE 0)
<1>1. t * M \in Nat /\ v * M \in Nat
  BY MIsNat, Product
<1>2. CASE v = t
  BY <1>1, <1>2, MIsNat DEF Taken
<1>3. CASE v < t
  <2>1. (v + 1) * M <= t * M
    BY <1>3, MIsNat, Monotonic
  <2>2. v * M + M <= t * M
    BY <2>1, NextMultiple, MIsNat
  <2> QED BY <1>1, <1>3, <2>2, MIsNat DEF Taken
<1>4. CASE v > t
  <2>1. (t + 1) * M <= v * M
    BY <1>4, MIsNat, Monotonic
  <2>2. t * M + M <= v * M
    BY <2>1, NextMultiple, MIsNat
  <2> QED BY <1>1, <1>4, <2>2, MIsNat DEF Taken
<1> QED BY <1>2, <1>3, <1>4

(***************************************************************************)
(* When all the links are taken: by the other sum cores, then by the       *)
(* weight cores.                                                           *)
(***************************************************************************)
Links == (num_vrt - 1) + subgroups

LEMMA ExpectedLinks ==
  ASSUME subgroups \in Nat, subgroups >= 2, NEW v \in 0 .. num_vrt - 1
  PROVE  expected(v) = Taken(Links, v)
<1>1. v * M \in Nat /\ v \in Nat
  BY TreeSize, MIsNat, Product
<1>2. CASE v = num_vrt - 1
  <2>1. v * M = lvs + (num_vrt - 1)
    BY <1>2, TreeSize
  <2>2. subgroups - lvs <= M /\ subgroups - lvs > 0
    BY TreeSize, MIsNat
  <2>3. expected(v) = subgroups - lvs
    BY <1>2 DEF expected
  <2> QED BY <1>1, <2>1, <2>2, <2>3, TreeSize, MIsNat DEF Taken, Links
<1>3. CASE v < num_vrt - 1
  <2>1. (v + 1) * M <= (num_vrt - 1) * M
    BY <1>1, <1>3, TreeSize, MIsNat, Monotonic
  <2>2. v * M + M <= lvs + (num_vrt - 1)
    BY <1>1, <2>1, TreeSize, NextMultiple, MIsNat
  <2>3. expected(v) = M
    BY <1>1, <1>3, TreeSize DEF expected
  <2> QED BY <1>1, <2>2, <2>3, TreeSize, MIsNat DEF Taken, Links
<1> QED BY <1>2, <1>3, TreeSize

\* The links of other sum cores end at vertex n - 2 - k, which has M - wp of
\* them.
LEMMA SumLinks ==
  ASSUME NEW n \in Nat \ {0}, NEW k \in Nat, NEW wp \in 0 .. M - 1,
         (n - 1) * M = (k * M + wp) + (n - 1), NEW v \in 0 .. n - 1
  PROVE  /\ v > n - 2 - k => Taken(n - 1, v) = 0
         /\ v = n - 2 - k => Taken(n - 1, v) = M - wp
         /\ v < n - 2 - k => Taken(n - 1, v) = M
<1>1. v \in Nat /\ v * M \in Nat /\ k * M \in Nat
  BY MIsNat, Product
<1>2. PICK e \in Int : e = n - 1 - k
  OBVIOUS
<1>3. e * M = (n - 1) + wp
  <2>1. (e + k) * M = e * M + k * M
    BY <1>2, MIsNat, Distributes
  <2>2. e + k = n - 1 /\ e * M \in Int
    BY <1>2, MIsNat
  <2> QED BY <1>1, <2>1, <2>2, MIsNat
<1>4. e >= 0
  <2>1. ASSUME e < 0 PROVE FALSE
    <3>1. (e + (0 - e)) * M = e * M + (0 - e) * M
      BY <1>2, MIsNat, Distributes
    <3>2. (0 - e) * M \in Nat /\ 0 - e <= (0 - e) * M
      BY <2>1, <1>2, MIsNat, Product, Enlarges
    <3>3. e + (0 - e) = 0 /\ 0 * M = 0
      BY <1>2, MIsNat
    <3> QED BY <2>1, <1>2, <1>3, <3>1, <3>2, <3>3, MIsNat
  <2> QED BY <1>2, <2>1
<1>5. CASE v > n - 2 - k
  <2>1. e <= v
    BY <1>1, <1>2, <1>5
  <2>2. e * M <= v * M
    BY <1>1, <1>2, <1>4, <2>1, MIsNat, Monotonic
  <2> QED BY <1>1, <1>3, <1>5, <2>2, MIsNat DEF Taken
<1>6. CASE v = n - 2 - k
  <2>1. v + 1 = e
    BY <1>1, <1>2, <1>6
  <2>2. v * M + M = (n - 1) + wp
    BY <1>1, <1>3, <2>1, NextMultiple, MIsNat
  <2> QED BY <1>1, <1>6, <2>2, MIsNat DEF Taken
<1>7. CASE v < n - 2 - k
  <2>1. v + 1 <= e - 1 /\ e - 1 \in Nat
    BY <1>1, <1>2, <1>7
  <2>2. (v + 1) * M <= (e - 1) * M
    BY <1>1, <2>1, MIsNat, Monotonic
  <2>3. v * M + M <= (n - 1) + wp - M
    BY <1>1, <1>2, <1>3, <2>2, NextMultiple, MIsNat
  <2> QED BY <1>1, <1>7, <2>3, MIsNat DEF Taken
<1> QED BY <1>1, <1>5, <1>6, <1>7

LEMMA ExpectedPackets ==
  ASSUME subgroups \in Nat, subgroups >= 2, roots \in Nat,
         NEW v \in 0 .. num_vrt - 1, NEW sl \in Nat, NEW wl \in Nat,
         sl = Taken(num_vrt - 1, v), sl + wl = Taken(Links, v)
  PROVE  /\ expected(v) = sl + wl
         /\ lds_expected(v) = sl + wl * Units + FromRoots(v)
<1> DEFINE k == lvs \div M
           wp == lvs % M
           full == expected(v) * Units
           mixed == wp * Units + (M - wp)
<1>1. expected(v) = sl + wl
  BY ExpectedLinks
<1>2. /\ k \in Nat /\ wp \in 0 .. M - 1
      /\ v > num_vrt - 2 - k => sl = 0
      /\ v = num_vrt - 2 - k => sl = M - wp
      /\ v < num_vrt - 2 - k => sl = M
  <2>1. lvs \in Nat /\ M \in Nat \ {0}
    BY TreeSize, MIsNat
  <2>2. k \in Nat /\ wp \in 0 .. M - 1 /\ lvs = k * M + wp
    BY <2>1, DivMod
  <2> HIDE DEF k, wp
  <2>3. (num_vrt - 1) * M = (k * M + wp) + (num_vrt - 1) /\ num_vrt \in Nat \ {0}
    BY <2>2, TreeSize
  <2> QED BY <2>2, <2>3, SumLinks
<1>3. v <= num_vrt - 2 - k => expected(v) = M
  BY <1>2, TreeSize DEF expected
<1>4. num_vrt \in Nat /\ v \in Nat /\ M \in Nat /\ Units \in Nat
  BY TreeSize, TreeAssumption DEF M
<1>5. lds_expected(v) =
        FromRoots(v) +
        CASE v > num_vrt - 2 - k -> full
          [] v = num_vrt - 2 - k -> mixed
          [] v < num_vrt - 2 - k -> M
  BY DEF lds_expected
<1>6. FromRoots(v) \in Nat
  BY DEF FromRoots
<1>7. CASE v > num_vrt - 2 - k
  <2>1. expected(v) = wl /\ sl = 0
    BY <1>1, <1>2, <1>7
  <2> HIDE DEF full, mixed, k, wp
  <2>2. lds_expected(v) = FromRoots(v) + full
    BY <1>2, <1>4, <1>5, <1>7
  <2>3. full = wl * Units /\ wl * Units \in Nat
    BY <1>4, <2>1, Product DEF full
  <2> QED BY <1>1, <1>6, <2>1, <2>2, <2>3
<1>8. CASE v = num_vrt - 2 - k
  <2> HIDE DEF full, mixed, k, wp
  <2>1. sl = M - wp /\ wl = wp
    BY <1>1, <1>2, <1>3, <1>4, <1>8
  <2>2. ~(v > num_vrt - 2 - k)
    BY <1>2, <1>4, <1>8
  <2>3. lds_expected(v) = FromRoots(v) + mixed
    BY <1>5, <1>8, <2>2
  <2>4. mixed = wp * Units + (M - wp) /\ wp * Units \in Nat
    BY <1>2, <1>4, Product DEF mixed
  <2> QED BY <1>1, <1>2, <1>4, <1>6, <2>1, <2>3, <2>4
<1>9. CASE v < num_vrt - 2 - k
  <2> HIDE DEF full, mixed, k, wp
  <2>1. sl = M /\ wl = 0
    BY <1>1, <1>2, <1>3, <1>4, <1>9
  <2>2. ~(v > num_vrt - 2 - k) /\ v # num_vrt - 2 - k
    BY <1>2, <1>4, <1>9
  <2>3. lds_expected(v) = FromRoots(v) + M
    BY <1>5, <1>9, <2>2
  <2>4. wl * Units = 0
    BY <1>4, <2>1
  <2> QED BY <1>1, <1>4, <1>6, <2>1, <2>3, <2>4
<1> HIDE DEF full, mixed, k, wp
<1>10. v > num_vrt - 2 - k \/ v = num_vrt - 2 - k \/ v < num_vrt - 2 - k
  BY <1>2, <1>4
<1> QED BY <1>7, <1>8, <1>9, <1>10

(***************************************************************************)
(* The inductive invariant: the links taken so far are those of the sum    *)
(* cores made and of the subgroups mapped, and each vertex has its share.  *)
(***************************************************************************)
HostInv == calls * MaxSubgroups \in Nat /\ subgroups <= calls * MaxSubgroups

Built == stage \in {"ready"} \cup Rounds

CountInv ==
  stage # "idle" =>
    /\ subgroups >= 2 /\ vrt \in 1 .. num_vrt
    /\ vrt - 1 + mapped = to_vrt * M + (M - free_links)
    /\ stage = "vertices" => mapped = 0
    /\ stage # "vertices" => vrt = num_vrt
    /\ Built => mapped = network

LinkInv ==
  stage # "idle" =>
    \A v \in Vertex : /\ slinks[v] = Taken(vrt - 1, v)
                      /\ slinks[v] + wlinks[v] = Taken(vrt - 1 + mapped, v)

Inv == TypeOK /\ HostInv /\ CountInv /\ LinkInv

LEMMA InitInv == Init => Inv
<1> SUFFICES ASSUME Init PROVE Inv
  OBVIOUS
<1>1. calls * MaxSubgroups = 0 /\ MaxCalls * MaxSubgroups \in Nat
  BY TreeAssumption, Product DEF Init
<1>2. TypeOK
  BY <1>1, MIsNat, TreeAssumption DEF Init, TypeOK, Stages, Vertex
<1>3. HostInv /\ CountInv /\ LinkInv
  BY <1>1 DEF Init, HostInv, CountInv, LinkInv
<1> QED BY <1>2, <1>3 DEF Inv

\* While the host knows the network, the vertices are enough.
LEMMA Room ==
  ASSUME Inv, subgroups = network
  PROVE  /\ stage = "vertices" /\ vrt < num_vrt => to_vrt < vrt
         /\ stage = "leaves" /\ mapped < network => to_vrt < vrt
<1> USE DEF Inv, TypeOK
<1>1. to_vrt \in Nat /\ to_vrt <= to_vrt * M /\ to_vrt * M \in Nat
  BY MIsNat, Enlarges, Product
<1>2. ASSUME stage = "vertices" PROVE to_vrt < vrt
  BY <1>1, <1>2, MIsNat DEF CountInv
<1>3. ASSUME stage = "leaves", mapped < network PROVE to_vrt < vrt
  <2>1. num_vrt * M >= (num_vrt - 1) + subgroups /\ num_vrt \in Nat
    BY Capacity, TreeSize
  <2>2. to_vrt * M < (num_vrt - 1) + subgroups
    BY <1>1, <1>3, <2>1, MIsNat DEF CountInv
  <2>3. to_vrt >= num_vrt => num_vrt * M <= to_vrt * M
    BY <2>1, <1>1, MIsNat, Monotonic
  <2>4. num_vrt * M \in Nat
    BY <2>1, MIsNat, Product
  <2> QED BY <1>1, <1>3, <2>1, <2>2, <2>3, <2>4 DEF CountInv
<1> QED BY <1>2, <1>3

LEMMA InvImplies == Inv => TypeOK /\ TreeFits /\ ExpectedExact
<1> SUFFICES ASSUME Inv PROVE TreeFits /\ ExpectedExact
  BY DEF Inv
<1>1. TreeFits
  BY Room DEF TreeFits, VertexExists
<1>2. ASSUME Built, subgroups = network, NEW v \in 0 .. num_vrt - 1
      PROVE  /\ expected(v) = slinks[v] + wlinks[v]
             /\ lds_expected(v) = slinks[v] + wlinks[v] * Units + FromRoots(v)
  <2>1. subgroups \in Nat /\ subgroups >= 2 /\ vrt = num_vrt /\ mapped = subgroups
    BY <1>2 DEF Inv, TypeOK, CountInv, Built, Rounds
  <2>2. v \in Vertex
    BY <2>1, TreeSize, TreeAssumption, Product DEF Inv, TypeOK, Vertex
  <2>3. slinks[v] = Taken(num_vrt - 1, v) /\ slinks[v] + wlinks[v] = Taken(Links, v)
    BY <1>2, <2>1, <2>2 DEF Inv, LinkInv, Built, Rounds, Links
  <2>4. slinks[v] \in Nat /\ wlinks[v] \in Nat /\ roots \in Nat
    BY <2>2 DEF Inv, TypeOK
  <2> QED BY <2>1, <2>3, <2>4, ExpectedPackets
<1>3. ExpectedExact
  BY <1>2 DEF ExpectedExact, Built
<1> QED BY <1>1, <1>3

(***************************************************************************)
(* The steps of the host.                                                  *)
(***************************************************************************)
LEMMA GenerateHost ==
  ASSUME Inv, Generate
  PROVE  /\ HostInv' /\ subgroups' >= 2
         /\ network' = network /\ graph_rdy' \in BOOLEAN /\ calls' \in 0 .. MaxCalls
         /\ subgroups' \in 0 .. MaxCalls * MaxSubgroups
<1> USE DEF Inv, TypeOK, HostInv, Generate
<1>1. (calls + 1) * MaxSubgroups = calls * MaxSubgroups + MaxSubgroups
  BY NextMultiple, TreeAssumption
<1>2. (calls + 1) * MaxSubgroups <= MaxCalls * MaxSubgroups
  BY Monotonic, TreeAssumption
<1>3. MaxCalls * MaxSubgroups \in Nat
  BY Product, TreeAssumption
<1> QED BY <1>1, <1>2, <1>3, TreeAssumption

LEMMA GenerateFailsInv == Inv /\ GenerateFails => Inv'
<1> SUFFICES ASSUME Inv, GenerateFails PROVE Inv'
  OBVIOUS
<1>1. Generate /\ stage = "idle" /\ stage' = stage
  BY DEF GenerateFails, Generate
<1> QED
  BY <1>1, GenerateHost
     DEF GenerateFails, tree_vars, round_vars, Inv, TypeOK, CountInv, LinkInv, Vertex

LEMMA GenerateTreeInv == Inv /\ GenerateTree => Inv'
<1> SUFFICES ASSUME Inv, GenerateTree PROVE Inv'
  OBVIOUS
<1>1. /\ HostInv' /\ subgroups' >= 2 /\ subgroups' \in Nat /\ network' = network
      /\ graph_rdy' \in BOOLEAN /\ calls' \in 0 .. MaxCalls
      /\ subgroups' \in 0 .. MaxCalls * MaxSubgroups
  BY GenerateHost, TreeAssumption, Product DEF GenerateTree
<1>2. num_vrt' \in Nat /\ num_vrt' >= 1
  <2> DEFINE n == subgroups'
  <2>0. n \in Nat /\ n >= 2
    BY <1>1
  <2> HIDE DEF n
  <2>1. n - 2 \in Nat
    BY <2>0
  <2>2. (n - 2) \div (M - 1) \in Nat
    BY <2>1, MIsNat, DivMod
  <2> QED BY <2>2 DEF n, num_vrt, M
<1>3. TypeOK'
  BY <1>1, MIsNat, TreeAssumption DEF GenerateTree, Inv, TypeOK, Stages, Vertex, M
<1>4. CountInv'
  <2>1. 0 * M = 0
    BY MIsNat
  <2> QED BY <1>1, <1>2, <2>1, MIsNat DEF GenerateTree, CountInv, Built, Rounds, M
<1>5. LinkInv'
  <2> SUFFICES ASSUME NEW v \in Vertex
               PROVE  Taken(0, v) = 0
    BY DEF GenerateTree, LinkInv, Vertex, Taken, M
  <2>1. v \in Nat
    BY TreeAssumption, Product DEF Vertex
  <2> QED BY <2>1, MIsNat, Product DEF Taken
<1> QED BY <1>1, <1>3, <1>4, <1>5 DEF Inv

LEMMA TakeLinkCounts ==
  ASSUME Inv, TakeLink
  PROVE  /\ free_links' \in 1 .. M /\ to_vrt' \in Nat
         /\ to_vrt' * M + (M - free_links') = to_vrt * M + (M - free_links) + 1
<1>1. free_links \in 1 .. M /\ to_vrt \in Nat
  BY DEF Inv, TypeOK
<1>2. (to_vrt + 1) * M = to_vrt * M + M /\ to_vrt * M \in Nat
  BY <1>1, NextMultiple, MIsNat, Product
<1>3. CASE free_links = 1
  <2>1. free_links' = M /\ to_vrt' = to_vrt + 1
    BY <1>3 DEF TakeLink
  <2> QED BY <1>1, <1>2, <1>3, <2>1, MIsNat
<1>4. CASE free_links # 1
  <2>1. free_links' = free_links - 1 /\ to_vrt' = to_vrt
    BY <1>4 DEF TakeLink
  <2> QED BY <1>1, <1>2, <1>4, <2>1, MIsNat
<1> QED BY <1>3, <1>4

LEMMA AddVertexInv == Inv /\ AddVertex => Inv'
<1> SUFFICES ASSUME Inv, AddVertex PROVE Inv'
  OBVIOUS
<1> USE DEF Inv
<1>1. /\ stage = "vertices" /\ stage' = stage /\ vrt < num_vrt /\ vrt' = vrt + 1
      /\ UNCHANGED <<network, subgroups, calls, graph_rdy, mapped, leaf, wlinks, roots>>
      /\ TakeLink /\ to_vrt < vrt
  BY DEF AddVertex, VertexExists, host_vars
<1>2. /\ free_links' \in 1 .. M /\ to_vrt' \in Nat
      /\ to_vrt' * M + (M - free_links') = to_vrt * M + (M - free_links) + 1
  BY <1>1, TakeLinkCounts
<1>3. /\ free_links \in 1 .. M /\ to_vrt \in Nat /\ vrt \in Nat \ {0}
      /\ vrt - 1 = to_vrt * M + (M - free_links) /\ mapped = 0
      /\ slinks \in [Vertex -> Nat] /\ wlinks \in [Vertex -> Nat]
      /\ num_vrt \in Nat /\ num_vrt < subgroups
      /\ subgroups \in 0 .. MaxCalls * MaxSubgroups
  <2>1. /\ free_links \in 1 .. M /\ to_vrt \in Nat
        /\ slinks \in [Vertex -> Nat] /\ wlinks \in [Vertex -> Nat]
        /\ subgroups \in 0 .. MaxCalls * MaxSubgroups
    BY DEF TypeOK
  <2>2. /\ subgroups >= 2 /\ vrt \in 1 .. num_vrt
        /\ vrt - 1 + mapped = to_vrt * M + (M - free_links) /\ mapped = 0
    BY <1>1 DEF CountInv
  <2>3. subgroups \in Nat
    BY <2>1, TreeAssumption, Product
  <2>4. num_vrt \in Nat /\ num_vrt < subgroups
    BY <2>2, <2>3, TreeSize
  <2>5. vrt - 1 = to_vrt * M + (M - free_links)
    BY <2>2, <2>4
  <2> QED BY <2>1, <2>2, <2>4, <2>5
<1>4. to_vrt \in Vertex /\ Vertex' = Vertex /\ Vertex \subseteq Nat
  BY <1>1, <1>3, TreeAssumption, Product DEF Vertex
<1>5. slinks' = [slinks EXCEPT ![to_vrt] = @ + 1] /\ slinks' \in [Vertex -> Nat]
  BY <1>3, <1>4 DEF AddVertex
<1>6. TypeOK'
  <2>1. \A v \in DOMAIN parent' : parent'[v] \in 0 .. v - 1
    <3>1. parent' = [w \in DOMAIN parent \cup {vrt} |->
                       IF w = vrt THEN to_vrt ELSE parent[w]]
      BY DEF AddVertex
    <3> QED BY <1>1, <1>3, <3>1 DEF TypeOK
  <2>2. \A s \in 1 .. mapped' : leaf'[s] \in 0 .. vrt' - 1
    BY <1>1, <1>3
  <2> QED BY <1>1, <1>2, <1>3, <1>4, <1>5, <2>1, <2>2 DEF TypeOK, M
<1>7. HostInv'
  BY <1>1 DEF HostInv
<1>8. CountInv'
  <2>1. num_vrt' = num_vrt
    BY <1>1 DEF num_vrt, M
  <2>2. subgroups >= 2
    BY <1>1 DEF CountInv
  <2>3. vrt' - 1 + mapped' = to_vrt' * M + (M - free_links')
    BY <1>1, <1>2, <1>3
  <2>4. vrt' \in 1 .. num_vrt
    BY <1>1, <1>3
  <2>5. ~Built' /\ stage' = "vertices" /\ mapped' = 0 /\ subgroups' = subgroups
    BY <1>1, <1>3 DEF Built, Rounds
  <2> QED BY <2>1, <2>2, <2>3, <2>4, <2>5 DEF CountInv, M
<1>9. LinkInv'
  <2> SUFFICES ASSUME NEW v \in Vertex
               PROVE  /\ slinks'[v] = Taken(vrt, v)
                      /\ slinks'[v] + wlinks[v] = Taken(vrt, v)
    BY <1>1, <1>3, <1>4 DEF LinkInv, Taken, M
  <2>1. slinks[v] = Taken(vrt - 1, v) /\ slinks[v] + wlinks[v] = Taken(vrt - 1, v)
    BY <1>1, <1>3 DEF LinkInv
  <2>2. Taken((vrt - 1) + 1, v) = Taken(vrt - 1, v) + (IF v = to_vrt THEN 1 ELSE 0)
    BY <1>3, <1>4, TakenNext
  <2>3. (vrt - 1) + 1 = vrt
    BY <1>3
  <2>4. slinks'[v] = slinks[v] + (IF v = to_vrt THEN 1 ELSE 0)
    BY <1>3, <1>4, <1>5
  <2>5. slinks[v] \in Nat /\ wlinks[v] \in Nat
    BY <1>3
  <2> QED BY <2>1, <2>2, <2>3, <2>4, <2>5
<1> QED BY <1>6, <1>7, <1>8, <1>9

LEMMA MapLeafInv == Inv /\ MapLeaf => Inv'
<1> SUFFICES ASSUME Inv, MapLeaf PROVE Inv'
  OBVIOUS
<1> USE DEF Inv
<1>1. /\ stage = "leaves" /\ stage' = stage /\ mapped < network /\ mapped' = mapped + 1
      /\ UNCHANGED <<network, subgroups, calls, graph_rdy, vrt, parent, slinks, roots>>
      /\ TakeLink /\ to_vrt < vrt
  BY DEF MapLeaf, VertexExists, host_vars
<1>2. /\ free_links' \in 1 .. M /\ to_vrt' \in Nat
      /\ to_vrt' * M + (M - free_links') = to_vrt * M + (M - free_links) + 1
  BY <1>1, TakeLinkCounts
<1>3. /\ free_links \in 1 .. M /\ to_vrt \in Nat /\ vrt \in Nat \ {0} /\ mapped \in Nat
      /\ vrt - 1 + mapped = to_vrt * M + (M - free_links) /\ vrt = num_vrt
      /\ slinks \in [Vertex -> Nat] /\ wlinks \in [Vertex -> Nat]
      /\ num_vrt \in Nat /\ num_vrt < subgroups /\ network \in Nat
      /\ subgroups \in 0 .. MaxCalls * MaxSubgroups
  <2>1. /\ free_links \in 1 .. M /\ to_vrt \in Nat
        /\ slinks \in [Vertex -> Nat] /\ wlinks \in [Vertex -> Nat]
        /\ subgroups \in 0 .. MaxCalls * MaxSubgroups
    BY DEF TypeOK
  <2>2. network \in Nat /\ mapped \in Nat
    BY TreeAssumption DEF TypeOK
  <2>3. /\ subgroups >= 2 /\ vrt \in 1 .. num_vrt /\ vrt = num_vrt
        /\ vrt - 1 + mapped = to_vrt * M + (M - free_links)
    BY <1>1 DEF CountInv
  <2>4. subgroups \in Nat
    BY <2>1, TreeAssumption, Product
  <2>5. num_vrt \in Nat /\ num_vrt < subgroups
    BY <2>3, <2>4, TreeSize
  <2> QED BY <2>1, <2>2, <2>3, <2>5
<1>4. to_vrt \in Vertex /\ Vertex' = Vertex /\ Vertex \subseteq Nat
  BY <1>1, <1>3, TreeAssumption, Product DEF Vertex
<1>5. wlinks' = [wlinks EXCEPT ![to_vrt] = @ + 1] /\ wlinks' \in [Vertex -> Nat]
  BY <1>3, <1>4 DEF MapLeaf
<1>6. TypeOK'
  <2>1. leaf' = [s \in 1 .. mapped + 1 |-> IF s = mapped + 1 THEN to_vrt ELSE leaf[s]]
    BY DEF MapLeaf
  <2>2. \A s \in 1 .. mapped' : leaf'[s] \in 0 .. vrt' - 1
    BY <1>1, <1>3, <2>1 DEF TypeOK
  <2> QED BY <1>1, <1>2, <1>3, <1>4, <1>5, <2>1, <2>2 DEF TypeOK, M
<1>7. HostInv'
  BY <1>1 DEF HostInv
<1>8. CountInv'
  <2>1. num_vrt' = num_vrt
    BY <1>1 DEF num_vrt, M
  <2>2. subgroups >= 2 /\ vrt \in 1 .. num_vrt
    BY <1>1 DEF CountInv
  <2>3. vrt' - 1 + mapped' = to_vrt' * M + (M - free_links')
    <3>1. vrt' - 1 + mapped' = (vrt - 1 + mapped) + 1
      BY <1>1, <1>3
    <3> QED BY <1>2, <1>3, <3>1
  <2>4. ~Built' /\ stage' = "leaves" /\ vrt' = vrt /\ vrt = num_vrt
        /\ subgroups' = subgroups
    BY <1>1, <1>3 DEF Built, Rounds
  <2> QED BY <2>1, <2>2, <2>3, <2>4 DEF CountInv, M
<1>9. LinkInv'
  <2> SUFFICES ASSUME NEW v \in Vertex
               PROVE  /\ slinks[v] = Taken(vrt - 1, v)
                      /\ slinks[v] + wlinks'[v] = Taken(vrt - 1 + (mapped + 1), v)
    BY <1>1, <1>3, <1>4 DEF LinkInv, Taken, M
  <2>1. slinks[v] = Taken(vrt - 1, v) /\ slinks[v] + wlinks[v] = Taken(vrt - 1 + mapped, v)
    BY <1>1 DEF LinkInv
  <2>2. Taken((vrt - 1 + mapped) + 1, v)
          = Taken(vrt - 1 + mapped, v) + (IF v = to_vrt THEN 1 ELSE 0)
    BY <1>3, <1>4, TakenNext
  <2>3. (vrt - 1 + mapped) + 1 = vrt - 1 + (mapped + 1)
    BY <1>3
  <2>4. wlinks'[v] = wlinks[v] + (IF v = to_vrt THEN 1 ELSE 0)
    BY <1>3, <1>4, <1>5
  <2>5. slinks[v] \in Nat /\ wlinks[v] \in Nat
    BY <1>3
  <2> QED BY <2>1, <2>2, <2>3, <2>4, <2>5
<1> QED BY <1>6, <1>7, <1>8, <1>9

\* The other steps leave the tree alone.
LEMMA OtherInv ==
  Inv /\ (\/ VerticesDone \/ GraphReady \/ Extend \/ StartRound
          \/ \E p \in inflight : Arrive(p)
          \/ UNCHANGED vars) => Inv'
<1> SUFFICES ASSUME Inv PROVE /\ VerticesDone => Inv'
                              /\ GraphReady => Inv'
                              /\ Extend => Inv'
                              /\ StartRound => Inv'
                              /\ (\E p \in inflight : Arrive(p)) => Inv'
                              /\ UNCHANGED vars => Inv'
  OBVIOUS
<1> USE DEF Inv, TypeOK, HostInv, CountInv, LinkInv, Vertex, Taken, num_vrt, M,
            host_vars, tree_vars
<1>1. VerticesDone => Inv'
  BY TreeSize DEF VerticesDone, Stages, Built, Rounds
<1>2. GraphReady => Inv'
  BY DEF GraphReady, Stages, Built, Rounds
<1>3. Extend => Inv'
  <2> SUFFICES ASSUME Extend PROVE Inv'
    OBVIOUS
  <2>1. /\ network' \in network .. MaxSubgroups /\ graph_rdy' = FALSE /\ stage' = "idle"
        /\ UNCHANGED <<subgroups, calls, free_links, to_vrt, vrt, mapped, parent, leaf,
                       slinks, wlinks, roots>>
    BY DEF Extend
  <2>2. network' \in 2 .. MaxSubgroups /\ mapped \in 0 .. network'
    BY <2>1, TreeAssumption
  <2> QED BY <2>1, <2>2 DEF Stages
<1>4. StartRound => Inv'
  BY DEF StartRound, Stages, Built, Rounds
<1>5. (\E p \in inflight : Arrive(p)) => Inv'
  BY DEF Arrive, Stages, Built, Rounds
<1>6. UNCHANGED vars => Inv'
  BY DEF vars, Built, Rounds
<1> QED BY <1>1, <1>2, <1>3, <1>4, <1>5, <1>6

LEMMA NextInv == Inv /\ [Next]_vars => Inv'
BY GenerateFailsInv, GenerateTreeInv, AddVertexInv, MapLeafInv, OtherInv
   DEF Next, Terminated

(***************************************************************************)
(* Theorems.                                                               *)
(***************************************************************************)
\* For every limit on links, every number of units and networks of any size:
\* the state is well formed, while the host builds the trees and while the
\* sum cores work (sum_vertex.py, SumVertexTree).
THEOREM TreeTypes == Spec => []TypeOK
BY InitInv, NextInv, InvImplies, PTL DEF Spec

\* The number of vertices computed in advance is enough: the loops that make
\* links never index a vertex that is not there.
THEOREM TreeAlwaysFits == Spec => []TreeFits
BY InitInv, NextInv, InvImplies, PTL DEF Spec

\* The packet counts written into every sum core, worked out from its index
\* alone, are those of the links the loops have made (SumVertex.config).
THEOREM CountsExact == Spec => []ExpectedExact
BY InitInv, NextInv, InvImplies, PTL DEF Spec

(***************************************************************************)
(* The shape of the tree: the links are counted where they are made.       *)
(***************************************************************************)
Subs == 1 .. vrt - 1
Children(v) == {w \in Subs : parent[w] = v}
Leaves(v) == {s \in 1 .. mapped : leaf[s] = v}

ShapeInv ==
  stage # "idle" =>
    /\ DOMAIN parent = Subs
    /\ \A v \in Vertex : /\ slinks[v] = Cardinality(Children(v))
                         /\ wlinks[v] = Cardinality(Leaves(v))

\* One element more is one more to count.
LEMMA CountOneMore ==
  ASSUME NEW n, NEW X, NEW x, IsFiniteSet(X), Cardinality(X) = n, x \notin X
  PROVE  Cardinality(X \cup {x}) = n + 1
BY FS_AddElement

\* A vertex has finitely many links.
LEMMA FiniteShape ==
  ASSUME Inv
  PROVE  \A v : IsFiniteSet(Children(v)) /\ IsFiniteSet(Leaves(v))
<1> TAKE v
<1>1. vrt \in Nat /\ mapped \in Nat
  BY TreeAssumption DEF Inv, TypeOK
<1>2. IsFiniteSet(1 .. vrt - 1) /\ IsFiniteSet(1 .. mapped)
  BY <1>1, FS_Interval
<1> QED BY <1>2, FS_Subset DEF Children, Leaves, Subs

\* The loops that make the links (SumVertexTree.__init__) keep the counts.
LEMMA GenerateTreeShape == Inv /\ GenerateTree => ShapeInv'
<1> SUFFICES ASSUME Inv, GenerateTree PROVE ShapeInv'
  OBVIOUS
<1>1. /\ parent' = <<>> /\ vrt' = 1 /\ mapped' = 0 /\ Vertex' = Vertex
      /\ \A v \in Vertex : slinks'[v] = 0 /\ wlinks'[v] = 0
  BY DEF GenerateTree, Vertex
<1>2. Subs' = {} /\ DOMAIN parent' = {}
  BY <1>1 DEF Subs
<1>3. \A v : Children(v)' = {} /\ Leaves(v)' = {}
  BY <1>1, <1>2 DEF Children, Leaves
<1> QED BY <1>1, <1>2, <1>3, FS_EmptySet DEF ShapeInv

LEMMA AddVertexShape == Inv /\ ShapeInv /\ AddVertex => ShapeInv'
<1> SUFFICES ASSUME Inv, ShapeInv, AddVertex PROVE ShapeInv'
  OBVIOUS
<1>1. /\ stage # "idle" /\ vrt' = vrt + 1 /\ vrt \in Nat \ {0} /\ to_vrt \in Vertex
      /\ parent' = [w \in DOMAIN parent \cup {vrt} |-> IF w = vrt THEN to_vrt ELSE parent[w]]
      /\ slinks' = [slinks EXCEPT ![to_vrt] = @ + 1]
      /\ UNCHANGED <<mapped, leaf, wlinks>> /\ Vertex' = Vertex
      /\ slinks \in [Vertex -> Nat]
  <2>1. /\ stage = "vertices" /\ vrt < num_vrt /\ to_vrt < vrt
    BY DEF AddVertex, VertexExists
  <2>2. vrt \in Nat \ {0} /\ to_vrt \in Vertex
    <3>1. subgroups \in 0 .. MaxCalls * MaxSubgroups /\ subgroups >= 2 /\ to_vrt \in Nat
          /\ vrt \in 1 .. num_vrt
      BY <2>1 DEF Inv, TypeOK, CountInv
    <3>2. subgroups \in Nat /\ MaxCalls * MaxSubgroups \in Nat
      BY <3>1, TreeAssumption, Product
    <3>3. num_vrt \in Nat /\ num_vrt < subgroups
      BY <3>1, <3>2, TreeSize
    <3> QED BY <2>1, <3>1, <3>2, <3>3 DEF Vertex
  <2> QED BY <2>1, <2>2 DEF AddVertex, Vertex, Inv, TypeOK
<1>2. /\ DOMAIN parent = Subs
      /\ \A v \in Vertex : /\ slinks[v] = Cardinality(Children(v))
                           /\ wlinks[v] = Cardinality(Leaves(v))
  BY <1>1 DEF ShapeInv
<1>3. Subs' = Subs \cup {vrt} /\ vrt \notin Subs /\ DOMAIN parent' = Subs'
  BY <1>1, <1>2 DEF Subs
<1>4. ASSUME NEW v \in Vertex
      PROVE  slinks'[v] = Cardinality(Children(v)')
  <2>1. Children(v)' = IF v = to_vrt THEN Children(v) \cup {vrt} ELSE Children(v)
    BY <1>1, <1>2, <1>3 DEF Children
  <2>2. vrt \notin Children(v)
    BY <1>3 DEF Children
  <2>3. slinks[v] \in Nat /\ slinks[v] = Cardinality(Children(v)) /\ IsFiniteSet(Children(v))
    BY <1>1, <1>2, FiniteShape
  <2>4. Cardinality(Children(v) \cup {vrt}) = slinks[v] + 1
    BY <2>2, <2>3, CountOneMore
  <2> QED BY <1>1, <2>1, <2>3, <2>4
<1>5. \A v : Leaves(v)' = Leaves(v)
  BY <1>1 DEF Leaves
<1> QED BY <1>1, <1>2, <1>3, <1>4, <1>5 DEF ShapeInv

LEMMA MapLeafShape == Inv /\ ShapeInv /\ MapLeaf => ShapeInv'
<1> SUFFICES ASSUME Inv, ShapeInv, MapLeaf PROVE ShapeInv'
  OBVIOUS
<1>1. /\ stage # "idle" /\ mapped \in Nat /\ mapped' = mapped + 1 /\ to_vrt \in Vertex
      /\ leaf' = [s \in 1 .. mapped + 1 |-> IF s = mapped + 1 THEN to_vrt ELSE leaf[s]]
      /\ wlinks' = [wlinks EXCEPT ![to_vrt] = @ + 1]
      /\ UNCHANGED <<vrt, parent, slinks>> /\ Vertex' = Vertex
      /\ wlinks \in [Vertex -> Nat]
  <2>1. stage = "leaves" /\ to_vrt < vrt
    BY DEF MapLeaf, VertexExists
  <2>2. mapped \in Nat /\ to_vrt \in Vertex
    <3>1. subgroups \in 0 .. MaxCalls * MaxSubgroups /\ subgroups >= 2 /\ to_vrt \in Nat
          /\ vrt \in 1 .. num_vrt /\ mapped \in 0 .. network
      BY <2>1 DEF Inv, TypeOK, CountInv
    <3>2. subgroups \in Nat /\ MaxCalls * MaxSubgroups \in Nat
      BY <3>1, TreeAssumption, Product
    <3>3. num_vrt \in Nat /\ num_vrt < subgroups
      BY <3>1, <3>2, TreeSize
    <3> QED BY <2>1, <3>1, <3>2, <3>3 DEF Vertex
  <2> QED BY <2>1, <2>2 DEF MapLeaf, Vertex, Inv, TypeOK
<1>2. /\ DOMAIN parent = Subs
      /\ \A v \in Vertex : /\ slinks[v] = Cardinality(Children(v))
                           /\ wlinks[v] = Cardinality(Leaves(v))
  BY <1>1 DEF ShapeInv
<1>3. Subs' = Subs /\ \A v : Children(v)' = Children(v)
  BY <1>1 DEF Subs, Children
<1>4. ASSUME NEW v \in Vertex
      PROVE  wlinks'[v] = Cardinality(Leaves(v)')
  <2>1. Leaves(v)' = IF v = to_vrt THEN Leaves(v) \cup {mapped + 1} ELSE Leaves(v)
    BY <1>1 DEF Leaves
  <2>2. mapped + 1 \notin Leaves(v)
    BY <1>1 DEF Leaves
  <2>3. wlinks[v] \in Nat /\ wlinks[v] = Cardinality(Leaves(v)) /\ IsFiniteSet(Leaves(v))
    BY <1>1, <1>2, FiniteShape
  <2>4. Cardinality(Leaves(v) \cup {mapped + 1}) = wlinks[v] + 1
    BY <2>2, <2>3, CountOneMore
  <2> QED BY <1>1, <2>1, <2>3, <2>4
<1> QED BY <1>1, <1>2, <1>3, <1>4 DEF ShapeInv

LEMMA ShapeNext == Inv /\ ShapeInv /\ [Next]_vars => ShapeInv'
<1> SUFFICES ASSUME Inv, ShapeInv, [Next]_vars PROVE ShapeInv'
  OBVIOUS
<1>1. ASSUME UNCHANGED <<vrt, mapped, parent, leaf, slinks, wlinks>>, stage = "idle" => stage' = "idle"
      PROVE  ShapeInv'
  <2>1. Subs' = Subs /\ Vertex' = Vertex
    BY <1>1 DEF Subs, Vertex
  <2>2. \A v : Children(v)' = Children(v) /\ Leaves(v)' = Leaves(v)
    BY <1>1, <2>1 DEF Children, Leaves
  <2> QED BY <1>1, <2>1, <2>2 DEF ShapeInv
<1>2. CASE GenerateFails \/ VerticesDone \/ GraphReady \/ Extend \/ UNCHANGED vars
  BY <1>1, <1>2 DEF GenerateFails, Generate, VerticesDone, GraphReady, Extend, vars,
                    tree_vars, host_vars
<1>3. CASE StartRound \/ \E p \in inflight : Arrive(p)
  BY <1>1, <1>3 DEF StartRound, Arrive, tree_vars, Rounds
<1> QED
  BY <1>2, <1>3, GenerateTreeShape, AddVertexShape, MapLeafShape DEF Next, Terminated

(***************************************************************************)
(* A round, in a tree that fits the network.  An item is what a weight     *)
(* core or another root sends; a vertex holds the items in its sum.  All   *)
(* is said of one vertex or one link at a time: an item is flying or its   *)
(* home holds it; a vertex waits for the links that have not brought       *)
(* anything; what is passed on is held by the parent; of two vertices that *)
(* hold an item, the lower one has passed it on.                           *)
(***************************************************************************)
Round == stage \in Rounds /\ subgroups = network
Vertices == 0 .. vrt - 1
Board == Boards(stage)

Items(u) == Products(u) \cup Others
Home(x) == IF x[1] > 0 THEN leaf[x[1]] ELSE 0
Sources(v, u) == {x \in Items(u) : Home(x) = v}
Pkt(x) == [to |-> Home(x), u |-> x[2], sum |-> SetToBag({x})]

Held(v, u) == DOMAIN sum[v][u]
Complete(w, u) == arrived[w][u] > 0 /\ arrived[w][u] = target(w)
ChildPkt(w, u) == [to |-> parent[w], u |-> u, sum |-> sum[w][u]]
Passed(w, u) == Complete(w, u) /\ ChildPkt(w, u) \notin inflight

Waits(v, u) == {w \in Children(v) : ~Passed(w, u)}
Flying(v, u) == {x \in Sources(v, u) : Pkt(x) \in inflight}

Boarded == /\ arrived = [v \in Vertices |-> [u \in Board |-> arrived[v][u]]]
           /\ sum = [v \in Vertices |-> [u \in Board |-> sum[v][u]]]

HoldsItems(v, u) == /\ arrived[v][u] \in Nat
                    /\ sum[v][u] = SetToBag(Held(v, u))
                    /\ Held(v, u) \subseteq Items(u)
                    /\ arrived[v][u] > 0 => Held(v, u) # {}

CountsLinks(v, u) ==
  arrived[v][u] + Cardinality(Waits(v, u)) + Cardinality(Flying(v, u)) = target(v)

HeldBelow(v, u) ==
  \A w \in Vertices : v < w /\ Held(v, u) \cap Held(w, u) # {} => Passed(w, u)

TakesAll(v, u) == \A w \in Children(v) : Passed(w, u) => Held(w, u) \subseteq Held(v, u)

Placed(v, u) ==
  \A x \in Items(u) : IF Pkt(x) \in inflight THEN x \notin Held(v, u)
                                             ELSE Home(x) = v => x \in Held(v, u)

VertexOK(v, u) == /\ HoldsItems(v, u) /\ CountsLinks(v, u) /\ HeldBelow(v, u)
                  /\ TakesAll(v, u) /\ Placed(v, u)

Known(p) == \E u \in Board : \/ \E x \in Items(u) : p = Pkt(x)
                             \/ \E w \in Subs : Complete(w, u) /\ p = ChildPkt(w, u)

RoundInv ==
  Round =>
    /\ Boarded
    /\ \A v \in Vertices, u \in Board : VertexOK(v, u)
    /\ \A p \in inflight : Known(p)
    /\ \A t \in sent : t.u \in Board /\ Complete(0, t.u) /\ t.sum = sum[0][t.u]
    /\ \A u \in Board : Complete(0, u) => \E t \in sent : t.u = u

(***************************************************************************)
(* What there is to come.                                                  *)
(***************************************************************************)
\* In a round the tree is made, and every parent has a smaller index.
LEMMA RoundFacts ==
  ASSUME Inv, ShapeInv, Round
  PROVE  /\ mapped = network /\ network \in Nat /\ roots \in Nat /\ vrt \in Nat \ {0}
         /\ vrt = num_vrt /\ Vertices \subseteq Vertex /\ Vertices \subseteq Nat
         /\ 0 \in Vertices /\ Subs \subseteq Vertices
         /\ \A w \in Subs : parent[w] \in Vertices /\ parent[w] < w
<1>1. /\ mapped = network /\ network \in Nat /\ roots \in Nat /\ vrt = num_vrt
      /\ vrt \in 1 .. num_vrt
  BY TreeAssumption DEF Inv, TypeOK, CountInv, Round, Built, Rounds
<1>2. subgroups \in Nat /\ subgroups >= 2 /\ MaxCalls * MaxSubgroups \in Nat
      /\ subgroups \in 0 .. MaxCalls * MaxSubgroups
  BY TreeAssumption, Product DEF Inv, TypeOK, CountInv, Round, Rounds
<1>3. num_vrt \in Nat \ {0} /\ num_vrt < subgroups
  BY <1>2, TreeSize
<1>4. \A w \in DOMAIN parent : parent[w] \in 0 .. w - 1
  BY DEF Inv, TypeOK
<1>5. \A w \in Subs : parent[w] \in Vertices /\ parent[w] < w
  <2>1. DOMAIN parent = Subs
    BY DEF ShapeInv, Round, Rounds
  <2> QED BY <1>1, <1>3, <1>4, <2>1 DEF Subs, Vertices
<1> QED BY <1>1, <1>2, <1>3, <1>5 DEF Vertices, Vertex, Subs

\* The other roots send one item each.
LEMMA OthersCount ==
  ASSUME Inv, ShapeInv, Round
  PROVE  /\ IsFiniteSet(Others)
         /\ Cardinality(Others) = IF stage = "net" THEN 0 ELSE roots
<1>1. CASE stage = "net"
  BY <1>1, FS_EmptySet DEF Others
<1>2. CASE stage # "net"
  <2>1. roots \in Nat
    BY RoundFacts
  <2>2. Others = (-roots .. -1) \X {0}
    <3>1. Others = {<<-r, 0>> : r \in 1 .. roots}
      BY <1>2 DEF Others
    <3>2. ASSUME NEW a \in -roots .. -1
          PROVE  -a \in 1 .. roots /\ -(-a) = a
      BY <2>1
    <3>3. \A r \in 1 .. roots : -r \in -roots .. -1
      BY <2>1
    <3>4. \A x \in (-roots .. -1) \X {0} : x \in Others
      <4> TAKE x \in (-roots .. -1) \X {0}
      <4>1. PICK a \in -roots .. -1 : x = <<a, 0>>
        OBVIOUS
      <4>2. -a \in 1 .. roots /\ x = <<-(-a), 0>>
        BY <3>2, <4>1
      <4> QED BY <3>1, <4>2
    <3>5. \A x \in Others : x \in (-roots .. -1) \X {0}
      BY <3>1, <3>3
    <3> QED BY <3>4, <3>5
  <2>3. IsFiniteSet(-roots .. -1) /\ Cardinality(-roots .. -1) = roots
    BY <2>1, FS_Interval
  <2>4. IsFiniteSet({0}) /\ Cardinality({0}) = 1
    BY FS_Singleton
  <2>5. PICK A : A = -roots .. -1
    OBVIOUS
  <2>6. IsFiniteSet(A) /\ Cardinality(A) = roots /\ Others = A \X {0}
    BY <2>2, <2>3, <2>5
  <2>7. IsFiniteSet(A \X {0}) /\ Cardinality(A \X {0}) = Cardinality(A) * Cardinality({0})
    BY <2>4, <2>6, FS_Product
  <2> QED BY <1>2, <2>1, <2>4, <2>6, <2>7
<1> QED BY <1>1, <1>2

\* The items a vertex gets from its own weight cores and from other roots.
FromLeaves(v, u) ==
  Leaves(v) \X (CASE stage = "net" -> {u} [] stage = "lds" -> Unit [] stage = "fsgn" -> {0})

\* An item is of the vertex's own weight cores or, at the root, of another root.
LEMMA SourceSets ==
  ASSUME Inv, ShapeInv, Round, NEW v \in Vertices, NEW u \in Board
  PROVE  /\ Sources(v, u) = FromLeaves(v, u) \cup (IF v = 0 THEN Others ELSE {})
         /\ FromLeaves(v, u) \cap Others = {}
<1>1. mapped = network /\ network \in Nat /\ roots \in Nat
  BY RoundFacts
<1>2. \A x \in Others : x[1] \in Int /\ ~(x[1] > 0) /\ Home(x) = 0
  BY <1>1 DEF Others, Home
<1>3. \A x \in Products(u) : x[1] \in 1 .. network /\ Home(x) = leaf[x[1]]
  BY <1>1 DEF Products, Home, Round, Rounds
<1>4. FromLeaves(v, u) = {x \in Products(u) : leaf[x[1]] = v}
  <2>1. CASE stage = "net"
    BY <1>1, <2>1 DEF FromLeaves, Products, Leaves
  <2>2. CASE stage = "lds"
    BY <1>1, <2>2 DEF FromLeaves, Products, Leaves
  <2>3. CASE stage = "fsgn"
    BY <1>1, <2>3 DEF FromLeaves, Products, Leaves
  <2> QED BY <2>1, <2>2, <2>3 DEF Round, Rounds
<1>5. \A x \in Products(u) : x \notin Others
  BY <1>1, <1>2, <1>3
<1> QED BY <1>2, <1>3, <1>4, <1>5 DEF Sources, Items

\* The links of a vertex are as many as it expects.
LEMMA SourcesCount ==
  ASSUME Inv, ShapeInv, Round, NEW v \in Vertices, NEW u \in Board
  PROVE  /\ IsFiniteSet(Sources(v, u)) /\ IsFiniteSet(Children(v))
         /\ Cardinality(Children(v)) + Cardinality(Sources(v, u)) = target(v)
<1> DEFINE c == CASE stage = "net" -> {u} [] stage = "lds" -> Unit [] stage = "fsgn" -> {0}
<1>1. /\ IsFiniteSet(Leaves(v)) /\ IsFiniteSet(Children(v)) /\ v \in Vertex
      /\ slinks[v] = Cardinality(Children(v)) /\ wlinks[v] = Cardinality(Leaves(v))
      /\ slinks[v] \in Nat /\ wlinks[v] \in Nat
  BY FiniteShape, RoundFacts DEF ShapeInv, Round, Rounds, Inv, TypeOK
<1>2. IsFiniteSet(c) /\ Cardinality(c) = IF stage = "lds" THEN Units ELSE 1
  <2>1. IsFiniteSet(Unit) /\ Cardinality(Unit) = Units
    BY FS_Interval, TreeAssumption DEF Unit
  <2>2. \A x : IsFiniteSet({x}) /\ Cardinality({x}) = 1
    BY FS_Singleton
  <2> QED BY <2>1, <2>2 DEF Round, Rounds
<1>3. /\ IsFiniteSet(FromLeaves(v, u))
      /\ Cardinality(FromLeaves(v, u)) = wlinks[v] * (IF stage = "lds" THEN Units ELSE 1)
  <2>1. FromLeaves(v, u) = Leaves(v) \X c
    BY DEF FromLeaves
  <2> HIDE DEF c
  <2> QED BY <1>1, <1>2, <2>1, FS_Product
<1>4. /\ IsFiniteSet(Sources(v, u))
      /\ Cardinality(Sources(v, u)) =
           Cardinality(FromLeaves(v, u)) + (IF stage = "net" THEN 0 ELSE FromRoots(v))
  <2>1. roots \in Nat /\ Cardinality(FromLeaves(v, u)) \in Nat
    BY <1>3, RoundFacts, FS_CardinalityType
  <2>2. CASE v = 0
    <3>1. Sources(v, u) = FromLeaves(v, u) \cup Others /\ FromLeaves(v, u) \cap Others = {}
      BY <2>2, SourceSets
    <3>2. IsFiniteSet(Others) /\ Cardinality(Others) = IF stage = "net" THEN 0 ELSE roots
      BY OthersCount
    <3>3. Cardinality(Sources(v, u)) =
            Cardinality(FromLeaves(v, u)) + Cardinality(Others) - 0
      BY <1>3, <3>1, <3>2, FS_Union, FS_EmptySet
    <3>4. IsFiniteSet(Sources(v, u))
      BY <1>3, <3>1, <3>2, FS_Union
    <3> QED BY <2>1, <2>2, <3>2, <3>3, <3>4 DEF FromRoots
  <2>3. CASE v # 0
    BY <1>3, <2>1, <2>3, SourceSets DEF FromRoots
  <2> QED BY <2>2, <2>3
<1>5. /\ expected(v) = slinks[v] + wlinks[v]
      /\ lds_expected(v) = slinks[v] + wlinks[v] * Units + FromRoots(v)
  BY InvImplies, RoundFacts DEF ExpectedExact, Round, Vertices
<1>6. FromRoots(v) \in Nat /\ wlinks[v] * Units \in Nat /\ wlinks[v] * 1 = wlinks[v]
  BY <1>1, RoundFacts, TreeAssumption, Product DEF FromRoots
<1> HIDE DEF c
<1>7. CASE stage = "net"
  BY <1>1, <1>3, <1>4, <1>5, <1>6, <1>7 DEF target
<1>8. CASE stage = "lds"
  BY <1>1, <1>3, <1>4, <1>5, <1>6, <1>8 DEF target
<1>9. CASE stage = "fsgn"
  BY <1>1, <1>3, <1>4, <1>5, <1>6, <1>9 DEF target, fsgn_expected
<1> QED BY <1>1, <1>4, <1>7, <1>8, <1>9 DEF Round, Rounds

(***************************************************************************)
(* Bags of items that occur once.                                          *)
(***************************************************************************)
LEMMA OnceAdded ==
  ASSUME NEW X, NEW Y, X \cap Y = {}
  PROVE  SetToBag(X) (+) SetToBag(Y) = SetToBag(X \cup Y)
<1> DEFINE b == SetToBag(X)
           c == SetToBag(Y)
<1>1. /\ b = [e \in X |-> 1] /\ c = [e \in Y |-> 1]
      /\ SetToBag(X \cup Y) = [e \in X \cup Y |-> 1]
  BY DEF SetToBag
<1> HIDE DEF b, c
<1>2. \A e \in X \cup Y : (IF e \in DOMAIN b THEN b[e] ELSE 0)
                           + (IF e \in DOMAIN c THEN c[e] ELSE 0) = 1
  BY <1>1
<1>3. b (+) c = [e \in X \cup Y |-> 1]
  BY <1>1, <1>2 DEF (+)
<1> QED BY <1>1, <1>3 DEF b, c

LEMMA OnceDomain == \A X : DOMAIN SetToBag(X) = X
BY DEF SetToBag

\* Different items of different boards, in different packets.
LEMMA OneBoard ==
  ASSUME Round, roots \in Nat, network \in Nat, NEW u \in Board, NEW x \in Items(u)
  PROVE  /\ (IF stage = "net" THEN x[2] ELSE 0) = u
         /\ \A y : Pkt(x) = Pkt(y) => x = y
         /\ Pkt(x).to = Home(x) /\ Pkt(x).u = x[2] /\ Pkt(x).sum = SetToBag({x})
         /\ \A w \in Board : x \in Items(w) => w = u
<1>1. stage # "net" => Board = {0}
  BY DEF Board, Boards
<1>2. stage = "net" => \A w \in Board : x \in Items(w) => x[2] = w
  BY DEF Items, Products, Others
<1>3. Pkt(x).to = Home(x) /\ Pkt(x).u = x[2] /\ Pkt(x).sum = SetToBag({x})
  BY DEF Pkt
<1>4. ASSUME NEW y, Pkt(x) = Pkt(y)
      PROVE  x = y
  <2>1. Pkt(y).sum = SetToBag({y})
    BY DEF Pkt
  <2>2. {x} = {y}
    BY <1>3, <1>4, <2>1, OnceDomain
  <2> QED BY <2>2
<1> QED BY <1>1, <1>2, <1>3, <1>4

(***************************************************************************)
(* The start of a round.                                                   *)
(***************************************************************************)
Started ==
  /\ stage \in Rounds
  /\ \A u \in Board : \A x \in Items(u) : Pkt(x) \in inflight
  /\ \A p \in inflight : \E u \in Board : \E x \in Items(u) : p = Pkt(x)
  /\ arrived = [v \in Vertices |-> [u \in Board |-> 0]]
  /\ sum = [v \in Vertices |-> [u \in Board |-> EmptyBag]]
  /\ sent = {}

\* At the start all the items fly and no vertex holds any.
LEMMA StartedInv == Inv /\ ShapeInv /\ Started => RoundInv
<1> SUFFICES ASSUME Inv, ShapeInv, Started, Round PROVE RoundInv
  BY DEF RoundInv
<1>1. Boarded
  BY DEF Started, Boarded
<1>2. ASSUME NEW v \in Vertices, NEW u \in Board
      PROVE  VertexOK(v, u)
  <2>1. arrived[v][u] = 0 /\ Held(v, u) = {} /\ sum[v][u] = SetToBag({})
    BY OnceDomain DEF Started, Held, EmptyBag
  <2>2. \A w \in Vertices : ~Complete(w, u) /\ ~Passed(w, u)
    BY DEF Started, Complete, Passed
  <2>3. Waits(v, u) = Children(v)
    BY <2>2, RoundFacts DEF Waits, Children
  <2>4. Flying(v, u) = Sources(v, u)
    BY DEF Started, Flying, Sources
  <2>5. CountsLinks(v, u)
    <3>1. Cardinality(Children(v)) + Cardinality(Sources(v, u)) = target(v)
      BY SourcesCount
    <3>2. Cardinality(Children(v)) \in Nat
      BY SourcesCount, FS_CardinalityType
    <3> QED BY <2>1, <2>3, <2>4, <3>1, <3>2 DEF CountsLinks
  <2>6. HoldsItems(v, u) /\ Placed(v, u) /\ HeldBelow(v, u)
    BY <2>1 DEF HoldsItems, Placed, HeldBelow, Started
  <2>7. TakesAll(v, u)
    BY <2>2, RoundFacts DEF TakesAll, Children
  <2> QED BY <2>5, <2>6, <2>7 DEF VertexOK
<1>3. \A p \in inflight : Known(p)
  BY DEF Started, Known
<1>4. sent = {} /\ \A u \in Board : ~Complete(0, u)
  BY RoundFacts DEF Started, Complete
<1> QED BY <1>1, <1>2, <1>3, <1>4 DEF RoundInv

\* What the weight cores and the other roots send are the items.
Begun == /\ network \in Nat /\ roots \in Nat /\ stage \in Rounds
         /\ inflight = FromCores(stage) \cup FromOthers(stage)

AllSent == /\ \A u \in Board : \A x \in Items(u) : Pkt(x) \in inflight
           /\ \A p \in inflight : \E u \in Board : \E x \in Items(u) : p = Pkt(x)

LEMMA ItemPackets == Begun => AllSent
<1> SUFFICES ASSUME network \in Nat, roots \in Nat, stage \in Rounds,
                    inflight = FromCores(stage) \cup FromOthers(stage)
             PROVE  AllSent
  BY DEF Begun
<1>1. ASSUME NEW s \in 1 .. network, NEW k
      PROVE  Wpkt(s, k) = Pkt(<<s, k>>)
  <2>1. <<s, k>>[1] = s /\ <<s, k>>[2] = k /\ s > 0
    OBVIOUS
  <2> QED BY <2>1 DEF Wpkt, Pkt, Home
<1>2. ASSUME NEW r \in 1 .. roots
      PROVE  Rpkt(r) = Pkt(<<-r, 0>>)
  <2>1. <<-r, 0>>[1] = -r /\ <<-r, 0>>[2] = 0 /\ ~(-r > 0)
    OBVIOUS
  <2> QED BY <2>1 DEF Rpkt, Pkt, Home
<1>3. /\ \A s \in 1 .. network : \A k \in PerCore(stage) : Pkt(<<s, k>>) \in inflight
      /\ stage # "net" => \A r \in 1 .. roots : Pkt(<<-r, 0>>) \in inflight
  BY <1>1, <1>2 DEF FromCores, FromOthers
<1>4. \A p \in inflight :
        \/ \E s \in 1 .. network : \E k \in PerCore(stage) : p = Pkt(<<s, k>>)
        \/ stage # "net" /\ \E r \in 1 .. roots : p = Pkt(<<-r, 0>>)
  BY <1>1, <1>2 DEF FromCores, FromOthers
<1>5. Board = IF stage = "net" THEN Unit ELSE {0}
  BY DEF Board, Boards
<1>6. \A u \in Board : Items(u) =
        {<<s, k>> : s \in 1 .. network, k \in IF stage = "net" THEN {u} ELSE PerCore(stage)}
          \cup (IF stage = "net" THEN {} ELSE {<<-r, 0>> : r \in 1 .. roots})
  BY DEF Items, Products, Others, PerCore, Rounds
<1>7. stage = "net" => PerCore(stage) = Unit
  BY DEF PerCore
<1>8. ASSUME NEW u \in Board, NEW x \in Items(u)
      PROVE  Pkt(x) \in inflight
  BY <1>3, <1>5, <1>6, <1>7, <1>8
<1>9. ASSUME NEW p \in inflight
      PROVE  \E u \in Board : \E x \in Items(u) : p = Pkt(x)
  <2>1. ASSUME NEW s \in 1 .. network, NEW k \in PerCore(stage)
        PROVE  \E u \in Board : <<s, k>> \in Items(u)
    BY <1>5, <1>6, <1>7
  <2>2. ASSUME stage # "net", NEW r \in 1 .. roots
        PROVE  \E u \in Board : <<-r, 0>> \in Items(u)
    BY <1>5, <1>6, <2>2
  <2> QED BY <1>4, <2>1, <2>2
<1> QED BY <1>8, <1>9 DEF AllSent

\* StartRound starts a round so.
LEMMA StartRoundInv == Inv /\ StartRound => Started'
<1> SUFFICES ASSUME Inv, StartRound PROVE Started'
  OBVIOUS
<1>1. /\ stage' \in Rounds /\ vrt' = vrt /\ network' = network /\ roots' = roots
      /\ inflight' = FromCores(stage') \cup FromOthers(stage')
      /\ arrived' = [v \in 0 .. vrt - 1 |-> [u \in Boards(stage') |-> 0]]
      /\ sum' = [v \in 0 .. vrt - 1 |-> [u \in Boards(stage') |-> EmptyBag]]
      /\ sent' = {} /\ leaf' = leaf
  BY DEF StartRound, host_vars, tree_vars
<1>2. inflight' = FromCores(stage)' \cup FromOthers(stage)'
  BY <1>1 DEF FromCores, FromOthers, Wpkt, Rpkt, PerCore, Unit
<1>3. network' \in Nat /\ roots' \in Nat /\ (stage \in Rounds)'
  BY <1>1, TreeAssumption DEF Inv, TypeOK, Rounds
<1>4. Begun'
  BY <1>2, <1>3 DEF Begun
<1>5. AllSent'
  BY <1>4, ItemPackets, PTL
<1>6. arrived' = [v \in Vertices' |-> [u \in Board' |-> 0]]
      /\ sum' = [v \in Vertices' |-> [u \in Board' |-> EmptyBag]]
  BY <1>1 DEF Vertices, Board, Boards, Unit
<1> QED BY <1>1, <1>3, <1>5, <1>6 DEF Started, AllSent

(***************************************************************************)
(* A packet: the items X, for board u of vertex v.                         *)
(***************************************************************************)
Carries(p, v, u, X) ==
  /\ v \in Vertices /\ u \in Board /\ p.to = v /\ (IF stage = "net" THEN p.u ELSE 0) = u
  /\ X # {} /\ X \subseteq Items(u) /\ p.sum = SetToBag(X)
  /\ \/ \E x \in Items(u) : X = {x} /\ Home(x) = v /\ p = Pkt(x)
     \/ \E w \in Children(v) : Complete(w, u) /\ p = ChildPkt(w, u) /\ X = Held(w, u)

InRound == Inv /\ ShapeInv /\ RoundInv /\ Round

\* What the proofs below use of a state within a round.
LEMMA InRoundFacts ==
  ASSUME InRound
  PROVE  /\ Boarded /\ \A v \in Vertices, u \in Board : VertexOK(v, u)
         /\ network \in Nat /\ roots \in Nat /\ vrt \in Nat \ {0} /\ Vertices \subseteq Nat
         /\ 0 \in Vertices /\ Subs \subseteq Vertices /\ \A w \in Subs : w > 0
         /\ \A w \in Subs : parent[w] \in Vertices /\ parent[w] < w
         /\ \A v \in Vertices : v # 0 => v \in Subs
BY RoundFacts DEF InRound, RoundInv, Subs, Vertices

\* Every item has a home.
LEMMA HomeIsVertex ==
  ASSUME InRound, NEW u \in Board, NEW x \in Items(u)
  PROVE  Home(x) \in Vertices
<1>1. mapped = network /\ \A s \in 1 .. mapped : leaf[s] \in Vertices
  BY RoundFacts DEF InRound, Inv, TypeOK, Vertices
<1>2. x[1] > 0 => x[1] \in 1 .. network
  BY InRoundFacts DEF Items, Products, Others, InRound, Round, Rounds
<1> QED BY <1>1, <1>2, InRoundFacts DEF Home

\* Every packet carries items.
LEMMA PacketCarries ==
  ASSUME InRound, NEW p \in inflight
  PROVE  \E v, u, X : Carries(p, v, u, X)
<1>1. PICK u \in Board : \/ \E x \in Items(u) : p = Pkt(x)
                         \/ \E w \in Subs : Complete(w, u) /\ p = ChildPkt(w, u)
  BY DEF InRound, RoundInv, Known
<1>2. ASSUME NEW x \in Items(u), p = Pkt(x)
      PROVE  Carries(p, Home(x), u, {x})
  BY <1>2, OneBoard, InRoundFacts, HomeIsVertex DEF Carries, InRound
<1>3. ASSUME NEW w \in Subs, Complete(w, u), p = ChildPkt(w, u)
      PROVE  Carries(p, parent[w], u, Held(w, u))
  <2>1. parent[w] \in Vertices /\ w \in Children(parent[w]) /\ HoldsItems(w, u)
    BY InRoundFacts DEF Children, VertexOK
  <2>2. Held(w, u) # {} /\ Held(w, u) \subseteq Items(u) /\ sum[w][u] = SetToBag(Held(w, u))
    BY <1>3, <2>1 DEF HoldsItems, Complete
  <2>3. p.to = parent[w] /\ p.u = u /\ p.sum = sum[w][u]
    BY <1>3 DEF ChildPkt
  <2>4. stage # "net" => u = 0
    BY DEF Board, Boards
  <2> QED BY <1>3, <2>1, <2>2, <2>3, <2>4 DEF Carries
<1> QED BY <1>1, <1>2, <1>3

\* Of two vertices that hold an item the lower one has passed it on.
LEMMA Lower ==
  ASSUME InRound, NEW a \in Vertices, NEW b \in Vertices, NEW u \in Board, a < b,
         NEW x \in Held(a, u), x \in Held(b, u)
  PROVE  Passed(b, u)
BY InRoundFacts DEF VertexOK, HeldBelow

\* What flies as an item, or is not passed on, is held by no vertex above.
LEMMA Fresh ==
  ASSUME InRound, NEW p \in inflight, NEW v, NEW u, NEW X, Carries(p, v, u, X)
  PROVE  /\ \A y \in X : y \notin Held(v, u)
         /\ \A a \in Vertices : a < v => \A y \in X : y \notin Held(a, u)
         /\ ~Complete(v, u) /\ arrived[v][u] < target(v)
<1>1. v \in Vertices /\ u \in Board
  BY DEF Carries
<1>2. /\ arrived[v][u] \in Nat /\ IsFiniteSet(Waits(v, u)) /\ IsFiniteSet(Flying(v, u))
      /\ arrived[v][u] + Cardinality(Waits(v, u)) + Cardinality(Flying(v, u)) = target(v)
  <2>1. IsFiniteSet(Children(v)) /\ IsFiniteSet(Sources(v, u))
    BY <1>1, SourcesCount DEF InRound
  <2>2. IsFiniteSet(Waits(v, u)) /\ IsFiniteSet(Flying(v, u))
    BY <2>1, FS_Subset DEF Waits, Flying
  <2> QED BY <1>1, <2>2, InRoundFacts DEF VertexOK, HoldsItems, CountsLinks
<1>3. CASE \E x \in Items(u) : X = {x} /\ Home(x) = v /\ p = Pkt(x)
  <2>1. PICK x \in Items(u) : X = {x} /\ Home(x) = v /\ p = Pkt(x)
    BY <1>3
  <2>2. \A a \in Vertices : x \notin Held(a, u)
    BY <1>1, <2>1, InRoundFacts DEF VertexOK, Placed
  <2>3. Flying(v, u) # {}
    BY <2>1 DEF Flying, Sources
  <2>4. Cardinality(Flying(v, u)) \in Nat \ {0} /\ Cardinality(Waits(v, u)) \in Nat
    BY <1>2, <2>3, FS_EmptySet, FS_CardinalityType
  <2> QED BY <1>1, <1>2, <2>1, <2>2, <2>4 DEF Complete
<1>4. CASE \E w \in Children(v) : Complete(w, u) /\ p = ChildPkt(w, u) /\ X = Held(w, u)
  <2>1. PICK w \in Children(v) : Complete(w, u) /\ p = ChildPkt(w, u) /\ X = Held(w, u)
    BY <1>4
  <2>2. w \in Vertices /\ v < w /\ ~Passed(w, u) /\ w \in Nat /\ v \in Nat
    BY <1>1, <2>1, InRoundFacts DEF Children, Passed
  <2>3. \A a \in Vertices : a < w => \A y \in X : y \notin Held(a, u)
    BY <1>1, <2>1, <2>2, Lower
  <2>4. \A a \in Vertices : a < v => a < w
    BY <2>2, InRoundFacts
  <2>5. Waits(v, u) # {}
    BY <2>1, <2>2 DEF Waits
  <2>6. Cardinality(Flying(v, u)) \in Nat /\ Cardinality(Waits(v, u)) \in Nat \ {0}
    BY <1>2, <2>5, FS_EmptySet, FS_CardinalityType
  <2>7. target(v) \in Nat /\ arrived[v][u] < target(v)
    BY <1>2, <2>6
  <2> QED BY <1>1, <1>2, <2>2, <2>3, <2>4, <2>7 DEF Complete
<1> QED BY <1>3, <1>4 DEF Carries

\* The packet of an item is no other's, and neither is that of a vertex.
LEMMA ItemApart ==
  ASSUME InRound, NEW u \in Board, NEW x \in Items(u), Pkt(x) \in inflight,
         NEW w \in Subs, NEW b \in Board, Complete(w, b)
  PROVE  ChildPkt(w, b) # Pkt(x)
<1> SUFFICES ASSUME ChildPkt(w, b) = Pkt(x) PROVE FALSE
  OBVIOUS
<1>1. w \in Vertices /\ HoldsItems(w, b) /\ Placed(w, b)
  BY InRoundFacts DEF VertexOK
<1>2. ChildPkt(w, b).sum = sum[w][b] /\ Pkt(x).sum = SetToBag({x})
  BY DEF ChildPkt, Pkt
<1>3. Held(w, b) = {x}
  BY <1>2, OnceDomain DEF Held
<1>4. x \in Items(b)
  BY <1>1, <1>3 DEF HoldsItems
<1> QED BY <1>1, <1>3, <1>4 DEF Placed

\* The packets of two vertices differ.
LEMMA VertexApart ==
  ASSUME InRound, NEW u \in Board, NEW w \in Subs, Complete(w, u), ~Passed(w, u),
         NEW c \in Subs, NEW b \in Board, Complete(c, b), ChildPkt(c, b) = ChildPkt(w, u)
  PROVE  c = w /\ b = u
<1>1. /\ w \in Vertices /\ c \in Vertices /\ w \in Nat /\ c \in Nat
      /\ HoldsItems(w, u) /\ HoldsItems(c, b)
  BY InRoundFacts DEF VertexOK
<1>2. ChildPkt(w, u).sum = sum[w][u] /\ ChildPkt(c, b).sum = sum[c][b]
  BY DEF ChildPkt
<1>3. Held(c, b) = Held(w, u)
  BY <1>2 DEF Held
<1>4. PICK x \in Held(w, u) : x \in Items(u) /\ x \in Items(b)
  BY <1>1, <1>3 DEF HoldsItems, Complete
<1>5. b = u
  BY <1>4, OneBoard, InRoundFacts DEF InRound
<1>6. ~Passed(c, b)
  BY <1>5 DEF Passed
<1>7. ~(c < w) /\ ~(w < c)
  BY <1>1, <1>3, <1>4, <1>5, <1>6, Lower
<1> QED BY <1>1, <1>5, <1>7

\* What vertex v holds once the packet is in, and the packet it sends on.
Total(v, u, X) == Held(v, u) \cup X
SentOn(v, u, X) == [to |-> parent[v], u |-> u, sum |-> SetToBag(Total(v, u, X))]

\* The packet sent on is a new one.
LEMMA SentOnApart ==
  ASSUME InRound, NEW p \in inflight, NEW v, NEW u, NEW X, Carries(p, v, u, X), v # 0
  PROVE  /\ \A b \in Board : \A y \in Items(b) : SentOn(v, u, X) # Pkt(y)
         /\ \A b \in Board : \A c \in Subs : Complete(c, b) => SentOn(v, u, X) # ChildPkt(c, b)
<1>1. /\ v \in Subs /\ u \in Board /\ v \in Vertices /\ parent[v] \in Vertices
      /\ v \in Nat /\ parent[v] \in Nat /\ parent[v] < v /\ HoldsItems(v, u) /\ X # {}
      /\ X \subseteq Items(u)
  BY InRoundFacts DEF Carries, VertexOK
<1>2. /\ SentOn(v, u, X).to = parent[v] /\ SentOn(v, u, X).u = u
      /\ SentOn(v, u, X).sum = SetToBag(Total(v, u, X))
  BY DEF SentOn
<1>3. Total(v, u, X) # {} /\ Total(v, u, X) \subseteq Items(u)
  BY <1>1 DEF Total, HoldsItems
<1>4. ~Complete(v, u)
  BY Fresh
\* no vertex above holds anything of it
<1>5. \A y \in Total(v, u, X) : y \notin Held(parent[v], u)
  <2>1. \A y \in Held(v, u) : y \notin Held(parent[v], u)
    BY <1>1, <1>4, Lower DEF Passed
  <2>2. \A y \in X : y \notin Held(parent[v], u)
    BY <1>1, Fresh
  <2> QED BY <2>1, <2>2 DEF Total
<1>6. ASSUME NEW b \in Board, NEW y \in Items(b), SentOn(v, u, X) = Pkt(y)
      PROVE  FALSE
  <2>1. Total(v, u, X) = {y} /\ Home(y) = parent[v]
    <3>1. Pkt(y).to = Home(y) /\ Pkt(y).sum = SetToBag({y})
      BY DEF Pkt
    <3>2. SetToBag(Total(v, u, X)) = SetToBag({y}) /\ Home(y) = parent[v]
      BY <1>2, <1>6, <3>1
    <3> QED BY <3>2, OnceDomain
  <2>2. y \in Items(u) /\ y \notin Held(parent[v], u)
    BY <1>3, <1>5, <2>1
  <2>3. Pkt(y) \in inflight
    BY <1>1, <2>1, <2>2, InRoundFacts DEF VertexOK, Placed
  <2>4. y \notin Held(v, u)
    BY <1>1, <2>2, <2>3, InRoundFacts DEF VertexOK, Placed
  <2>5. y \in X
    BY <2>1, <2>4 DEF Total
  <2>6. CASE \E x \in Items(u) : X = {x} /\ Home(x) = v /\ p = Pkt(x)
    BY <1>1, <2>1, <2>5, <2>6
  <2>7. CASE \E w \in Children(v) : Complete(w, u) /\ p = ChildPkt(w, u) /\ X = Held(w, u)
    <3>1. PICK w \in Children(v) : X = Held(w, u)
      BY <2>7
    <3>2. w \in Vertices
      BY InRoundFacts DEF Children
    <3> QED BY <1>1, <2>2, <2>3, <2>5, <3>1, <3>2, InRoundFacts DEF VertexOK, Placed
  <2> QED BY <2>6, <2>7 DEF Carries
<1>7. ASSUME NEW b \in Board, NEW c \in Subs, Complete(c, b), SentOn(v, u, X) = ChildPkt(c, b)
      PROVE  FALSE
  <2>1. /\ c \in Vertices /\ c \in Nat /\ HoldsItems(c, b)
    BY InRoundFacts DEF VertexOK
  <2>2. parent[c] = parent[v] /\ Held(c, b) = Total(v, u, X) /\ b = u
    <3>1. ChildPkt(c, b).to = parent[c] /\ ChildPkt(c, b).sum = sum[c][b] /\ ChildPkt(c, b).u = b
      BY DEF ChildPkt
    <3> QED BY <1>2, <1>7, <3>1, OnceDomain DEF Held
  <2>3. c # v
    BY <1>4, <1>7, <2>2
  \* c has not passed on what no vertex above v holds
  <2>4. ~Passed(c, u)
    <3>1. PICK y : y \in Total(v, u, X)
      BY <1>3
    <3>2. c \in Children(parent[v])
      BY <2>2 DEF Children
    <3> QED BY <1>1, <1>5, <2>2, <3>1, <3>2, InRoundFacts DEF VertexOK, TakesAll
  <2>5. \A y \in Held(v, u) : FALSE
    <3> SUFFICES ASSUME NEW y \in Held(v, u) PROVE FALSE
      OBVIOUS
    <3>1. y \in Held(c, u)
      BY <2>2 DEF Total
    <3>2. c < v \/ v < c
      BY <1>1, <2>1, <2>3
    <3> QED BY <1>1, <1>4, <2>1, <2>4, <3>1, <3>2, Lower DEF Passed
  <2>6. PICK y \in X : y \in Held(c, u)
    BY <1>1, <2>2 DEF Total
  <2>7. CASE \E x \in Items(u) : X = {x} /\ Home(x) = v /\ p = Pkt(x)
    BY <1>1, <2>1, <2>6, <2>7, InRoundFacts DEF VertexOK, Placed
  <2>8. CASE \E w \in Children(v) : Complete(w, u) /\ p = ChildPkt(w, u) /\ X = Held(w, u)
    <3>1. PICK w \in Children(v) : p = ChildPkt(w, u) /\ X = Held(w, u)
      BY <2>8
    <3>2. w \in Vertices /\ w \in Nat /\ parent[w] = v /\ ~Passed(w, u)
      BY <3>1, InRoundFacts DEF Children, Passed
    <3>3. w # c
      BY <1>1, <2>2, <3>2
    <3>4. c < w \/ w < c
      BY <2>1, <3>2, <3>3
    <3> QED BY <1>1, <2>1, <2>4, <2>6, <3>1, <3>2, <3>4, Lower
  <2> QED BY <2>7, <2>8 DEF Carries
<1> QED BY <1>6, <1>7

(***************************************************************************)
(* What the arrival changes.                                               *)
(***************************************************************************)
\* An arrival leaves the tree alone.
LEMMA SameShape ==
  ASSUME InRound, NEW p \in inflight, Arrive(p)
  PROVE  /\ Vertices' = Vertices /\ Board' = Board /\ Subs' = Subs /\ Round'
         /\ \A b : Items(b)' = Items(b)
         /\ \A x : Home(x)' = Home(x) /\ Pkt(x)' = Pkt(x)
         /\ \A a : target(a)' = target(a) /\ Children(a)' = Children(a)
         /\ \A a, b : Sources(a, b)' = Sources(a, b)
         /\ parent' = parent
<1>1. UNCHANGED <<network, subgroups, calls, graph_rdy, stage, free_links, to_vrt, vrt, mapped,
                  parent, leaf, slinks, wlinks, roots>>
  BY DEF Arrive, host_vars, tree_vars
<1>2. Vertices' = Vertices /\ Board' = Board /\ Subs' = Subs /\ Round'
  BY <1>1 DEF Vertices, Board, Boards, Unit, Subs, Round, InRound
<1>3. \A b : Items(b)' = Items(b)
  BY <1>1 DEF Items, Products, Others, Unit
<1>4. \A x : Home(x)' = Home(x) /\ Pkt(x)' = Pkt(x)
  BY <1>1 DEF Home, Pkt
<1>5. \A a : target(a)' = target(a)
  BY <1>1 DEF target, expected, lds_expected, fsgn_expected, FromRoots, num_vrt, lvs, M
<1>6. \A a : Children(a)' = Children(a)
  BY <1>1, <1>2 DEF Children
<1>7. \A a, b : Sources(a, b)' = Sources(a, b)
  BY <1>3, <1>4 DEF Sources
<1> QED BY <1>1, <1>2, <1>3, <1>4, <1>5, <1>6, <1>7

\* One vertex counts one packet and adds what it brings.
LEMMA Arrival ==
  ASSUME InRound, NEW p \in inflight, NEW v, NEW u, NEW X, Carries(p, v, u, X), Arrive(p)
  PROVE  /\ Boarded'
         /\ arrived'[v][u] = arrived[v][u] + 1 /\ sum'[v][u] = SetToBag(Total(v, u, X))
         /\ \A a \in Vertices : \A b \in Board : ~(a = v /\ b = u) =>
              arrived'[a][b] = arrived[a][b] /\ sum'[a][b] = sum[a][b]
         /\ inflight' = (inflight \ {p}) \cup
              (IF arrived[v][u] + 1 = target(v) /\ v # 0 THEN {SentOn(v, u, X)} ELSE {})
         /\ sent' = sent \cup
              (IF arrived[v][u] + 1 = target(v) /\ v = 0
               THEN {[u |-> u, sum |-> SetToBag(Total(v, u, X))]} ELSE {})
<1>1. /\ p.to = v /\ (IF stage = "net" THEN p.u ELSE 0) = u /\ p.sum = SetToBag(X)
      /\ v \in Vertices /\ u \in Board /\ \A y \in X : y \notin Held(v, u)
  BY Fresh DEF Carries
<1>2. sum[v][u] (+) p.sum = SetToBag(Total(v, u, X))
  <2>1. sum[v][u] = SetToBag(Held(v, u)) /\ Held(v, u) \cap X = {}
    BY <1>1, InRoundFacts DEF VertexOK, HoldsItems
  <2> QED BY <1>1, <2>1, OnceAdded DEF Total
<1> DEFINE total == SetToBag(Total(v, u, X))
           count == arrived[v][u] + 1
<1>3. /\ arrived' = [arrived EXCEPT ![v][u] = count]
      /\ sum' = [sum EXCEPT ![v][u] = total]
      /\ \/ count # target(v) /\ inflight' = inflight \ {p} /\ sent' = sent
         \/ /\ count = target(v) /\ v # 0 /\ sent' = sent
            /\ inflight' = (inflight \ {p}) \cup {[to |-> parent[v], u |-> u, sum |-> total]}
         \/ /\ count = target(v) /\ v = 0 /\ inflight' = inflight \ {p}
            /\ sent' = sent \cup {[u |-> u, sum |-> total]}
  BY <1>1, <1>2, Zenon DEF Arrive
<1>4. /\ arrived = [a \in Vertices |-> [b \in Board |-> arrived[a][b]]]
      /\ sum = [a \in Vertices |-> [b \in Board |-> sum[a][b]]]
  BY InRoundFacts DEF Boarded
<1> HIDE DEF total, count
<1>5. /\ arrived' = [a \in Vertices |-> [b \in Board |->
                       IF a = v /\ b = u THEN count ELSE arrived[a][b]]]
      /\ sum' = [a \in Vertices |-> [b \in Board |->
                   IF a = v /\ b = u THEN total ELSE sum[a][b]]]
  BY <1>1, <1>3, <1>4
<1>6. Boarded'
  BY <1>5, SameShape DEF Boarded
<1>7. arrived'[v][u] = count /\ sum'[v][u] = total
  BY <1>1, <1>5
<1>8. \A a \in Vertices : \A b \in Board : ~(a = v /\ b = u) =>
        arrived'[a][b] = arrived[a][b] /\ sum'[a][b] = sum[a][b]
  BY <1>5
<1> QED BY <1>3, <1>6, <1>7, <1>8 DEF total, count, SentOn

\* The link the packet came by, if a sum core sent it, is passed now; no
\* other is, and none is undone.
PassedNow(w, b, p) == Complete(w, b) /\ ChildPkt(w, b) = p

LEMMA ArrivalLinks ==
  ASSUME InRound, NEW p \in inflight, NEW v, NEW u, NEW X, Carries(p, v, u, X), Arrive(p)
  PROVE  /\ \A a \in Vertices : \A b \in Board :
              Held(a, b)' = IF a = v /\ b = u THEN Held(a, b) \cup X ELSE Held(a, b)
         /\ \A b \in Board : \A y \in Items(b) :
              Pkt(y)' \in inflight' <=> Pkt(y) \in inflight /\ Pkt(y) # p
         /\ \A w \in Vertices : \A b \in Board :
              Complete(w, b) => Complete(w, b)' /\ ~(w = v /\ b = u)
         /\ \A w \in Subs : \A b \in Board :
              Passed(w, b)' <=> Passed(w, b) \/ PassedNow(w, b, p)
<1>1. /\ v \in Vertices /\ u \in Board /\ X # {} /\ ~Complete(v, u)
      /\ arrived[v][u] \in Nat /\ arrived[v][u] < target(v)
  BY Fresh, InRoundFacts DEF Carries, VertexOK, HoldsItems
<1>2. ASSUME NEW a \in Vertices, NEW b \in Board
      PROVE  Held(a, b)' = IF a = v /\ b = u THEN Held(a, b) \cup X ELSE Held(a, b)
  <2>1. sum'[v][u] = SetToBag(Total(v, u, X))
    BY Arrival
  <2>2. DOMAIN (sum'[v][u]) = Held(v, u) \cup X
    BY <2>1, OnceDomain DEF Total
  <2>3. ~(a = v /\ b = u) => sum'[a][b] = sum[a][b]
    BY Arrival
  <2> QED BY <2>2, <2>3 DEF Held
<1>3. ASSUME NEW b \in Board, NEW y \in Items(b)
      PROVE  Pkt(y)' \in inflight' <=> Pkt(y) \in inflight /\ Pkt(y) # p
  <2>1. v # 0 => SentOn(v, u, X) # Pkt(y)
    BY SentOnApart
  <2>2. Pkt(y)' = Pkt(y)
    BY SameShape
  <2> QED BY <2>1, <2>2, Arrival
<1>4. ASSUME NEW w \in Vertices, NEW b \in Board, ~(w = v /\ b = u)
      PROVE  /\ Complete(w, b)' <=> Complete(w, b)
             /\ ChildPkt(w, b)' = ChildPkt(w, b)
  BY <1>4, Arrival, SameShape DEF Complete, ChildPkt
<1>5. ASSUME NEW w \in Subs, NEW b \in Board
      PROVE  Passed(w, b)' <=> Passed(w, b) \/ PassedNow(w, b, p)
  <2>1. w \in Vertices
    BY InRoundFacts
  <2>2. CASE w = v /\ b = u
    <3>1. ~Passed(w, b) /\ ~PassedNow(w, b, p)
      BY <1>1, <2>2 DEF Passed, PassedNow
    <3>2. ASSUME Complete(v, u)' PROVE ChildPkt(v, u)' \in inflight'
      <4>1. arrived[v][u] + 1 = target(v)
        BY <3>2, Arrival, SameShape DEF Complete
      <4>2. ChildPkt(v, u)' = SentOn(v, u, X) /\ v # 0
        BY <2>2, Arrival, SameShape, InRoundFacts DEF ChildPkt, SentOn
      <4> QED BY <4>1, <4>2, Arrival
    <3> QED BY <2>2, <3>1, <3>2 DEF Passed
  <2>3. CASE ~(w = v /\ b = u)
    <3>1. /\ Complete(w, b)' <=> Complete(w, b)
          /\ ChildPkt(w, b)' = ChildPkt(w, b)
      BY <1>4, <2>1, <2>3
    <3>2. ASSUME Complete(w, b), v # 0 PROVE SentOn(v, u, X) # ChildPkt(w, b)
      BY <3>2, SentOnApart
    <3>3. Complete(w, b) =>
            (ChildPkt(w, b) \in inflight' <=> ChildPkt(w, b) \in inflight /\ ChildPkt(w, b) # p)
      BY <3>2, Arrival
    <3> QED BY <3>1, <3>3 DEF Passed, PassedNow
  <2> QED BY <2>2, <2>3
<1>6. \A w \in Vertices : \A b \in Board :
        Complete(w, b) => Complete(w, b)' /\ ~(w = v /\ b = u)
  BY <1>1, <1>4
<1> QED BY <1>2, <1>3, <1>5, <1>6

\* The item or the link the packet is of.
LEMMA OneCame ==
  ASSUME InRound, NEW p \in inflight, NEW v, NEW u, NEW X, Carries(p, v, u, X)
  PROVE  \/ /\ \E x \in Flying(v, u) :
                 /\ X = {x} /\ Pkt(x) = p
                 /\ \A b \in Board : \A y \in Items(b) : Pkt(y) = p => y = x /\ b = u
            /\ \A w \in Subs : \A b \in Board : ~PassedNow(w, b, p)
         \/ /\ \E w \in Waits(v, u) :
                 /\ X = Held(w, u) /\ PassedNow(w, u, p)
                 /\ \A c \in Subs : \A b \in Board : PassedNow(c, b, p) => c = w /\ b = u
            /\ \A b \in Board : \A y \in Items(b) : Pkt(y) # p
<1>1. v \in Vertices /\ u \in Board
  BY DEF Carries
<1>2. CASE \E x \in Items(u) : X = {x} /\ Home(x) = v /\ p = Pkt(x)
  <2>1. PICK x \in Items(u) : X = {x} /\ Home(x) = v /\ p = Pkt(x)
    BY <1>2
  <2>2. x \in Flying(v, u)
    BY <2>1 DEF Flying, Sources
  <2>3. \A b \in Board : \A y \in Items(b) : Pkt(y) = p => y = x /\ b = u
    <3>1. Round /\ roots \in Nat /\ network \in Nat
      BY InRoundFacts DEF InRound
    <3>2. \A y : Pkt(x) = Pkt(y) => x = y
      BY <1>1, <3>1, OneBoard
    <3>3. \A b \in Board : x \in Items(b) => b = u
      BY <1>1, <3>1, OneBoard
    <3> QED BY <2>1, <3>2, <3>3
  <2>4. \A w \in Subs : \A b \in Board : ~PassedNow(w, b, p)
    BY <1>1, <2>1, ItemApart DEF PassedNow
  <2> QED BY <2>1, <2>2, <2>3, <2>4
<1>3. CASE \E w \in Children(v) : Complete(w, u) /\ p = ChildPkt(w, u) /\ X = Held(w, u)
  <2>1. PICK w \in Children(v) : Complete(w, u) /\ p = ChildPkt(w, u) /\ X = Held(w, u)
    BY <1>3
  <2>2. w \in Subs /\ ~Passed(w, u) /\ w \in Waits(v, u) /\ PassedNow(w, u, p)
    BY <2>1 DEF Children, Passed, Waits, PassedNow
  <2>3. \A c \in Subs : \A b \in Board : PassedNow(c, b, p) => c = w /\ b = u
    BY <1>1, <2>1, <2>2, VertexApart DEF PassedNow
  <2>4. \A b \in Board : \A y \in Items(b) : Pkt(y) # p
    BY <1>1, <2>1, <2>2, ItemApart
  <2> QED BY <2>1, <2>2, <2>3, <2>4
<1> QED BY <1>2, <1>3 DEF Carries

\* Every vertex is as it should be after an arrival.
LEMMA ArriveVertex ==
  ASSUME InRound, NEW p \in inflight, NEW v, NEW u, NEW X, Carries(p, v, u, X), Arrive(p),
         NEW a \in Vertices, NEW b \in Board
  PROVE  VertexOK(a, b)'
<1>1. /\ v \in Vertices /\ u \in Board /\ X # {} /\ X \subseteq Items(u) /\ p.to = v
      /\ ~Complete(v, u)
      /\ \A y \in X : y \notin Held(v, u)
      /\ \A c \in Vertices : c < v => \A y \in X : y \notin Held(c, u)
  BY Fresh DEF Carries
<1>2. /\ \A c \in Vertices : \A d \in Board :
           Held(c, d)' = IF c = v /\ d = u THEN Held(c, d) \cup X ELSE Held(c, d)
      /\ \A d \in Board : \A y \in Items(d) :
           Pkt(y)' \in inflight' <=> Pkt(y) \in inflight /\ Pkt(y) # p
      /\ \A w \in Subs : \A d \in Board :
           Passed(w, d)' <=> Passed(w, d) \/ PassedNow(w, d, p)
  BY ArrivalLinks
<1>3. /\ Vertices' = Vertices /\ Board' = Board /\ Subs' = Subs
      /\ \A d : Items(d)' = Items(d)
      /\ \A x : Home(x)' = Home(x) /\ Pkt(x)' = Pkt(x)
      /\ \A c : target(c)' = target(c) /\ Children(c)' = Children(c)
      /\ \A c, d : Sources(c, d)' = Sources(c, d)
  BY SameShape
<1>4. /\ HoldsItems(a, b) /\ CountsLinks(a, b) /\ HeldBelow(a, b) /\ TakesAll(a, b)
      /\ Placed(a, b)
      /\ a \in Nat /\ v \in Nat /\ Vertices \subseteq Nat /\ Subs \subseteq Vertices
      /\ \A c \in Vertices : a < c => c \in Subs
  BY <1>1, InRoundFacts DEF VertexOK
<1>5. \/ /\ \E x \in Flying(v, u) :
              /\ X = {x} /\ Pkt(x) = p
              /\ \A d \in Board : \A y \in Items(d) : Pkt(y) = p => y = x /\ d = u
         /\ \A w \in Subs : \A d \in Board : ~PassedNow(w, d, p)
      \/ /\ \E w \in Waits(v, u) :
              /\ X = Held(w, u) /\ PassedNow(w, u, p)
              /\ \A c \in Subs : \A d \in Board : PassedNow(c, d, p) => c = w /\ d = u
         /\ \A d \in Board : \A y \in Items(d) : Pkt(y) # p
  BY OneCame
\* the vertices that hold an item of the packet: they have passed it on
<1>6. ASSUME NEW c \in Vertices, c # v, NEW y \in X, y \in Held(c, u)
      PROVE  /\ v < c /\ Passed(c, u)'
             /\ \E w \in Children(v) : X = Held(w, u)
  <2>1. CASE \E x \in Flying(v, u) : X = {x} /\ Pkt(x) = p
    <3>1. y \in Items(u) /\ Pkt(y) \in inflight
      BY <1>1, <1>6, <2>1
    <3> QED BY <1>1, <1>6, <3>1, InRoundFacts DEF VertexOK, Placed
  <2>2. CASE \E w \in Waits(v, u) : X = Held(w, u) /\ PassedNow(w, u, p)
    <3>1. PICK w \in Waits(v, u) : X = Held(w, u) /\ PassedNow(w, u, p)
      BY <2>2
    <3>2. w \in Subs /\ w \in Vertices /\ w \in Children(v) /\ ~Passed(w, u) /\ c \in Nat /\ w \in Nat
          /\ v < w
      BY <1>4, InRoundFacts DEF Waits, Children
    <3>3. CASE c = w
      BY <1>1, <1>2, <3>1, <3>2, <3>3
    <3>4. CASE c < w
      BY <1>1, <1>6, <3>1, <3>2, <3>4, Lower
    <3>5. CASE w < c
      <4>1. Passed(c, u)
        BY <1>1, <1>6, <3>1, <3>2, <3>5, Lower
      <4>2. c \in Subs
        BY <1>6, <3>2, <3>5, <1>4, InRoundFacts
      <4> QED BY <1>1, <1>2, <1>4, <3>1, <3>2, <3>5, <4>1, <4>2
    <3> QED BY <3>2, <3>3, <3>4, <3>5
  <2> QED BY <1>5, <2>1, <2>2
<1>7. HoldsItems(a, b)'
  <2>1. CASE a = v /\ b = u
    <3>1. arrived'[a][b] = arrived[a][b] + 1 /\ sum'[a][b] = SetToBag(Held(a, b) \cup X)
      <4>1. arrived'[v][u] = arrived[v][u] + 1 /\ sum'[v][u] = SetToBag(Total(v, u, X))
        BY Arrival
      <4> QED BY <2>1, <4>1 DEF Total
    <3>2. Held(a, b)' = Held(a, b) \cup X
      BY <1>2, <2>1
    <3> QED BY <1>1, <1>3, <1>4, <2>1, <3>1, <3>2 DEF HoldsItems
  <2>2. CASE ~(a = v /\ b = u)
    <3>1. arrived'[a][b] = arrived[a][b] /\ sum'[a][b] = sum[a][b] /\ Held(a, b)' = Held(a, b)
      BY <1>2, <2>2, Arrival
    <3> QED BY <1>3, <1>4, <3>1 DEF HoldsItems
  <2> QED BY <2>1, <2>2
<1>8. HeldBelow(a, b)'
  <2> SUFFICES ASSUME NEW c \in Vertices, a < c, NEW y \in Held(a, b)', y \in Held(c, b)'
               PROVE  Passed(c, b)'
    BY <1>3 DEF HeldBelow
  <2>1. c \in Subs /\ c \in Nat
    BY <1>4
  <2>2. CASE y \in Held(a, b) /\ y \in Held(c, b)
    BY <1>2, <1>4, <2>1, <2>2 DEF HeldBelow
  <2>3. CASE b = u /\ y \in X /\ a = v /\ y \in Held(c, b)
    BY <1>4, <1>6, <2>1, <2>3
  <2>4. CASE b = u /\ y \in X /\ c = v /\ y \in Held(a, b)
    BY <1>1, <1>4, <2>4
  <2>5. a # c
    BY <1>4, <2>1
  <2> QED BY <1>2, <2>2, <2>3, <2>4, <2>5
<1>9. TakesAll(a, b)'
  <2> SUFFICES ASSUME NEW w \in Children(a), Passed(w, b)'
               PROVE  Held(w, b)' \subseteq Held(a, b)'
    BY <1>3 DEF TakesAll
  <2>1. w \in Subs /\ w \in Vertices /\ parent[w] = a /\ a < w
    BY <1>4, InRoundFacts DEF Children
  <2>2. CASE Passed(w, b)
    <3>1. ~(w = v /\ b = u)
      BY <1>1, <2>2 DEF Passed
    <3> QED BY <1>2, <1>4, <2>1, <2>2, <3>1 DEF TakesAll
  <2>3. CASE PassedNow(w, b, p)
    <3>1. p.to = a /\ p = ChildPkt(w, b)
      BY <2>1, <2>3 DEF PassedNow, ChildPkt
    <3>2. a = v /\ b = u /\ Held(w, u) = X
      BY <1>1, <1>5, <2>1, <2>3, <3>1
    <3>3. w # v
      BY <1>4, <2>1, <3>2
    <3> QED BY <1>2, <2>1, <3>2, <3>3
  <2> QED BY <1>2, <2>1, <2>2, <2>3
<1>10. Placed(a, b)'
  <2> SUFFICES ASSUME NEW y \in Items(b)
               PROVE  IF Pkt(y)' \in inflight' THEN y \notin Held(a, b)'
                                               ELSE Home(y) = a => y \in Held(a, b)'
    BY <1>3 DEF Placed
  <2>1. CASE Pkt(y) \in inflight /\ Pkt(y) # p
    <3>1. y \notin Held(a, b)
      BY <1>4, <2>1 DEF Placed
    <3>2. b = u => y \notin X
      <4>1. \A w \in Vertices : b = u => y \notin Held(w, u)
        BY <2>1, InRoundFacts DEF VertexOK, Placed
      <4>2. \A w \in Waits(v, u) : w \in Vertices
        BY <1>4 DEF Waits, Children
      <4> QED BY <1>5, <2>1, <4>1, <4>2
    <3> QED BY <1>2, <2>1, <3>1, <3>2
  <2>2. CASE Pkt(y) \notin inflight
    BY <1>2, <1>4, <2>2 DEF Placed
  <2>3. CASE Pkt(y) = p
    <3>1. X = {y} /\ b = u /\ Home(y) = v
      <4>1. PICK x \in Flying(v, u) : X = {x} /\ y = x /\ b = u
        BY <1>5, <2>3
      <4> QED BY <4>1 DEF Flying, Sources
    <3> QED BY <1>2, <2>3, <3>1
  <2> QED BY <2>1, <2>2, <2>3
<1>11. CountsLinks(a, b)'
  <2>1. /\ IsFiniteSet(Waits(a, b)) /\ IsFiniteSet(Flying(a, b)) /\ arrived[a][b] \in Nat
        /\ Cardinality(Waits(a, b)) \in Nat /\ Cardinality(Flying(a, b)) \in Nat
    <3>1. IsFiniteSet(Children(a)) /\ IsFiniteSet(Sources(a, b))
      BY SourcesCount DEF InRound
    <3>2. IsFiniteSet(Waits(a, b)) /\ IsFiniteSet(Flying(a, b))
      BY <3>1, FS_Subset DEF Waits, Flying
    <3> QED BY <1>4, <3>2, FS_CardinalityType DEF HoldsItems
  <2>2. Waits(a, b)' = {w \in Waits(a, b) : ~PassedNow(w, b, p)}
    <3>1. \A w \in Children(a) : w \in Subs
      BY DEF Children
    <3> QED BY <1>2, <1>3, <3>1 DEF Waits
  <2>3. Flying(a, b)' = {y \in Flying(a, b) : Pkt(y) # p}
    <3>1. \A y \in Sources(a, b) : y \in Items(b)
      BY DEF Sources
    <3> QED BY <1>2, <1>3, <3>1 DEF Flying
  <2>4. \A w \in Waits(a, b) : w \in Subs /\ (PassedNow(w, b, p) => a = v)
    BY <1>1 DEF Waits, Children, PassedNow, ChildPkt
  <2>5. \A y \in Flying(a, b) : y \in Items(b) /\ (Pkt(y) = p => a = v)
    BY <1>1 DEF Flying, Sources, Pkt
  <2>6. CASE ~(a = v /\ b = u)
    <3>1. Waits(a, b)' = Waits(a, b) /\ Flying(a, b)' = Flying(a, b)
      BY <1>5, <2>2, <2>3, <2>4, <2>5, <2>6
    <3>2. arrived'[a][b] = arrived[a][b] /\ target(a)' = target(a)
      BY <1>3, <2>6, Arrival
    <3> QED BY <1>4, <3>1, <3>2 DEF CountsLinks
  <2>7. CASE a = v /\ b = u
    <3>1. arrived'[a][b] = arrived[a][b] + 1 /\ target(a)' = target(a)
      BY <1>3, <2>7, Arrival
    <3>2. CASE \E x \in Flying(v, u) :
                 /\ Pkt(x) = p
                 /\ \A d \in Board : \A y \in Items(d) : Pkt(y) = p => y = x
                 /\ \A w \in Subs : \A d \in Board : ~PassedNow(w, d, p)
      <4>1. PICK x \in Flying(v, u) : /\ Pkt(x) = p
                                      /\ \A d \in Board : \A y \in Items(d) : Pkt(y) = p => y = x
                                      /\ \A w \in Subs : \A d \in Board : ~PassedNow(w, d, p)
        BY <3>2
      <4>2. Waits(a, b)' = Waits(a, b) /\ Flying(a, b)' = Flying(a, b) \ {x}
        BY <2>2, <2>3, <2>4, <2>5, <2>7, <4>1
      <4>3. Cardinality(Flying(a, b) \ {x}) = Cardinality(Flying(a, b)) - 1
        BY <2>1, <2>7, <4>1, FS_RemoveElement
      <4> QED BY <1>4, <2>1, <3>1, <4>2, <4>3 DEF CountsLinks
    <3>3. CASE \E w \in Waits(v, u) :
                 /\ PassedNow(w, u, p)
                 /\ \A c \in Subs : \A d \in Board : PassedNow(c, d, p) => c = w
                 /\ \A d \in Board : \A y \in Items(d) : Pkt(y) # p
      <4>1. PICK w \in Waits(v, u) :
                 /\ PassedNow(w, u, p)
                 /\ \A c \in Subs : \A d \in Board : PassedNow(c, d, p) => c = w
                 /\ \A d \in Board : \A y \in Items(d) : Pkt(y) # p
        BY <3>3
      <4>2. Waits(a, b)' = Waits(a, b) \ {w} /\ Flying(a, b)' = Flying(a, b)
        BY <2>2, <2>3, <2>4, <2>5, <2>7, <4>1
      <4>3. Cardinality(Waits(a, b) \ {w}) = Cardinality(Waits(a, b)) - 1
        BY <2>1, <2>7, <4>1, FS_RemoveElement
      <4> QED BY <1>4, <2>1, <3>1, <4>2, <4>3 DEF CountsLinks
    <3> QED BY <1>5, <3>2, <3>3
  <2> QED BY <2>6, <2>7
<1> QED BY <1>7, <1>8, <1>9, <1>10, <1>11 DEF VertexOK

\* So is the round.
LEMMA ArriveRound ==
  ASSUME InRound, NEW p \in inflight, Arrive(p)
  PROVE  RoundInv'
<1>1. PICK v, u, X : Carries(p, v, u, X)
  BY PacketCarries
<1>2. /\ v \in Vertices /\ u \in Board /\ ~Complete(v, u) /\ arrived[v][u] \in Nat
  BY <1>1, Fresh, InRoundFacts DEF Carries, VertexOK, HoldsItems
<1>3. /\ Boarded'
      /\ arrived'[v][u] = arrived[v][u] + 1 /\ sum'[v][u] = SetToBag(Total(v, u, X))
      /\ \A a \in Vertices : \A b \in Board : ~(a = v /\ b = u) =>
           arrived'[a][b] = arrived[a][b] /\ sum'[a][b] = sum[a][b]
      /\ inflight' = (inflight \ {p}) \cup
           (IF arrived[v][u] + 1 = target(v) /\ v # 0 THEN {SentOn(v, u, X)} ELSE {})
      /\ sent' = sent \cup
           (IF arrived[v][u] + 1 = target(v) /\ v = 0
            THEN {[u |-> u, sum |-> SetToBag(Total(v, u, X))]} ELSE {})
  BY <1>1, Arrival
<1>4. /\ Vertices' = Vertices /\ Board' = Board /\ Subs' = Subs /\ parent' = parent
      /\ \A b : Items(b)' = Items(b)
      /\ \A x : Pkt(x)' = Pkt(x)
      /\ \A a : target(a)' = target(a)
  BY SameShape
<1>5. \A a \in Vertices, b \in Board : VertexOK(a, b)'
  BY <1>1, ArriveVertex
<1>6. \A w \in Vertices : \A b \in Board :
        Complete(w, b) => Complete(w, b)' /\ ~(w = v /\ b = u)
  BY <1>1, ArrivalLinks
<1>7. ASSUME NEW q \in inflight'
      PROVE  Known(q)'
  <2>1. CASE q \in inflight
    <3>1. PICK b \in Board : \/ \E x \in Items(b) : q = Pkt(x)
                             \/ \E w \in Subs : Complete(w, b) /\ q = ChildPkt(w, b)
      BY <2>1 DEF InRound, RoundInv, Known
    <3>2. ASSUME NEW w \in Subs, Complete(w, b)
          PROVE  Complete(w, b)' /\ ChildPkt(w, b)' = ChildPkt(w, b)
      <4>1. w \in Vertices
        BY InRoundFacts
      <4> QED BY <1>3, <1>4, <1>6, <3>2, <4>1 DEF ChildPkt
    <3> QED BY <1>4, <3>1, <3>2 DEF Known
  <2>2. CASE q = SentOn(v, u, X) /\ arrived[v][u] + 1 = target(v) /\ v # 0
    <3>1. ChildPkt(v, u)' = SentOn(v, u, X)
      BY <1>3, <1>4 DEF ChildPkt, SentOn
    <3>2. Complete(v, u)' /\ v \in Subs
      BY <1>2, <1>3, <1>4, <2>2, InRoundFacts DEF Complete
    <3> QED BY <1>2, <1>4, <2>2, <3>1, <3>2 DEF Known
  <2> QED BY <1>3, <2>1, <2>2
<1>8. ASSUME NEW t \in sent'
      PROVE  t.u \in Board /\ Complete(0, t.u)' /\ t.sum = sum'[0][t.u]
  <2>1. CASE t \in sent
    <3>1. t.u \in Board /\ Complete(0, t.u) /\ t.sum = sum[0][t.u]
      BY <2>1 DEF InRound, RoundInv
    <3> QED BY <1>3, <1>6, <3>1, InRoundFacts
  <2>2. CASE /\ t = [u |-> u, sum |-> SetToBag(Total(v, u, X))]
             /\ arrived[v][u] + 1 = target(v) /\ v = 0
    BY <1>2, <1>3, <1>4, <2>2 DEF Complete
  <2> QED BY <1>3, <2>1, <2>2
<1>9. ASSUME NEW b \in Board, Complete(0, b)'
      PROVE  \E t \in sent' : t.u = b
  <2>1. CASE 0 = v /\ b = u
    <3>1. arrived[v][u] + 1 = target(v)
      BY <1>3, <1>4, <1>9, <2>1 DEF Complete
    <3>2. [u |-> u, sum |-> SetToBag(Total(v, u, X))] \in sent'
      BY <1>3, <2>1, <3>1
    <3>3. [u |-> u, sum |-> SetToBag(Total(v, u, X))].u = b
      BY <2>1
    <3> QED BY <3>2, <3>3
  <2>2. CASE ~(0 = v /\ b = u)
    <3>1. Complete(0, b)
      BY <1>3, <1>4, <1>9, <2>2, InRoundFacts DEF Complete
    <3>2. PICK t \in sent : t.u = b
      BY <3>1 DEF InRound, RoundInv
    <3> QED BY <1>3, <3>2
  <2> QED BY <2>1, <2>2
<1> QED BY <1>3, <1>4, <1>5, <1>7, <1>8, <1>9 DEF RoundInv

TreeInv == Inv /\ ShapeInv /\ RoundInv

\* The invariant of building and of rounds is inductive.
LEMMA InitTree == Init => TreeInv
<1>1. Init => stage = "idle"
  BY DEF Init
<1> QED BY <1>1, InitInv DEF TreeInv, ShapeInv, RoundInv, Round, Rounds

LEMMA NextTree == TreeInv /\ [Next]_vars => TreeInv'
<1> SUFFICES ASSUME TreeInv, [Next]_vars PROVE RoundInv'
  BY NextInv, ShapeNext DEF TreeInv
<1>1. Inv' /\ ShapeInv'
  BY NextInv, ShapeNext DEF TreeInv
<1>2. CASE StartRound
  <2>1. Started'
    BY <1>2, StartRoundInv DEF TreeInv
  <2> QED BY <1>1, <2>1, StartedInv, PTL
<1>3. CASE \E p \in inflight : Arrive(p)
  <2>1. PICK p \in inflight : Arrive(p)
    BY <1>3
  <2>2. CASE Round
    BY <2>1, <2>2, ArriveRound DEF InRound, TreeInv
  <2>3. CASE ~Round
    <3>1. stage' = stage /\ subgroups' = subgroups /\ network' = network
      BY <2>1 DEF Arrive, host_vars
    <3> QED BY <2>3, <3>1 DEF RoundInv, Round, Rounds
  <2> QED BY <2>2, <2>3
<1>4. CASE GenerateFails \/ GenerateTree \/ AddVertex \/ VerticesDone \/ MapLeaf \/ GraphReady
           \/ Extend
  <2>1. stage' \notin Rounds
    BY <1>4 DEF GenerateFails, Generate, GenerateTree, AddVertex, VerticesDone, MapLeaf,
                GraphReady, Extend, Rounds
  <2> QED BY <2>1 DEF RoundInv, Round, Rounds
<1>5. CASE UNCHANGED vars
  <2> USE <1>5 DEF vars, host_vars, tree_vars, round_vars
  <2>1. Round' = Round /\ Vertices' = Vertices /\ Board' = Board /\ Subs' = Subs
    BY DEF Round, Rounds, Vertices, Board, Boards, Unit, Subs
  <2>2. \A b : Items(b)' = Items(b)
    BY DEF Items, Products, Others, Unit
  <2>3. \A x : Home(x)' = Home(x) /\ Pkt(x)' = Pkt(x)
    BY DEF Home, Pkt
  <2>4. \A a : target(a)' = target(a)
    BY DEF target, expected, lds_expected, fsgn_expected, FromRoots, num_vrt, lvs, M
  <2>5. /\ \A a : Children(a)' = Children(a)
        /\ \A a, b : Sources(a, b)' = Sources(a, b)
    BY <2>1, <2>2, <2>3 DEF Children, Sources
  <2>6. \A a, b : /\ Held(a, b)' = Held(a, b) /\ Complete(a, b)' = Complete(a, b)
                  /\ ChildPkt(a, b)' = ChildPkt(a, b) /\ Passed(a, b)' = Passed(a, b)
    BY <2>4 DEF Held, Complete, ChildPkt, Passed
  <2>7. \A a, b : Waits(a, b)' = Waits(a, b) /\ Flying(a, b)' = Flying(a, b)
    BY <2>3, <2>5, <2>6 DEF Waits, Flying
  <2>8. \A a, b : VertexOK(a, b)' = VertexOK(a, b)
    BY <2>1, <2>2, <2>3, <2>4, <2>5, <2>6, <2>7
       DEF VertexOK, HoldsItems, CountsLinks, HeldBelow, TakesAll, Placed
  <2>9. \A p : Known(p)' = Known(p)
    BY <2>1, <2>2, <2>3, <2>6 DEF Known
  <2>10. Boarded' = Boarded
    BY <2>1 DEF Boarded
  <2> QED BY <2>1, <2>6, <2>8, <2>9, <2>10 DEF TreeInv, RoundInv
<1> QED BY <1>2, <1>3, <1>4, <1>5 DEF Next, Terminated

\* Every nonempty set of numbers has a least element.
LEMMA LeastNumber ==
  ASSUME NEW X \in SUBSET Nat, X # {}
  PROVE  \E x \in X : \A y \in X : x <= y
<1>1. \E x \in X : \A y \in X : ~ (<<y, x>> \in OpToRel(<, Nat))
  BY NatLessThanWellFounded, WFMin
<1>2. \A x, y \in X : <<y, x>> \in OpToRel(<, Nat) <=> y < x
  BY DEF OpToRel
<1>3. \A x, y \in X : ~ (y < x) => x <= y
  OBVIOUS
<1> QED BY <1>1, <1>2, <1>3

\* A complete vertex has heard of every link of its own.
LEMMA NothingOut ==
  ASSUME InRound, NEW v \in Vertices, NEW u \in Board, Complete(v, u)
  PROVE  Waits(v, u) = {} /\ Flying(v, u) = {}
<1>1. IsFiniteSet(Waits(v, u)) /\ IsFiniteSet(Flying(v, u))
  <2>1. IsFiniteSet(Children(v)) /\ IsFiniteSet(Sources(v, u))
    BY SourcesCount DEF InRound
  <2> QED BY <2>1, FS_Subset DEF Waits, Flying
<1>2. Cardinality(Waits(v, u)) \in Nat /\ Cardinality(Flying(v, u)) \in Nat
  BY <1>1, FS_CardinalityType
<1>3. arrived[v][u] \in Nat /\ arrived[v][u] = target(v)
      /\ arrived[v][u] + Cardinality(Waits(v, u)) + Cardinality(Flying(v, u)) = target(v)
  BY InRoundFacts DEF VertexOK, HoldsItems, CountsLinks, Complete
<1>4. Cardinality(Waits(v, u)) = 0 /\ Cardinality(Flying(v, u)) = 0
  BY <1>2, <1>3
<1> QED BY <1>1, <1>4, FS_EmptySet

\* When the root is complete all of the tree is: the first vertex that has not
\* passed on its sum would be missed by its parent.  So an item is held by the
\* root, or by a vertex that has passed it on to the one above.
LEMMA RootHoldsAll ==
  ASSUME InRound, NEW u \in Board, Complete(0, u)
  PROVE  Held(0, u) = Items(u)
<1>1. \A w \in Subs : Passed(w, u)
  <2> DEFINE Late == {w \in Subs : ~Passed(w, u)}
  <2> SUFFICES ASSUME Late # {} PROVE FALSE
    OBVIOUS
  <2>1. Late \in SUBSET Nat
    BY InRoundFacts
  <2>2. PICK w \in Late : \A c \in Late : w <= c
    BY <2>1, LeastNumber
  <2>3. w \in Subs /\ ~Passed(w, u) /\ w \in Children(parent[w]) /\ w \in Nat
        /\ parent[w] \in Vertices /\ parent[w] < w /\ parent[w] \in Nat
    BY <2>2, InRoundFacts DEF Children
  <2>4. parent[w] = 0 \/ Passed(parent[w], u)
    BY <2>2, <2>3, InRoundFacts
  <2>5. Complete(parent[w], u)
    BY <2>4 DEF Passed
  <2> QED BY <2>3, <2>5, NothingOut DEF Waits
<1>2. \A v \in Vertices : Complete(v, u)
  BY <1>1, InRoundFacts DEF Passed
<1>3. ASSUME NEW x \in Items(u)
      PROVE  x \in Held(0, u)
  <2>1. Home(x) \in Vertices /\ Flying(Home(x), u) = {}
    BY <1>2, HomeIsVertex, NothingOut
  <2>2. Pkt(x) \notin inflight
    BY <2>1 DEF Flying, Sources
  <2>3. x \in Held(Home(x), u)
    BY <2>1, <2>2, InRoundFacts DEF VertexOK, Placed
  <2> DEFINE Has == {v \in Vertices : x \in Held(v, u)}
  <2>4. Has \in SUBSET Nat /\ Has # {}
    BY <2>1, <2>3, InRoundFacts
  <2>5. PICK v \in Has : \A c \in Has : v <= c
    BY <2>4, LeastNumber
  <2>6. CASE v = 0
    BY <2>5, <2>6
  <2>7. CASE v # 0
    <3>1. v \in Subs /\ v \in Children(parent[v]) /\ parent[v] \in Vertices /\ parent[v] < v
          /\ v \in Nat /\ parent[v] \in Nat
      BY <2>5, <2>7, InRoundFacts DEF Children
    <3>2. x \in Held(parent[v], u)
      BY <1>1, <2>5, <3>1, InRoundFacts DEF VertexOK, TakesAll
    <3> QED BY <2>5, <3>1, <3>2
  <2> QED BY <2>6, <2>7
<1>4. Held(0, u) \subseteq Items(u)
  BY InRoundFacts DEF VertexOK, HoldsItems
<1> QED BY <1>3, <1>4

\* It implies that totals are exact.
LEMMA TreeImplies == TreeInv => TotalExact
<1> SUFFICES ASSUME TreeInv, Round, NEW t \in sent
             PROVE  t.sum = SetToBag(Products(t.u) \cup Others)
  BY DEF TotalExact, Round
<1>1. InRound
  BY DEF InRound, TreeInv
<1>2. t.u \in Board /\ Complete(0, t.u) /\ t.sum = sum[0][t.u]
  BY DEF TreeInv, RoundInv
<1>3. sum[0][t.u] = SetToBag(Held(0, t.u))
  BY <1>1, <1>2, InRoundFacts DEF VertexOK, HoldsItems
<1> QED BY <1>1, <1>2, <1>3, RootHoldsAll DEF Items

\* When no packet is on its way the root is complete: of the vertices that are
\* not the last one made waits for nothing.
LEMMA QuietComplete ==
  ASSUME InRound, inflight = {}, NEW u \in Board
  PROVE  Complete(0, u)
<1> DEFINE Partial == {v \in Vertices : ~Complete(v, u)}
           Mirror == {vrt - v : v \in Partial}
<1> SUFFICES ASSUME Partial # {} PROVE FALSE
  BY InRoundFacts
<1>1. Mirror \in SUBSET Nat /\ Mirror # {}
  BY InRoundFacts DEF Vertices
<1>2. PICK n \in Mirror : \A k \in Mirror : n <= k
  BY <1>1, LeastNumber
<1>3. PICK v \in Partial : n = vrt - v
  BY <1>2
<1>4. ASSUME NEW w \in Vertices, v < w
      PROVE  Complete(w, u)
  <2>1. v \in Nat /\ w \in Nat /\ vrt \in Nat
    BY <1>3, InRoundFacts
  <2>2. w \in Partial => vrt - v <= vrt - w
    BY <1>2, <1>3
  <2>3. w \notin Partial
    BY <1>4, <2>1, <2>2
  <2> QED BY <2>3
<1>5. Waits(v, u) = {}
  BY <1>3, <1>4, InRoundFacts DEF Waits, Children, Passed
<1>6. Flying(v, u) = {}
  BY DEF Flying
<1>7. arrived[v][u] \in Nat /\ arrived[v][u] = target(v)
  <2>1. v \in Vertices
    BY <1>3
  <2>2. arrived[v][u] \in Nat
    BY <2>1, InRoundFacts DEF VertexOK, HoldsItems
  <2>3. arrived[v][u] + Cardinality(Waits(v, u)) + Cardinality(Flying(v, u)) = target(v)
    BY <2>1, InRoundFacts DEF VertexOK, CountsLinks
  <2> QED BY <1>5, <1>6, <2>2, <2>3, FS_EmptySet
<1>8. target(v) > 0
  <2>1. v \in Vertices /\ v \in Vertex
    BY <1>3, RoundFacts DEF InRound
  <2>2. expected(v) > 0 /\ expected(v) \in Nat
    <3>1. subgroups \in Nat /\ subgroups >= 2
      BY InRoundFacts, RoundFacts DEF InRound, Inv, TypeOK, CountInv, Round, Rounds
    <3> QED BY <3>1, TreeSize, MIsNat DEF expected
  <2>3. /\ expected(v) = slinks[v] + wlinks[v] /\ slinks[v] \in Nat /\ wlinks[v] \in Nat
        /\ lds_expected(v) = slinks[v] + wlinks[v] * Units + FromRoots(v)
    BY <2>1, InvImplies, RoundFacts
       DEF ExpectedExact, InRound, Round, Vertices, Inv, TypeOK
  <2>4. wlinks[v] <= wlinks[v] * Units /\ wlinks[v] * Units \in Nat
    BY <2>3, TreeAssumption, Enlarges, Product
  <2>5. FromRoots(v) \in Nat
    BY InRoundFacts DEF FromRoots
  <2> QED BY <2>2, <2>3, <2>4, <2>5 DEF target, fsgn_expected, InRound, Round, Rounds
<1> QED BY <1>3, <1>7, <1>8 DEF Complete

\* Of a round that is over nothing is missing.
NothingMissing == Round /\ inflight = {} => {t.u : t \in sent} = Board

\* And that of a quiet round nothing is missing.
LEMMA QuietSent == TreeInv => NothingMissing
<1> SUFFICES ASSUME TreeInv, Round, inflight = {}
             PROVE  {t.u : t \in sent} = Board
  BY DEF NothingMissing
<1>1. \A u \in Board : \E t \in sent : t.u = u
  BY QuietComplete DEF InRound, TreeInv, RoundInv
<1>2. \A t \in sent : t.u \in Board
  BY DEF TreeInv, RoundInv
<1> QED BY <1>1, <1>2

\* A total the root sends has every product of every weight core in it, and
\* every total of another root, once: with trees of any size, whatever the
\* order in which the packets arrive (sf_process, sb_process, s_lds_packet,
\* s_fsgn_packet).
THEOREM TotalsExact == Spec => []TotalExact
BY InitTree, NextTree, TreeImplies, PTL DEF Spec

\* No sum core waits for a packet that nobody sends: once no packet is on its
\* way the root has sent the total of every board (that packets do arrive is
\* the fairness of TotalSent).
THEOREM NoTotalMissing == Spec => []NothingMissing
BY InitTree, NextTree, QuietSent, PTL DEF Spec
=============================================================================
