------------------------------- MODULE SumTree -------------------------------
(***************************************************************************)
(* The sum cores of one subgroup.  A sum core has at most                  *)
(* MAX_S_CORE_LINKS links; the host builds a tree of them when there are   *)
(* more weight cores (sum_vertex.py, SumVertexTree), and writes into each  *)
(* how many packets to expect (SumVertex.config).  The sum cores only      *)
(* count (process_s.c, comms_s.c).                                         *)
(*                                                                         *)
(* PDP2 has trees of a single vertex; what it takes for granted of them is *)
(* shown here of any.                                                      *)
(***************************************************************************)
EXTENDS Integers, FiniteSets, Bags

CONSTANTS
  MAX_S_CORE_LINKS,
  Units,           \* units of the subgroup
  MaxSubgroups,    \* bound on the subgroups of the network
  MaxRoots,        \* bound on the other roots that report to this one
  MaxCalls         \* bound on the calls of generate_machine_graph

ASSUME TreeAssumption ==
  /\ MAX_S_CORE_LINKS \in Nat /\ MAX_S_CORE_LINKS >= 2
  /\ Units \in Nat \ {0} /\ MaxSubgroups \in Nat /\ MaxRoots \in Nat /\ MaxCalls \in Nat

VARIABLES
  network,         \* number of subgroups the groups of the network have
  subgroups,       \* the host's tally of them
  calls, graph_rdy,
  stage,           \* what goes on: a value of Stages
  free_links, to_vrt,
  vrt,             \* vertices made so far: 0 .. vrt - 1
  mapped,          \* subgroups mapped so far: 1 .. mapped
  parent, leaf,    \* links of sum and of weight cores
  slinks, wlinks,  \* ghosts: how many of each a vertex has
  roots,           \* roots that report to this one
  inflight,        \* packets
  arrived, sum,    \* by vertex and scoreboard
  sent             \* what the root has sent

host_vars == <<network, subgroups, calls, graph_rdy>>
tree_vars == <<free_links, to_vrt, vrt, mapped, parent, leaf, slinks, wlinks>>
round_vars == <<inflight, arrived, sum, sent>>
vars == <<host_vars, stage, tree_vars, roots, round_vars>>

Rounds == {"net", "lds", "fsgn"}
Stages == {"idle", "vertices", "leaves", "ready"} \cup Rounds

Unit == 0 .. Units - 1
Vertex == 0 .. MaxCalls * MaxSubgroups

Init ==
  /\ network \in 2 .. MaxSubgroups    \* the Bias group and another
  /\ roots \in 0 .. MaxRoots
  /\ subgroups = 0 /\ calls = 0 /\ graph_rdy = FALSE /\ stage = "idle"
  /\ free_links = MAX_S_CORE_LINKS /\ to_vrt = 0 /\ vrt = 0 /\ mapped = 0
  /\ parent = <<>> /\ leaf = <<>>
  /\ slinks = [v \in Vertex |-> 0] /\ wlinks = [v \in Vertex |-> 0]
  /\ inflight = {} /\ arrived = <<>> /\ sum = <<>> /\ sent = {}

(***************************************************************************)
(* SumVertex.config: the scoreboard targets.                               *)
(***************************************************************************)
M == MAX_S_CORE_LINKS

num_vrt == ((subgroups - 2) \div (M - 1)) + 1

lvs == (num_vrt - 1) * (M - 1)

expected(v) == IF v = num_vrt - 1 THEN subgroups - lvs ELSE M

FromRoots(v) == IF v = 0 THEN roots ELSE 0

\* mutants: the sum cores send by unit, too; no vertex has links of both kinds
lds_expected_byUnit(v) == expected(v) * Units + FromRoots(v)
lds_expected_unmixed(v) ==
  FromRoots(v) + IF v > num_vrt - 2 - lvs \div M THEN expected(v) * Units ELSE M
lds_expected(v) ==
  LET k == lvs \div M
      wp == lvs % M
  IN FromRoots(v) +
     CASE v > num_vrt - 2 - k -> expected(v) * Units
       [] v = num_vrt - 2 - k -> wp * Units + (M - wp)
       [] v < num_vrt - 2 - k -> M

fsgn_expected(v) == expected(v) + FromRoots(v)

(***************************************************************************)
(* The host: generate_machine_graph, up to the trees.  It may be called    *)
(* again: after it has failed to get a machine, and after groups or links  *)
(* have been added.                                                        *)
(***************************************************************************)
Generate ==
  /\ stage = "idle" /\ ~graph_rdy /\ calls < MaxCalls
  /\ calls' = calls + 1
  /\ subgroups' = subgroups + network
  /\ UNCHANGED <<network, graph_rdy>>

GenerateFails == Generate /\ UNCHANGED <<stage, tree_vars, roots, round_vars>>

\* SumVertexTree.__init__: the root, before the loops
GenerateTree ==
  /\ Generate
  /\ stage' = "vertices"
  /\ free_links' = M /\ to_vrt' = 0 /\ vrt' = 1 /\ mapped' = 0
  /\ parent' = <<>> /\ leaf' = <<>>
  /\ slinks' = [v \in Vertex |-> 0] /\ wlinks' = [v \in Vertex |-> 0]
  /\ UNCHANGED <<roots, round_vars>>

\* mutants: moves on with a link to spare; takes one link too many
TakeLink_early ==
  IF free_links <= 2 THEN free_links' = M /\ to_vrt' = to_vrt + 1
                     ELSE free_links' = free_links - 1 /\ to_vrt' = to_vrt
TakeLink_late ==
  IF free_links = 0 THEN free_links' = M /\ to_vrt' = to_vrt + 1
                    ELSE free_links' = free_links - 1 /\ to_vrt' = to_vrt
TakeLink ==
  IF free_links = 1 THEN free_links' = M /\ to_vrt' = to_vrt + 1
                    ELSE free_links' = free_links - 1 /\ to_vrt' = to_vrt

\* self.vertices[to_vrt]
VertexExists == to_vrt < vrt

AddVertex ==
  /\ stage = "vertices" /\ vrt < num_vrt /\ VertexExists
  /\ parent' = [w \in DOMAIN parent \cup {vrt} |-> IF w = vrt THEN to_vrt ELSE parent[w]]
  /\ slinks' = [slinks EXCEPT ![to_vrt] = @ + 1]
  /\ vrt' = vrt + 1
  /\ TakeLink
  /\ UNCHANGED <<host_vars, stage, mapped, leaf, wlinks, roots, round_vars>>

VerticesDone ==
  /\ stage = "vertices" /\ vrt >= num_vrt
  /\ stage' = "leaves"
  /\ UNCHANGED <<host_vars, tree_vars, roots, round_vars>>

MapLeaf ==
  /\ stage = "leaves" /\ mapped < network /\ VertexExists
  /\ mapped' = mapped + 1
  /\ leaf' = [s \in 1 .. mapped + 1 |-> IF s = mapped + 1 THEN to_vrt ELSE leaf[s]]
  /\ wlinks' = [wlinks EXCEPT ![to_vrt] = @ + 1]
  /\ TakeLink
  /\ UNCHANGED <<host_vars, stage, vrt, parent, slinks, roots, round_vars>>

GraphReady ==
  /\ stage = "leaves" /\ mapped = network
  /\ stage' = "ready" /\ graph_rdy' = TRUE
  /\ UNCHANGED <<network, subgroups, calls, tree_vars, roots, round_vars>>

\* a group, of any number of subgroups, or a link is added between stages
Extend ==
  /\ stage = "ready"
  /\ \E n \in network .. MaxSubgroups : network' = n
  /\ graph_rdy' = FALSE /\ stage' = "idle"
  /\ UNCHANGED <<subgroups, calls, tree_vars, roots, round_vars>>

(***************************************************************************)
(* A round: what the sum cores do in a tick with nets (errors are treated  *)
(* alike), with link delta sums, or with forward sync generation packets.  *)
(* There is a scoreboard for every unit, or just one.                      *)
(***************************************************************************)
Boards(round) == IF round = "net" THEN Unit ELSE {0}
PerCore(round) == IF round = "fsgn" THEN {0} ELSE Unit

Wpkt(s, u) == [to |-> leaf[s], u |-> u, sum |-> SetToBag({<<s, u>>})]
Rpkt(r) == [to |-> 0, u |-> 0, sum |-> SetToBag({<<-r, 0>>})]

FromCores(round) == {Wpkt(s, u) : s \in 1 .. network, u \in PerCore(round)}
FromOthers(round) == IF round = "net" THEN {} ELSE {Rpkt(r) : r \in 1 .. roots}

StartRound ==
  /\ stage = "ready"
  /\ \E round \in Rounds :
       /\ stage' = round
       /\ inflight' = FromCores(round) \cup FromOthers(round)
       /\ arrived' = [v \in 0 .. vrt - 1 |-> [u \in Boards(round) |-> 0]]
       /\ sum' = [v \in 0 .. vrt - 1 |-> [u \in Boards(round) |-> EmptyBag]]
  /\ sent' = {}
  /\ UNCHANGED <<host_vars, tree_vars, roots>>

target(v) == CASE stage = "net"  -> expected(v)
               [] stage = "lds"  -> lds_expected(v)
               [] stage = "fsgn" -> fsgn_expected(v)

\* sf_process and sb_process, s_lds_packet, s_fsgn_packet
Arrive(p) ==
  LET v == p.to
      u == IF stage = "net" THEN p.u ELSE 0
      total == sum[v][u] (+) p.sum
      count == arrived[v][u] + 1
  IN /\ stage \in Rounds
     /\ arrived' = [arrived EXCEPT ![v][u] = count]
     /\ sum' = [sum EXCEPT ![v][u] = total]
     /\ \/ /\ count # target(v)
           /\ inflight' = inflight \ {p}
           /\ UNCHANGED sent
        \/ /\ count = target(v) /\ v # 0
           /\ inflight' = (inflight \ {p}) \cup {[to |-> parent[v], u |-> u, sum |-> total]}
           /\ UNCHANGED sent
        \/ /\ count = target(v) /\ v = 0
           /\ inflight' = inflight \ {p}
           /\ sent' = sent \cup {[u |-> u, sum |-> total]}
     /\ UNCHANGED <<host_vars, stage, tree_vars, roots>>

Stopped == \/ stage \in Rounds /\ inflight = {}
           \/ stage = "idle" /\ calls = MaxCalls
Terminated == Stopped /\ UNCHANGED vars

Next ==
  \/ GenerateFails \/ GenerateTree \/ AddVertex \/ VerticesDone \/ MapLeaf \/ GraphReady
  \/ Extend
  \/ StartRound \/ \E p \in inflight : Arrive(p)
  \/ Terminated

Spec == Init /\ [][Next]_vars
FairSpec == Spec /\ WF_vars(Next)

(***************************************************************************)
(* Properties.                                                             *)
(***************************************************************************)
TypeOK ==
  /\ network \in 2 .. MaxSubgroups /\ subgroups \in 0 .. MaxCalls * MaxSubgroups
  /\ calls \in 0 .. MaxCalls /\ graph_rdy \in BOOLEAN /\ stage \in Stages
  /\ free_links \in 1 .. M /\ to_vrt \in Nat /\ vrt \in Nat /\ mapped \in 0 .. network
  /\ DOMAIN leaf = 1 .. mapped
  /\ \A s \in 1 .. mapped : leaf[s] \in 0 .. vrt - 1
  /\ \A v \in DOMAIN parent : parent[v] \in 0 .. v - 1
  /\ slinks \in [Vertex -> Nat] /\ wlinks \in [Vertex -> Nat]
  /\ roots \in 0 .. MaxRoots

\* While a tree is built there is always a vertex with a link to spare: the
\* number of vertices the host computes in advance is enough.
TreeFits ==
  subgroups = network =>
    /\ stage = "vertices" /\ vrt < num_vrt => VertexExists
    /\ stage = "leaves" /\ mapped < network => VertexExists

\* Every sum core expects what its links will bring: the counts are computed
\* from the index of the vertex, apart from the loop that makes the links.
ExpectedExact ==
  (stage \in {"ready"} \cup Rounds /\ subgroups = network) =>
    \A v \in 0 .. num_vrt - 1 :
      /\ expected(v) = slinks[v] + wlinks[v]
      /\ lds_expected(v) = slinks[v] + wlinks[v] * Units + FromRoots(v)

\* A total the root sends has every product of every weight core in it, and
\* every total of another root, once.
Products(u) ==
  CASE stage = "net"  -> {<<s, u>> : s \in 1 .. network}
    [] stage = "lds"  -> (1 .. network) \X Unit
    [] stage = "fsgn" -> (1 .. network) \X {0}

Others == IF stage = "net" THEN {} ELSE {<<-r, 0>> : r \in 1 .. roots}

TotalExact ==
  (stage \in Rounds /\ subgroups = network) =>
    \A t \in sent : t.sum = SetToBag(Products(t.u) \cup Others)

\* The root sends all its totals: no sum core waits for a packet that nobody
\* sends, and none has sent its sum before the last one came in.
TotalSent ==
  \A round \in Rounds :
    (stage = round /\ subgroups = network) ~> {t.u : t \in sent} = Boards(round)
=============================================================================
