---------------------------- MODULE PDP2DataProofs ----------------------------
(***************************************************************************)
(* What the cores compute with is of the tick they are in: the outputs of  *)
(* the weight cores (OutputsInv of PDP2Flow), the errors of the threshold  *)
(* cores (DeltasInv), the link deltas (LinkDeltasInv), and the criteria    *)
(* from which the end of a tick is decided (CriteriaInv).  The sums of the *)
(* sum cores are in PDP2Proofs.                                            *)
(***************************************************************************)
EXTENDS PDP2Proofs

(***************************************************************************)
(* What has come.                                                          *)
(***************************************************************************)
\* A packet of another kind, or a step of other cores, is none that has come.
LEMMA CameKept ==
  ASSUME NEW c, NEW k, CoreStays(c) \/ \E l : CoreHandles(c, l) /\ l[1] # k
  PROVE  Came(k, c)' = Came(k, c)
<1>1. HandledKind(k, c)' = HandledKind(k, c)
  <2>1. CASE CoreStays(c)
    BY <2>1 DEF CoreStays, HandledKind
  <2>2. ASSUME NEW l, CoreHandles(c, l), l[1] # k
        PROVE  HandledKind(k, c)' = HandledKind(k, c)
    BY <2>2 DEF CoreHandles, HandledKind
  <2> QED BY <2>1, <2>2
<1> QED BY <1>1 DEF Came

\* A packet of the kind is at most one more.
LEMMA CameMore ==
  ASSUME NEW c, NEW k, NEW l, CoreStays(c) \/ CoreHandles(c, l)
  PROVE  Came(k, c)' \subseteq Came(k, c) \cup {l[4]} /\ Came(k, c) \subseteq Came(k, c)'
<1>1. /\ HandledKind(k, c)' \subseteq HandledKind(k, c) \cup {l}
      /\ HandledKind(k, c) \subseteq HandledKind(k, c)'
  BY DEF CoreStays, CoreHandles, HandledKind
<1> QED BY <1>1 DEF Came

\* Nothing handled, nothing come.
LEMMA CameNone ==
  \A c : Flow!Handled(c) = {} => \A k : Came(k, c) = {}
  BY DEF Came, HandledKind

NoneCame == \A c : Flow!Handled(c) = {} => \A k : Came(k, c) = {}

\* all outputs have come when the tick is over
LEMMA AllCame ==
  ASSUME FlowAndMachine, NEW c \in WCores, c \in Behind, wc[c].phase = F
  PROVE  Unit \subseteq Came("fwd", c)
<1>1. PICK to \in Sub, from \in Sub : c = W(to, from)
  BY DEF WCores
<1>2. c \in Cores /\ Rec(c) = wc[c]
  BY <1>1, CoreFacts, RecFacts
<1>3. LinksOf(Place(Rec(c))) = ForwardLinks
  BY <1>2 DEF LinksOf, Place
<1>4. Flow!Handled(c) = {l \in ForwardLinks : l[3] = c}
  BY <1>2, <1>3, HandledFacts
<1>5. ASSUME NEW u \in Unit
      PROVE  u \in Came("fwd", c)
  <2> DEFINE l == FwdTW(to, from, u)
  <2>1. l \in ForwardLinks
    BY ForwardIntro
  <2>2. l[1] = "fwd" /\ l[3] = c /\ l[4] = u
    BY <1>1 DEF FwdTW, Link
  <2> HIDE DEF l
  <2>3. l \in HandledKind("fwd", c)
    BY <1>4, <2>1, <2>2 DEF HandledKind
  <2> QED BY <2>2, <2>3 DEF Came
<1> QED BY <1>5

(***************************************************************************)
(* Every step of the machine, for one weight core.                         *)
(***************************************************************************)
WLeft(c) == wc'[c] = wc[c] /\ \A q \in net : q.dst = c => q \in net'

WTakes(c, p) ==
  /\ WPacket(p) /\ p.dst = c /\ UNCHANGED <<sc, ic, tc>> /\ net \ {p} \subseteq net'

\* It leaves the core alone, or is a handler of it.
LEMMA WSteps ==
  ASSUME [Next]_vars, DOMAIN wc = WCores, NEW c \in WCores
  PROVE  \/ WLeft(c)
         \/ WProcess(c) /\ UNCHANGED <<sc, ic, tc>>
         \/ \E p \in net : WTakes(c, p)
<1>0. c[1] = "W"
  BY DEF WCores, W
<1>1. CASE WNext /\ UNCHANGED <<sc, ic, tc>>
  <2>1. ASSUME NEW d \in WCores, WProcess(d), d # c
        PROVE  WLeft(c)
    BY <2>1 DEF WProcess, WLeft
  <2>2. ASSUME NEW p \in net, WPacket(p)
        PROVE  WLeft(c) \/ WTakes(c, p)
    <3>1. net \ {p} \subseteq net'
      BY <2>2 DEF WPacket, WLdsa, WForward, WBackprop, WStop, WSync, WNetStop
    <3>2. \E x : wc' = [wc EXCEPT ![p.dst] = x]
      <4>1. CASE WForward(p)
        BY <4>1, Zenon DEF WForward
      <4>2. CASE WBackprop(p)
        BY <4>2, Zenon DEF WBackprop
      <4>3. CASE WLdsa(p)
        <5>1. wc' = [wc EXCEPT ![p.dst] = [wc[p.dst] EXCEPT !.w_lds_final = p.st]]
          BY <4>3 DEF WLdsa
        <5> QED BY <5>1
      <4>4. CASE WStop(p)
        <5>1. wc' = [wc EXCEPT ![p.dst] = wf_advance_tick(wc[p.dst], p.b)]
          BY <4>4 DEF WStop
        <5> QED BY <5>1
      <4>5. CASE WSync(p)
        <5>1. wc' = [wc EXCEPT ![p.dst] = wb_advance_tick(wc[p.dst])]
          BY <4>5 DEF WSync
        <5> QED BY <5>1
      <4>6. CASE WNetStop(p)
        BY <4>6, Zenon DEF WNetStop
      <4> QED BY <2>2, <4>1, <4>2, <4>3, <4>4, <4>5, <4>6 DEF WPacket
    <3> QED BY <1>1, <2>2, <3>1, <3>2 DEF WLeft, WTakes
  <2> QED BY <1>1, <2>1, <2>2 DEF WNext
<1>2. CASE SNext /\ UNCHANGED <<wc, ic, tc>>
  <2>1. ASSUME NEW p \in net, SPacket(p)
        PROVE  p.dst[1] = "S" /\ net \ {p} \subseteq net'
    BY <2>1 DEF SPacket, SForward, SBackprop, SLds, SFsgn, SBsgn, SStop, SSync, SNetStop
  <2> QED BY <1>0, <1>2, <2>1 DEF SNext, WLeft
<1>3. CASE INext /\ UNCHANGED <<wc, sc, tc>>
  <2>1. ASSUME NEW p \in net, IPacket(p)
        PROVE  p.dst[1] = "I" /\ net \ {p} \subseteq net'
    BY <2>1 DEF IPacket, IForward, IBackprop, IStop, ISync, INetStop
  <2> QED BY <1>0, <1>3, <2>1 DEF INext, WLeft
<1>4. CASE TNext /\ UNCHANGED <<wc, sc, ic>>
  <2>1. CASE TAdvance
    BY <1>4, <2>1 DEF TAdvance, WLeft
  <2>2. CASE \E s \in Sub : TProcess(s)
    BY <1>4, <2>2 DEF TProcess, WLeft
  <2>3. ASSUME NEW p \in net, TPacket(p)
        PROVE  p.dst[1] = "T" /\ net \ {p} \subseteq net'
    BY <2>3 DEF TPacket, TForward, TCrit, TFsgn, TError, TBsgn, TStop, TSync, TNetStop
  <2> QED BY <1>0, <1>4, <2>1, <2>2, <2>3 DEF TNext, WLeft
<1>5. CASE UNCHANGED vars
  BY <1>5 DEF vars, WLeft
<1> QED BY <1>1, <1>2, <1>3, <1>4, <1>5 DEF Next, Terminated

(***************************************************************************)
(* Outputs.                                                                *)
(***************************************************************************)
SameOutputs(r, q) ==
  /\ q.wf_procs = r.wf_procs
  /\ q.w_outputs = r.w_outputs /\ q.w_output_history = r.w_output_history

\* OutputsOK looks at the stamp and the outputs of a record, and
LEMMA OutputsSame ==
  ASSUME NEW r, NEW q, NEW came, OutputsOK(r, came), SameOutputs(r, q), Stamp(q) = Stamp(r)
  PROVE  OutputsOK(q, came)
<1>1. /\ q.phase = r.phase /\ q.tick = r.tick
      /\ \A k : OutputOf(q, k) = OutputOf(r, k)
  BY DEF Stamp, OutputOf
<1>2. wf_comms(q) = wf_comms(r)
  BY DEF SameOutputs, wf_comms
<1> QED BY <1>1, <1>2 DEF OutputsOK, SameOutputs

\* a step that takes no output leaves them right.
LEMMA OutputsKept ==
  ASSUME FlowAndMachine, FlowAndMachine', [Flow!Next]_(Flow!vars), NEW c \in WCores, NEW p,
         p.kind # "fwd", \A q \in net : q.dst = c => q = p \/ q \in net',
         SameOutputs(wc[c], wc'[c]), Stamp(wc'[c]) = Stamp(wc[c]),
         OutputsOK(wc[c], Came("fwd", c))
  PROVE  OutputsOK(wc[c], Came("fwd", c))'
<1>1. c \in Cores /\ Rec(c) = wc[c] /\ Rec(c)' = wc'[c]
  BY RecFacts
<1>2. CoreStays(c) \/ CoreHandles(c, LinkOf(p))
  BY <1>1, CoreBy
<1>3. LinkOf(p)[1] = p.kind
  BY LinkApart DEF LinkOf
<1>4. Came("fwd", c)' = Came("fwd", c)
  BY <1>2, <1>3, CameKept
<1> QED BY <1>4, OutputsSame

\* wf_process, the deltas, the total of the link deltas and the network stop
\* packet leave the outputs alone.
LEMMA OutputsUntouched ==
  ASSUME FlowAndMachine, FlowAndMachine', [Flow!Next]_(Flow!vars), NEW c \in WCores,
         OutputsOK(wc[c], Came("fwd", c)),
         \/ WLeft(c) \/ WProcess(c)
         \/ \E p \in net : WTakes(c, p) /\ (WBackprop(p) \/ WLdsa(p) \/ WNetStop(p))
  PROVE  OutputsOK(wc[c], Came("fwd", c))'
<1> DEFINE r == wc[c]
           q == wc'[c]
           Same == SameOutputs(r, q) /\ Stamp(q) = Stamp(r)
<1>1. WShape(r) /\ DOMAIN wc = WCores
  BY DEF FlowAndMachine, MachineInv, ShapeOK
<1>2. DOMAIN r = WFields
  BY <1>1 DEF WShape, WFields
<1>3. ASSUME NEW v, DOMAIN v = WFields, NEW w, NEW X, Frame(v, w, X),
             X \subseteq {"wf_pending", "wb_arrived", "w_link_deltas", "w_errors", "w_lds_final",
                          "net_stop", "net_stop_rdy", "epoch_rdy", "done"}
      PROVE  SameOutputs(v, w) /\ Stamp(w) = Stamp(v) /\ DOMAIN w = WFields
  BY <1>3 DEF Frame, WFields, StartFields, SameOutputs, Stamp
<1>4. CASE WLeft(c)
  <2>1. r = q /\ \A p \in net : p.dst = c => p \in net'
    BY <1>4 DEF WLeft
  <2>2. Same
    BY <2>1 DEF SameOutputs
  <2>3. PICK p : p.kind # "fwd"
    <3>1. [kind |-> "stpn"].kind # "fwd"
      OBVIOUS
    <3> QED BY <3>1
  <2> QED BY <2>1, <2>2, <2>3, OutputsKept
<1>5. CASE WProcess(c)
  <2>1. q = [r EXCEPT !.wf_pending = FALSE] /\ net \subseteq net'
    BY <1>1, <1>5 DEF WProcess
  <2>2. Frame(r, q, {"wf_pending"})
    BY <1>2, <2>1 DEF Frame, WFields, StartFields
  <2>3. Same
    BY <1>2, <1>3, <2>2
  <2>4. PICK p : p.kind # "fwd"
    <3>1. [kind |-> "stpn"].kind # "fwd"
      OBVIOUS
    <3> QED BY <3>1
  <2> QED BY <2>1, <2>3, <2>4, OutputsKept
<1>6. ASSUME NEW p \in net, WTakes(c, p), WBackprop(p) \/ WLdsa(p) \/ WNetStop(p)
      PROVE  OutputsOK(wc[c], Came("fwd", c))'
  <2>1. p.dst = c /\ \A x \in net : x.dst = c => x = p \/ x \in net'
    BY <1>6 DEF WTakes
  <2>2. p.kind # "fwd"
    BY <1>6 DEF WBackprop, WLdsa, WNetStop
  <2>3. CASE WBackprop(p)
    <3> DEFINE y == r.w_link_deltas (+)
                      SetToBag({<<i, p.u, r.w_outputs[0][i], p.st>> : i \in Unit})
               z == r.w_errors (+) SetToBag({<<p.u, p.st>>})
               x == [wc[p.dst] EXCEPT
                      !.wb_arrived = @ + 1,
                      !.w_link_deltas = @ (+)
                        SetToBag({<<i, p.u, wc[p.dst].w_outputs[0][i], p.st>> : i \in Unit}),
                      !.w_errors = @ (+) SetToBag({<<p.u, p.st>>})]
    <3>0. wc' = [wc EXCEPT ![p.dst] = x]
      BY <2>3 DEF WBackprop
    <3>1. x = [r EXCEPT !.wb_arrived = @ + 1, !.w_link_deltas = y, !.w_errors = z]
      BY <1>2, <2>1 DEF WFields, StartFields
    <3> HIDE DEF x, y, z
    <3>2. q = [r EXCEPT !.wb_arrived = @ + 1, !.w_link_deltas = y, !.w_errors = z]
      BY <1>1, <2>1, <3>0, <3>1
    <3>3. Frame(r, q, {"wb_arrived", "w_link_deltas", "w_errors"})
      BY <1>2, <3>2 DEF Frame, WFields, StartFields
    <3> QED BY <1>2, <1>3, <2>1, <2>2, <3>3, OutputsKept
  <2>4. CASE WLdsa(p)
    <3>1. q = [r EXCEPT !.w_lds_final = p.st]
      BY <1>1, <2>1, <2>4 DEF WLdsa
    <3>2. Frame(r, q, {"w_lds_final"})
      BY <1>2, <3>1 DEF Frame, WFields, StartFields
    <3> QED BY <1>2, <1>3, <2>1, <2>2, <3>2, OutputsKept
  <2>5. CASE WNetStop(p)
    <3>1. PICK x : x = [r EXCEPT !.net_stop = p.b]
      OBVIOUS
    <3>2. q = IF x.epoch_rdy THEN WGoOn([x EXCEPT !.epoch_rdy = FALSE])
                             ELSE [x EXCEPT !.net_stop_rdy = TRUE]
      BY <1>1, <2>1, <2>5, <3>1 DEF WNetStop
    <3>3. SameOutputs(r, x) /\ Stamp(x) = Stamp(r) /\ DOMAIN x = WFields
      <4>1. Frame(r, x, {"net_stop"})
        BY <1>2, <3>1 DEF Frame, WFields, StartFields
      <4> QED BY <1>2, <1>3, <4>1
    <3>4. SameOutputs(x, q) /\ Stamp(q) = Stamp(x)
      <4>1. CASE x.epoch_rdy
        <5>1. PICK y : y = [x EXCEPT !.epoch_rdy = FALSE]
          OBVIOUS
        <5>2. Frame(x, y, {"epoch_rdy"})
          BY <3>3, <5>1 DEF Frame, WFields, StartFields
        <5>3. SameOutputs(x, y) /\ Stamp(y) = Stamp(x) /\ DOMAIN y = WFields
          BY <1>3, <3>3, <5>2
        <5>4. Frame(y, q, WGoFields)
          BY <3>2, <4>1, <5>1, <5>3, WGoOnFacts
        <5>5. SameOutputs(y, q) /\ Stamp(q) = Stamp(y)
          BY <1>3, <5>3, <5>4 DEF WGoFields
        <5> QED BY <5>3, <5>5 DEF SameOutputs
      <4>2. CASE ~x.epoch_rdy
        <5>1. Frame(x, q, {"net_stop_rdy"})
          BY <3>2, <3>3, <4>2 DEF Frame, WFields, StartFields
        <5> QED BY <1>3, <3>3, <5>1
      <4> QED BY <4>1, <4>2
    <3>5. Same
      BY <3>3, <3>4 DEF SameOutputs
    <3> QED BY <2>1, <2>2, <3>5, OutputsKept
  <2> QED BY <1>6, <2>3, <2>4, <2>5
<1> QED BY <1>4, <1>5, <1>6

\* one entry of an array of arrays
LEMMA EntrySet ==
  ASSUME NEW f, NEW t \in DOMAIN f, NEW u \in DOMAIN f[t], NEW v,
         NEW g, g = [f EXCEPT ![t][u] = v]
  PROVE  /\ DOMAIN g = DOMAIN f
         /\ \A k \in DOMAIN f : DOMAIN g[k] = DOMAIN f[k] /\ (k # t => g[k] = f[k])
         /\ \A i \in DOMAIN f[t] : g[t][i] = IF i = u THEN v ELSE f[t][i]
<1>1. DOMAIN g = DOMAIN f /\ g[t] = [f[t] EXCEPT ![u] = v]
  OBVIOUS
<1>2. \A k \in DOMAIN f : k # t => g[k] = f[k]
  OBVIOUS
<1> QED BY <1>1, <1>2

\* OutputsOK says nothing of what has not come.
LEMMA OutputsFewer ==
  ASSUME NEW r, NEW X, OutputsOK(r, X), NEW Y, Y \subseteq X
  PROVE  OutputsOK(r, Y)
  BY DEF OutputsOK

WithOutput(r, u) ==
  [r EXCEPT !.w_outputs[wf_comms(r)][u] = Stamp(r),
            !.w_output_history[r.tick][u] = Stamp(r),
            !.wf_arrived = @ + 1]

\* An output that has come is where it is looked for in the next tick.
LEMMA OutputTaken ==
  ASSUME NEW r, DOMAIN r = WFields, r.phase = F, r.tick \in Tick, r.wf_procs \in 0 .. 1,
         NEW came, OutputsOK(r, came), NEW u \in Unit,
         NEW q, q = WithOutput(r, u)
  PROVE  OutputsOK(q, came \cup {u}) /\ Stamp(q) = Stamp(r)
<1> DEFINE b == wf_comms(r)
           st == Stamp(r)
<1>1. b \in 0 .. 1 /\ b # r.wf_procs /\ F # B
  BY DEF wf_comms, F, B
<1>a. q = [r EXCEPT !.w_outputs[b][u] = st,
                    !.w_output_history[r.tick][u] = st,
                    !.wf_arrived = @ + 1]
  BY DEF WithOutput
<1>2. /\ q.w_outputs = [r.w_outputs EXCEPT ![b][u] = st]
      /\ q.w_output_history = [r.w_output_history EXCEPT ![r.tick][u] = st]
      /\ q.wf_procs = r.wf_procs /\ q.tick = r.tick /\ q.phase = r.phase
      /\ q.epoch = r.epoch /\ q.example_cnt = r.example_cnt
  BY <1>a DEF WFields, StartFields
<1>3. Stamp(q) = st /\ wf_comms(q) = b /\ \A k : OutputOf(q, k) = OutputOf(r, k)
  BY <1>2 DEF Stamp, wf_comms, OutputOf
<1>4. r.tick \in 0 .. GlobalMaxTicks - 1 /\ r.tick \in Int /\ r.tick # 0
  BY StageAssumption DEF Tick, INIT_TICK
<1>5. /\ DOMAIN r.w_outputs = 0 .. 1 /\ \A x \in 0 .. 1 : DOMAIN r.w_outputs[x] = Unit
      /\ DOMAIN r.w_output_history = 0 .. GlobalMaxTicks - 1
      /\ \A k \in 0 .. GlobalMaxTicks - 1 : DOMAIN r.w_output_history[k] = Unit
      /\ \A i \in Unit : r.w_output_history[0][i] = Zero
      /\ \A i \in Unit :
           /\ r.w_outputs[r.wf_procs][i] = TickBefore(st)
           /\ \A k \in INIT_TICK .. r.tick - 1 : r.w_output_history[k][i] = OutputOf(r, k)
           /\ i \in came => /\ r.w_outputs[b][i] = st
                            /\ r.w_output_history[r.tick][i] = st
  BY DEF OutputsOK
<1> HIDE DEF b, st
<1>6. /\ DOMAIN q.w_outputs = 0 .. 1 /\ \A x \in 0 .. 1 : DOMAIN q.w_outputs[x] = Unit
      /\ q.w_outputs[r.wf_procs] = r.w_outputs[r.wf_procs]
      /\ \A i \in Unit : q.w_outputs[b][i] = IF i = u THEN st ELSE r.w_outputs[b][i]
  BY <1>1, <1>2, <1>5
<1>7. /\ DOMAIN q.w_output_history = 0 .. GlobalMaxTicks - 1
      /\ \A k \in 0 .. GlobalMaxTicks - 1 : DOMAIN q.w_output_history[k] = Unit
      /\ \A k \in 0 .. GlobalMaxTicks - 1 : k # r.tick => q.w_output_history[k] = r.w_output_history[k]
      /\ \A i \in Unit : q.w_output_history[r.tick][i] = IF i = u THEN st ELSE r.w_output_history[r.tick][i]
  <2> DEFINE f == r.w_output_history
             g == q.w_output_history
             t == r.tick
  <2>1. DOMAIN f = 0 .. GlobalMaxTicks - 1 /\ t \in DOMAIN f /\ u \in DOMAIN f[t] /\ DOMAIN f[t] = Unit
    BY <1>4, <1>5
  <2>2. g = [f EXCEPT ![t][u] = st]
    BY <1>2
  <2> HIDE DEF f, g, t
  <2>3. /\ DOMAIN g = DOMAIN f
        /\ \A k \in DOMAIN f : DOMAIN g[k] = DOMAIN f[k] /\ (k # t => g[k] = f[k])
        /\ \A i \in DOMAIN f[t] : g[t][i] = IF i = u THEN st ELSE f[t][i]
    BY <2>1, <2>2, EntrySet
  <2>4. \A k \in 0 .. GlobalMaxTicks - 1 : DOMAIN f[k] = Unit
    BY <1>5 DEF f
  <2> QED BY <2>1, <2>3, <2>4 DEF f, g, t
<1>8. \A k \in INIT_TICK .. r.tick - 1 : k \in 0 .. GlobalMaxTicks - 1 /\ k # r.tick
  BY <1>4, StageAssumption DEF INIT_TICK
<1>9. 0 \in 0 .. GlobalMaxTicks - 1
  BY StageAssumption
<1>10. \A i \in Unit :
         /\ q.w_outputs[q.wf_procs][i] = TickBefore(st)
         /\ \A k \in INIT_TICK .. q.tick - 1 : q.w_output_history[k][i] = OutputOf(q, k)
         /\ i \in came \cup {u} => q.w_outputs[b][i] = st /\ q.w_output_history[q.tick][i] = st
         /\ q.w_output_history[0][i] = Zero
  BY <1>2, <1>3, <1>4, <1>5, <1>6, <1>7, <1>8, <1>9
<1> QED BY <1>1, <1>2, <1>3, <1>6, <1>7, <1>10 DEF OutputsOK, st

\* w_forward_packet
LEMMA OutputsForward ==
  ASSUME AllTimely, FlowAndMachine, FlowAndMachine', [Flow!Next]_(Flow!vars), NEW c \in WCores,
         OutputsOK(wc[c], Came("fwd", c)), NEW p \in net, WTakes(c, p), WForward(p)
  PROVE  OutputsOK(wc[c], Came("fwd", c))'
<1> DEFINE r == wc[c]
           q == wc'[c]
<1>1. /\ WShape(r) /\ DOMAIN wc = WCores /\ c \in Cores
      /\ Rec(c) = r /\ Rec(c)' = q /\ p.dst = c
      /\ \A x \in net : x.dst = c => x = p \/ x \in net'
  BY RecFacts DEF FlowAndMachine, MachineInv, ShapeOK, WTakes
<1>2. Awaits(p) /\ InTime(Rec(p.dst), p)
  BY <1>1 DEF WForward, Awaits
<1>3. p.kind = "fwd" /\ p.u \in Unit /\ p.st = Stamp(r) /\ Place(r) = cur /\ cur[3] = F
  BY <1>1, <1>2, InTickLink DEF WForward
<1>4. r.phase = F /\ r.tick \in Tick /\ r.wf_procs \in 0 .. 1 /\ DOMAIN r = WFields
  <2>1. cur \in FlowPlaces
    BY PhaseFacts
  <2>2. cur[4] \in Tick
    BY <2>1 DEF FlowPlaces
  <2> QED BY <1>1, <1>3, <2>2 DEF Place, WShape, WFields
<1>5. q = WithOutput(r, p.u)
  <2> DEFINE x == [r EXCEPT !.w_outputs[wf_comms(r)][p.u] = p.st,
                            !.w_output_history[r.tick][p.u] = p.st,
                            !.wf_arrived = @ + 1]
  <2>1. wc' = [wc EXCEPT ![c] = x]
    BY <1>1 DEF WForward
  <2>2. q = x
    BY <1>1, <2>1
  <2> QED BY <1>3, <2>2 DEF WithOutput
<1> HIDE DEF r, q
<1>6. OutputsOK(q, Came("fwd", c) \cup {p.u}) /\ Stamp(q) = Stamp(r)
  <2>1. OutputsOK(r, Came("fwd", c))
    BY DEF r
  <2> QED BY <1>3, <1>4, <1>5, <2>1, OutputTaken
<1>7. CoreStays(c) \/ CoreHandles(c, LinkOf(p))
  BY <1>1, <1>6, CoreBy
<1>8. Came("fwd", c)' \subseteq Came("fwd", c) \cup {p.u}
  <2>1. LinkOf(p)[4] = p.u
    BY LinkApart DEF LinkOf
  <2> QED BY <1>7, <2>1, CameMore
<1>9. OutputsOK(q, Came("fwd", c)')
  BY <1>6, <1>8, OutputsFewer
<1> QED BY <1>9 DEF q

\* At the end of an example the outputs of the buffer in use are reset, the link
\* deltas at the end of an epoch.
LEMMA WExampleData ==
  ASSUME NEW x, DOMAIN x = WFields, NEW q, q = w_advance_example(x)
  PROVE  /\ q.w_outputs = [x.w_outputs EXCEPT ![x.wf_procs] = [i \in Unit |-> Initial]]
         /\ q.w_link_deltas = IF EndOfEpoch(x) /\ Training THEN EmptyBag ELSE x.w_link_deltas
<1>1. PICK y : y = WNextExample(x)
  OBVIOUS
<1>2. /\ DOMAIN y = WFields /\ y.w_outputs = x.w_outputs
      /\ y.w_link_deltas = IF EndOfEpoch(x) /\ Training THEN EmptyBag ELSE x.w_link_deltas
  <2>1. CASE EndOfEpoch(x)
    <3>1. y = [x EXCEPT !.epoch = @ + 1, !.example_cnt = 0,
                        !.w_link_deltas = IF Training THEN EmptyBag ELSE @]
      BY <1>1, <2>1 DEF WNextExample
    <3> QED BY <2>1, <3>1 DEF WFields, StartFields
  <2>2. CASE ~EndOfEpoch(x)
    <3>1. y = [x EXCEPT !.example_cnt = @ + 1, !.net_stop_rdy = TRUE]
      BY <1>1, <2>2 DEF WNextExample
    <3> QED BY <2>2, <3>1 DEF WFields, StartFields
  <2> QED BY <2>1, <2>2
<1>3. PICK z : z = [y EXCEPT !.evt = 0, !.w_outputs[x.wf_procs] = [i \in Unit |-> Initial]]
  OBVIOUS
<1>4. /\ DOMAIN z = WFields /\ z.w_link_deltas = y.w_link_deltas
      /\ z.w_outputs = [y.w_outputs EXCEPT ![x.wf_procs] = [i \in Unit |-> Initial]]
  BY <1>2, <1>3 DEF WFields, StartFields
<1>5. q = IF z.net_stop_rdy THEN WGoOn([z EXCEPT !.net_stop_rdy = FALSE])
                            ELSE [z EXCEPT !.epoch_rdy = TRUE]
  BY <1>1, <1>3 DEF w_advance_example
<1>6. q.w_outputs = z.w_outputs /\ q.w_link_deltas = z.w_link_deltas
  <2>1. CASE z.net_stop_rdy
    <3>1. PICK w : w = [z EXCEPT !.net_stop_rdy = FALSE]
      OBVIOUS
    <3>2. DOMAIN w = WFields /\ w.w_outputs = z.w_outputs /\ w.w_link_deltas = z.w_link_deltas
      BY <1>4, <3>1 DEF WFields, StartFields
    <3>3. Frame(w, q, WGoFields)
      BY <1>5, <2>1, <3>1, <3>2, WGoOnFacts
    <3> QED BY <3>2, <3>3 DEF Frame, WGoFields, WFields
  <2>2. CASE ~z.net_stop_rdy
    <3>1. q = [z EXCEPT !.epoch_rdy = TRUE]
      BY <1>5, <2>2
    <3> QED BY <1>4, <3>1 DEF WFields, StartFields
  <2> QED BY <2>1, <2>2
<1> QED BY <1>2, <1>4, <1>6

\* What a weight core computes with after the advance.
WAdvanced(r, b, q) ==
  /\ q.w_output_history = r.w_output_history
  /\ Leaves(r, b) =>
       /\ q.wf_procs \in 0 .. 1
       /\ q.w_outputs = [r.w_outputs EXCEPT ![q.wf_procs] = [i \in Unit |-> Initial]]
       /\ q.w_link_deltas = IF EndOfEpoch(r) /\ Training THEN EmptyBag ELSE r.w_link_deltas
  /\ ~Leaves(r, b) =>
       /\ q.w_link_deltas = r.w_link_deltas
       /\ q.phase = F => q.w_outputs = r.w_outputs /\ q.wf_procs = wf_comms(r)
       /\ q.phase = B => q.w_outputs = [r.w_outputs EXCEPT ![0] = r.w_output_history[q.tick - 1]]

\* wf_advance_tick and wb_advance_tick, on the data.
LEMMA WAdvanceData ==
  ASSUME NEW r, WShape(r), NEW b, Flow!MayLeave(Place(r), b), NEW q, q = WAdvance(r, b)
  PROVE  WAdvanced(r, b, q)
<1>1. PICK t : t = WTickInit(r)
  OBVIOUS
<1>2. /\ r.phase \in {F, B} /\ F # B /\ Training \in BOOLEAN
      /\ r.tick \in Int
  BY NextPlaceOf, StageAssumption DEF F, B, INIT_TICK
<1>3. DOMAIN r = WFields /\ r.wf_procs \in 0 .. 1
  BY DEF WShape, WFields
<1>4. /\ DOMAIN t = WFields
      /\ \A f \in WFields \ {"wf_arrived", "wf_procs", "wb_arrived", "w_errors"} : t[f] = r[f]
      /\ t.wf_procs = IF r.phase = F THEN wf_comms(r) ELSE r.wf_procs
  <2>1. CASE r.phase = F
    <3>1. t = [r EXCEPT !.wf_arrived = 0, !.wf_procs = 1 - @]
      BY <1>1, <2>1 DEF WTickInit
    <3> QED BY <1>3, <2>1, <3>1 DEF WFields, StartFields, wf_comms
  <2>2. CASE r.phase # F
    <3>1. t = [r EXCEPT !.wb_arrived = 0, !.w_errors = EmptyBag]
      BY <1>1, <2>2 DEF WTickInit
    <3> QED BY <1>3, <2>2, <3>1 DEF WFields, StartFields
  <2> QED BY <2>1, <2>2
<1>5. /\ t.w_outputs = r.w_outputs /\ t.w_output_history = r.w_output_history
      /\ t.w_link_deltas = r.w_link_deltas /\ t.tick = r.tick /\ t.phase = r.phase
      /\ t.wf_procs \in 0 .. 1
  BY <1>3, <1>4 DEF WFields, StartFields, wf_comms
<1>6. EndOfForward(t) <=> EndOfForward(r)
  <2>1. t.evt = r.evt /\ t.tick = r.tick
    BY <1>4 DEF WFields, StartFields
  <2> QED BY <2>1 DEF EndOfForward
<1>7. CASE Leaves(r, b)
  <2>1. PICK x : /\ q = w_advance_example(x) /\ DOMAIN x = WFields
                 /\ \A f \in WFields \ {"tick", "phase"} : x[f] = t[f]
    <3>1. CASE r.phase = F
      <4> DEFINE x == [t EXCEPT !.tick = INIT_TICK]
      <4>1. q = wf_advance_event(t)
        BY <1>1, <1>2, <1>7, <3>1 DEF WAdvance, wf_advance_tick, Leaves
      <4>2. EndOfForward(t) /\ ~Training
        BY <1>2, <1>6, <1>7, <3>1 DEF Leaves
      <4>3. q = w_advance_example(x)
        BY <4>1, <4>2, Zenon DEF wf_advance_event
      <4>4. /\ DOMAIN x = WFields /\ \A f \in WFields \ {"tick", "phase"} : x[f] = t[f]
        BY <1>4 DEF WFields, StartFields
      <4> QED BY <4>3, <4>4
    <3>2. CASE r.phase # F
      <4> DEFINE x == [t EXCEPT !.tick = INIT_TICK, !.phase = F]
      <4>1. q = w_advance_example(x)
        BY <1>1, <1>7, <3>2 DEF WAdvance, wb_advance_tick, Leaves
      <4>2. /\ DOMAIN x = WFields /\ \A f \in WFields \ {"tick", "phase"} : x[f] = t[f]
        BY <1>4 DEF WFields, StartFields
      <4> QED BY <4>1, <4>2
    <3> QED BY <3>1, <3>2
  <2>2. /\ x.w_outputs = r.w_outputs /\ x.w_output_history = r.w_output_history
        /\ x.w_link_deltas = r.w_link_deltas /\ x.wf_procs = t.wf_procs
        /\ x.example_cnt = r.example_cnt
    BY <1>4, <1>5, <2>1 DEF WFields, StartFields
  <2>3. EndOfEpoch(x) <=> EndOfEpoch(r)
    BY <2>2 DEF EndOfEpoch
  <2>4. /\ q.w_outputs = [x.w_outputs EXCEPT ![x.wf_procs] = [i \in Unit |-> Initial]]
        /\ q.w_link_deltas = IF EndOfEpoch(x) /\ Training THEN EmptyBag ELSE x.w_link_deltas
    BY <2>1, WExampleData
  <2>5. q.wf_procs = x.wf_procs /\ q.w_output_history = x.w_output_history
    <3>1. Frame(x, q, WExampleFields)
      <4>1. x.net_stop_rdy \in BOOLEAN
        BY <1>3, <1>4, <2>1 DEF WShape, StartShape, WFields, StartFields
      <4> QED BY <2>1, <4>1, WAdvanceExampleFacts
    <3> QED BY <2>1, <3>1 DEF Frame, WExampleFields, WFields, StartFields
  <2> QED BY <1>5, <1>7, <2>2, <2>3, <2>4, <2>5 DEF WAdvanced
<1>8. CASE ~Leaves(r, b)
  <2>1. CASE r.phase = F /\ (~b \/ ~EndOfForward(r))
    <3>1. \/ q = [t EXCEPT !.tick = @ + 1, !.wf_pending = TRUE]
          \/ q = [t EXCEPT !.evt = @ + 1, !.tick = @ + 1, !.wf_pending = TRUE]
      <4>1. CASE ~b
        BY <1>1, <2>1, <4>1 DEF WAdvance, wf_advance_tick
      <4>2. CASE b
        <5>1. q = wf_advance_event(t)
          BY <1>1, <2>1, <4>2 DEF WAdvance, wf_advance_tick
        <5> QED BY <1>6, <2>1, <4>2, <5>1, Zenon DEF wf_advance_event
      <4> QED BY <4>1, <4>2
    <3>2. /\ q.w_outputs = t.w_outputs /\ q.w_output_history = t.w_output_history
          /\ q.w_link_deltas = t.w_link_deltas /\ q.phase = t.phase /\ q.wf_procs = t.wf_procs
      BY <1>4, <3>1 DEF WFields, StartFields
    <3> QED BY <1>2, <1>4, <1>5, <1>8, <2>1, <3>2 DEF WAdvanced
  <2>2. CASE r.phase = F /\ b /\ EndOfForward(r) /\ Training
    <3>1. q = wf_advance_event(t)
      BY <1>1, <2>2 DEF WAdvance, wf_advance_tick
    <3>2. q = w_switch_to_bp([t EXCEPT !.evt = @ + 1])
      BY <1>6, <2>2, <3>1, Zenon DEF wf_advance_event
    <3>3. PICK y : y = [t EXCEPT !.evt = @ + 1]
      OBVIOUS
    <3>4. PICK z : z = [y EXCEPT !.phase = B]
      OBVIOUS
    <3>5. /\ DOMAIN z = WFields /\ z.phase = B /\ y.tick = r.tick
          /\ \A f \in WFields \ {"evt", "phase"} : z[f] = t[f]
      BY <1>4, <1>5, <3>3, <3>4 DEF WFields, StartFields
    <3>6. q = [z EXCEPT !.w_outputs[0] = z.w_output_history[r.tick - 1]]
      BY <3>2, <3>3, <3>4, <3>5 DEF w_switch_to_bp, restore_outputs
    <3>7. /\ z.w_outputs = r.w_outputs /\ z.w_output_history = r.w_output_history
          /\ z.w_link_deltas = r.w_link_deltas /\ z.tick = r.tick
      BY <1>5, <3>5 DEF WFields, StartFields
    <3>8. /\ q.w_outputs = [r.w_outputs EXCEPT ![0] = r.w_output_history[r.tick - 1]]
          /\ q.w_output_history = r.w_output_history /\ q.tick = r.tick
          /\ q.w_link_deltas = r.w_link_deltas /\ q.phase = B
      BY <3>5, <3>6, <3>7 DEF WFields, StartFields
    <3> QED BY <1>2, <1>8, <3>8 DEF WAdvanced
  <2>3. CASE r.phase = B /\ r.tick # END_TICK
    <3>1. PICK z : z = [t EXCEPT !.tick = @ - 1]
      OBVIOUS
    <3>2. q = [z EXCEPT !.w_outputs[0] = z.w_output_history[r.tick - 2]]
      BY <1>1, <1>2, <2>3, <3>1 DEF WAdvance, wb_advance_tick, restore_outputs
    <3>3. /\ DOMAIN z = WFields /\ z.tick = r.tick - 1
          /\ \A f \in WFields \ {"tick"} : z[f] = t[f]
      BY <1>4, <1>5, <3>1 DEF WFields, StartFields
    <3>4. /\ z.w_outputs = r.w_outputs /\ z.w_output_history = r.w_output_history
          /\ z.w_link_deltas = r.w_link_deltas /\ z.phase = B
      BY <1>5, <2>3, <3>3 DEF WFields, StartFields
    <3>5. /\ q.w_outputs = [r.w_outputs EXCEPT ![0] = r.w_output_history[r.tick - 2]]
          /\ q.w_output_history = r.w_output_history /\ q.tick = r.tick - 1
          /\ q.w_link_deltas = r.w_link_deltas /\ q.phase = B
      BY <3>2, <3>3, <3>4 DEF WFields, StartFields
    <3>6. q.tick - 1 = r.tick - 2
      BY <1>2, <3>5
    <3> QED BY <1>2, <1>8, <3>5, <3>6 DEF WAdvanced
  <2> QED BY <1>2, <1>8, <2>1, <2>2, <2>3 DEF Leaves
<1> QED BY <1>7, <1>8

\* The advance leaves the buffers right: the outputs of the tick that is over, all
\* of which have come, are those the next tick computes with.
LEMMA OutputsAdvance ==
  ASSUME NEW r, WShape(r), NEW b, Flow!MayLeave(Place(r), b), NEW came,
         r.phase = F => Unit \subseteq came, OutputsOK(r, came),
         NEW q, WAdvanced(r, b, q), Place(q) = Flow!NextPlace(Place(r), b)
  PROVE  OutputsOK(q, {})
<1> DEFINE n == Flow!NextPlace(Place(r), b)
<1>1. /\ r.phase \in {F, B} /\ F # B /\ Training \in BOOLEAN /\ b \in BOOLEAN
      /\ r.tick \in INIT_TICK .. GlobalMaxTicks - 1 /\ r.tick \in Int
      /\ r.wf_procs \in 0 .. 1
  BY NextPlaceOf, StageAssumption DEF F, B, INIT_TICK, WShape
<1>2. /\ Leaves(r, b) => n = ExampleAfter(r)
      /\ r.phase = B /\ r.tick # END_TICK => n = <<r.epoch, r.example_cnt, B, r.tick - 1, r.evt>>
      /\ r.phase = F /\ ~b => n = <<r.epoch, r.example_cnt, F, r.tick + 1, r.evt>>
      /\ r.phase = F /\ b /\ ~EndOfForward(r) =>
           n = <<r.epoch, r.example_cnt, F, r.tick + 1, r.evt + 1>>
      /\ r.phase = F /\ b /\ EndOfForward(r) /\ Training =>
           n = <<r.epoch, r.example_cnt, B, r.tick, r.evt + 1>>
  BY NextPlaceOf
<1>3. /\ q.epoch = n[1] /\ q.example_cnt = n[2] /\ q.phase = n[3] /\ q.tick = n[4]
  BY DEF Place
<1>4. /\ DOMAIN r.w_outputs = 0 .. 1 /\ \A x \in 0 .. 1 : DOMAIN r.w_outputs[x] = Unit
      /\ DOMAIN r.w_output_history = 0 .. GlobalMaxTicks - 1
      /\ \A k \in 0 .. GlobalMaxTicks - 1 : DOMAIN r.w_output_history[k] = Unit
      /\ \A i \in Unit : r.w_output_history[0][i] = Zero
  BY DEF OutputsOK
<1>5. q.w_output_history = r.w_output_history
  BY DEF WAdvanced
<1>6. CASE Leaves(r, b)
  <2>1. /\ q.wf_procs \in 0 .. 1
        /\ q.w_outputs = [r.w_outputs EXCEPT ![q.wf_procs] = [i \in Unit |-> Initial]]
    BY <1>6 DEF WAdvanced
  <2>2. /\ DOMAIN q.w_outputs = 0 .. 1 /\ \A x \in 0 .. 1 : DOMAIN q.w_outputs[x] = Unit
        /\ \A i \in Unit : q.w_outputs[q.wf_procs][i] = Initial
    BY <1>4, <2>1
  <2>3. q.phase = F /\ q.tick = INIT_TICK
    BY <1>2, <1>3, <1>6 DEF ExampleAfter
  <2>4. TickBefore(Stamp(q)) = Initial
    BY <2>3 DEF TickBefore, Stamp
  <2>5. \A k \in INIT_TICK .. q.tick - 1 : FALSE
    BY <2>3 DEF INIT_TICK
  <2> QED BY <1>1, <1>4, <1>5, <2>2, <2>3, <2>4, <2>5 DEF OutputsOK
<1>7. CASE r.phase = F /\ ~Leaves(r, b) /\ ~(b /\ EndOfForward(r))
  <2>1. /\ q.phase = F /\ q.tick = r.tick + 1 /\ q.epoch = r.epoch /\ q.example_cnt = r.example_cnt
    BY <1>1, <1>2, <1>3, <1>7
  <2>2. q.w_outputs = r.w_outputs /\ q.wf_procs = wf_comms(r)
    BY <1>7, <2>1 DEF WAdvanced
  <2>3. TickBefore(Stamp(q)) = Stamp(r)
    BY <1>1, <1>7, <2>1 DEF TickBefore, Stamp, INIT_TICK
  <2>4. \A i \in Unit :
          /\ \A k \in INIT_TICK .. r.tick - 1 : r.w_output_history[k][i] = OutputOf(r, k)
          /\ r.w_outputs[wf_comms(r)][i] = Stamp(r)
          /\ r.w_output_history[r.tick][i] = Stamp(r)
    BY <1>1, <1>7 DEF OutputsOK
  <2>5. \A k : OutputOf(q, k) = OutputOf(r, k)
    BY <2>1 DEF OutputOf
  <2>6. OutputOf(r, r.tick) = Stamp(r)
    BY <1>7 DEF OutputOf, Stamp
  <2>7. \A k \in INIT_TICK .. q.tick - 1 : k \in INIT_TICK .. r.tick - 1 \/ k = r.tick
    BY <1>1, <2>1 DEF INIT_TICK
  <2>8. \A i \in Unit : \A k \in INIT_TICK .. q.tick - 1 : q.w_output_history[k][i] = OutputOf(q, k)
    BY <1>5, <2>4, <2>5, <2>6, <2>7
  <2> QED BY <1>1, <1>4, <1>5, <2>1, <2>2, <2>3, <2>4, <2>8 DEF OutputsOK
<1>8. CASE ~Leaves(r, b) /\ (r.phase = B \/ (b /\ EndOfForward(r)))
  <2>1. /\ q.phase = B /\ q.epoch = r.epoch /\ q.example_cnt = r.example_cnt
        /\ q.tick = IF r.phase = F THEN r.tick ELSE r.tick - 1
        /\ q.tick \in INIT_TICK .. r.tick
    BY <1>1, <1>2, <1>3, <1>8 DEF Leaves, INIT_TICK, END_TICK
  <2>2. q.w_outputs = [r.w_outputs EXCEPT ![0] = r.w_output_history[q.tick - 1]]
    BY <1>8, <2>1 DEF WAdvanced
  <2>3. ASSUME NEW i \in Unit, NEW k \in INIT_TICK .. r.tick
        PROVE  r.w_output_history[k][i] = OutputOf(r, k)
    <3>1. CASE r.phase = B
      BY <1>1, <3>1 DEF OutputsOK
    <3>2. CASE r.phase = F
      <4>1. /\ \A j \in INIT_TICK .. r.tick - 1 : r.w_output_history[j][i] = OutputOf(r, j)
            /\ r.w_output_history[r.tick][i] = Stamp(r)
        BY <1>1, <3>2 DEF OutputsOK
      <4>2. OutputOf(r, r.tick) = Stamp(r)
        BY <3>2 DEF OutputOf, Stamp
      <4>3. k \in INIT_TICK .. r.tick - 1 \/ k = r.tick
        BY <1>1 DEF INIT_TICK
      <4> QED BY <4>1, <4>2, <4>3
    <3> QED BY <1>1, <3>1, <3>2
  <2>4. \A k : OutputOf(q, k) = OutputOf(r, k)
    BY <2>1 DEF OutputOf
  <2>5. \A i \in Unit : \A k \in INIT_TICK .. q.tick : q.w_output_history[k][i] = OutputOf(q, k)
    <3>1. \A k \in INIT_TICK .. q.tick : k \in INIT_TICK .. r.tick
      BY <1>1, <2>1 DEF INIT_TICK
    <3> QED BY <1>5, <2>3, <2>4, <3>1
  <2>6. q.tick - 1 \in 0 .. GlobalMaxTicks - 1 /\ q.tick \in Int
    BY <1>1, <2>1, StageAssumption DEF INIT_TICK
  <2>7. /\ DOMAIN q.w_outputs = 0 .. 1 /\ \A x \in 0 .. 1 : DOMAIN q.w_outputs[x] = Unit
        /\ \A i \in Unit : q.w_outputs[0][i] = r.w_output_history[q.tick - 1][i]
    BY <1>4, <2>2, <2>6
  <2>8. ASSUME NEW i \in Unit
        PROVE  q.w_outputs[0][i] = IF q.tick = INIT_TICK THEN Zero ELSE TickBefore(Stamp(q))
    <3>1. CASE q.tick = INIT_TICK
      BY <1>4, <2>7, <3>1 DEF INIT_TICK
    <3>2. CASE q.tick # INIT_TICK
      <4>1. q.tick - 1 \in INIT_TICK .. r.tick
        BY <1>1, <2>1, <2>6, <3>2 DEF INIT_TICK
      <4>2. r.w_output_history[q.tick - 1][i] = OutputOf(r, q.tick - 1)
        BY <2>3, <4>1
      <4>3. OutputOf(r, q.tick - 1) = TickBefore(Stamp(q))
        BY <2>1, <3>2 DEF OutputOf, TickBefore, Stamp
      <4> QED BY <2>7, <3>2, <4>2, <4>3
    <3> QED BY <3>1, <3>2
  <2> QED BY <1>1, <1>4, <1>5, <2>1, <2>5, <2>7, <2>8 DEF OutputsOK
<1> QED BY <1>1, <1>6, <1>7, <1>8

\* A weight core that advances was behind, and has handled all of the tick it
\* leaves and nothing of the one it enters.
WGoes(c) ==
  /\ c \in Behind /\ Flow!MayLeave(Place(wc[c]), tc[LastSub].tick_stop)
  /\ wc'[c] = WAdvance(wc[c], tc[LastSub].tick_stop)
  /\ Place(wc'[c]) = Flow!NextPlace(Place(wc[c]), tc[LastSub].tick_stop)
  /\ WAdvanced(wc[c], tc[LastSub].tick_stop, wc'[c])
  /\ Flow!Handled(c)' = {}

\* That is how the stop and sync packets find a weight core, and leave it.
LEMMA WAdvances ==
  ASSUME FlowAndMachine, [Flow!Next]_(Flow!vars), NEW c \in WCores,
         NEW p \in net, WTakes(c, p), WStop(p) \/ WSync(p)
  PROVE  WGoes(c)
<1> DEFINE r == wc[c]
           q == wc'[c]
           b == tc[LastSub].tick_stop
<1>0. p.dst = c /\ UNCHANGED <<sc, ic, tc>>
  BY DEF WTakes
<1>1. /\ p.kind \in {"stop", "sync"} /\ net' = net \ {p}
      /\ p.kind = "stop" => wc' = [wc EXCEPT ![c] = wf_advance_tick(r, p.b)]
      /\ p.kind = "sync" => wc' = [wc EXCEPT ![c] = wb_advance_tick(r)]
  BY <1>0 DEF WStop, WSync
<1>2. c \in Cores /\ DOMAIN wc = WCores /\ WShape(r) /\ WCoreOK(c)
  BY RecFacts DEF FlowAndMachine, MachineInv, ShapeOK, CoresOK
<1>3. Rec(c) = r /\ Rec(c)' = q /\ c[1] = "W"
  BY RecFacts
<1>4. Others(c)
  BY <1>0, <1>1, <1>2, CoresApart DEF Others
<1>5. Going(p)
  BY <1>0, <1>1, <1>4 DEF Going
<1>6. /\ c \in Behind /\ c # LastT
      /\ IF Rec(c).phase = F THEN p.kind = "stop" /\ p.b = b ELSE p.kind = "sync"
  BY <1>0, <1>5, GoingFacts
<1>7. /\ Flow!MayLeave(Place(r), b) /\ Flow!NextPlace(Place(r), b) = cur
      /\ ~Opened(c) /\ (\A ph : ~In(c, ph)) /\ ~r.done
      /\ Told(c) => Flow!EpochOver(cur) /\ c \notin Heading({"stpn"})
  BY <1>3, <1>6, BehindFacts
<1>8. q = WAdvance(r, b)
  BY <1>1, <1>2, <1>3, <1>6 DEF WAdvance
<1>9. /\ r.phase = F => r.wb_arrived = 0
      /\ r.phase = B => r.wf_arrived = 0
      /\ ~r.wf_pending
  BY <1>2, <1>7 DEF WCoreOK
<1>10. RendezvousOK(c)
  BY <1>2, <1>6 DEF FlowAndMachine, MachineInv, EpochOK
<1> HIDE DEF r, q, b
<1>11. /\ r.net_stop_rdy <=> Told(c)
       /\ ~r.epoch_rdy
       /\ ~Told(c) => ~r.net_stop
  BY <1>3, <1>7, <1>10 DEF RendezvousOK
<1>12. Place(q) = Flow!NextPlace(Place(r), b)
  <2>1. ~Flow!EpochOver(Flow!NextPlace(Place(r), b)) => ~r.net_stop /\ ~r.net_stop_rdy
    BY <1>7, <1>11
  <2> QED BY <1>2, <1>7, <1>8, <1>9, <1>11, <2>1, WAdvanceRecord
<1>13. WAdvanced(r, b, q)
  BY <1>2, <1>7, <1>8, WAdvanceData
<1>14. Flow!Handled(c)' = {}
  <2>1. Place(q) # Place(r)
    BY <1>7, <1>12, MachineGraph, Flow!NextPlaceFacts
  <2>2. ~CoreStays(c) /\ \A l : ~CoreHandles(c, l)
    BY <1>3, <2>1 DEF CoreStays, CoreHandles
  <2> QED BY <1>2, <2>2, CoreSteps
<1> QED BY <1>6, <1>7, <1>8, <1>12, <1>13, <1>14 DEF WGoes, r, q, b

\* A core that has handled nothing has got no packet of any kind.
LEMMA NoneCameFact == NoneCame
  BY DEF NoneCame, Came, HandledKind

\* wf_advance_tick, wb_advance_tick
LEMMA OutputsGo ==
  ASSUME FlowAndMachine, [Flow!Next]_(Flow!vars), NEW c \in WCores,
         OutputsOK(wc[c], Came("fwd", c)),
         NEW p \in net, WTakes(c, p), WStop(p) \/ WSync(p)
  PROVE  OutputsOK(wc[c], Came("fwd", c))'
<1>1. WGoes(c)
  BY WAdvances
<1>2. WShape(wc[c])
  BY DEF FlowAndMachine, MachineInv, ShapeOK
<1>3. wc[c].phase = F => Unit \subseteq Came("fwd", c)
  BY <1>1, AllCame DEF WGoes
<1>4. OutputsOK(wc'[c], {})
  BY <1>1, <1>2, <1>3, OutputsAdvance DEF WGoes
<1>5. Came("fwd", c)' = {}
  <2>1. NoneCame'
    BY NoneCameFact, PTL
  <2> QED BY <1>1, <2>1 DEF NoneCame, WGoes
<1> QED BY <1>4, <1>5

\* Every step, for the outputs of all weight cores.
LEMMA OutputsStep ==
  ASSUME AllTimely, LongPhases, FlowAndMachine, OutputsInv, [Next]_vars
  PROVE  OutputsInv'
<1>1. FlowAndMachine' /\ [Flow!Next]_(Flow!vars)
  BY StepFlow
<1>2. DOMAIN wc = WCores
  BY DEF FlowAndMachine, MachineInv, ShapeOK
<1>3. ASSUME NEW c \in WCores
      PROVE  OutputsOK(wc[c], Came("fwd", c))'
  <2>1. OutputsOK(wc[c], Came("fwd", c))
    BY DEF OutputsInv
  <2>2. CASE WLeft(c) \/ WProcess(c)
    BY <1>1, <2>1, <2>2, OutputsUntouched
  <2>3. ASSUME NEW p \in net, WTakes(c, p)
        PROVE  OutputsOK(wc[c], Came("fwd", c))'
    <3>1. CASE WForward(p)
      BY <1>1, <2>1, <2>3, <3>1, OutputsForward
    <3>2. CASE WStop(p) \/ WSync(p)
      BY <1>1, <2>1, <2>3, <3>2, OutputsGo
    <3>3. CASE WBackprop(p) \/ WLdsa(p) \/ WNetStop(p)
      BY <1>1, <2>1, <2>3, <3>3, OutputsUntouched
    <3> QED BY <2>3, <3>1, <3>2, <3>3 DEF WTakes, WPacket
  <2> QED BY <1>2, <2>2, <2>3, WSteps
<1> QED BY <1>3 DEF OutputsInv

\* In the first tick nothing has come, and the outputs are the initial ones.
LEMMA InitOutputs == Init => OutputsInv
<1> SUFFICES ASSUME Init, NEW c \in WCores
             PROVE  OutputsOK(wc[c], Came("fwd", c))
  BY DEF OutputsInv
<1>0. PICK r : r = wc[c]
  OBVIOUS
<1>1. r.phase = F /\ r.tick = INIT_TICK
  <2>1. WInit
    BY DEF Init
  <2>2. Place(r) = Flow!First
    BY <1>0, <2>1, WStarts
  <2> QED BY <2>2 DEF Place, Flow!First, F, INIT_TICK
<1>2. /\ r.wf_procs = 0 /\ r.w_outputs = [x \in 0 .. 1 |-> [i \in Unit |-> Initial]]
      /\ r.w_output_history = [k \in 0 .. GlobalMaxTicks - 1 |-> [i \in Unit |-> Zero]]
  <2>1. r = WInitRecord
    BY <1>0 DEF Init, WInit
  <2>2. DOMAIN Start = StartFields
    BY DEF Start, StartFields
  <2> QED BY <2>1, <2>2 DEF WInitRecord, Starting, StartFields
<1>3. Came("fwd", c) = {}
  <2>1. Got = {} /\ Behind = {}
    BY InitFlow DEF Flow!Init
  <2>2. Flow!Handled(c) = {}
    BY <2>1 DEF Flow!Handled
  <2> QED BY <2>2, CameNone
<1>4. TickBefore(Stamp(r)) = Initial /\ F # B
  BY <1>1 DEF TickBefore, Stamp, F, B
<1>5. \A k \in INIT_TICK .. r.tick - 1 : FALSE
  BY <1>1 DEF INIT_TICK
<1>6. 0 \in 0 .. GlobalMaxTicks - 1
  BY StageAssumption
<1>7. OutputsOK(r, {})
  BY <1>1, <1>2, <1>4, <1>5, <1>6 DEF OutputsOK
<1> QED BY <1>0, <1>3, <1>7

\* OutputsInv says it of the core that computes.
LEMMA InvOutputsCurrent == FlowAndMachine /\ OutputsInv => OutputsCurrent
<1> SUFFICES ASSUME FlowAndMachine, OutputsInv, NEW c \in WCores
             PROVE  /\ wc[c].wf_pending =>
                         \A i \in Unit : wc[c].w_outputs[wc[c].wf_procs][i] = TickBefore(Stamp(wc[c]))
                    /\ wc[c].phase = B =>
                         \A i \in Unit : wc[c].w_outputs[0][i] =
                            IF wc[c].tick = INIT_TICK THEN Zero ELSE TickBefore(Stamp(wc[c]))
  BY DEF OutputsCurrent
<1>1. OutputsOK(wc[c], Came("fwd", c))
  BY DEF OutputsInv
<1>2. wc[c].wf_pending => wc[c].phase = F
  BY RecFacts DEF FlowAndMachine, MachineInv, CoresOK, WCoreOK, In
<1> QED BY <1>1, <1>2 DEF OutputsOK

\* The outputs a weight core has are of the tick before, those that have come of
\* this one, and the history holds those of the example so far.
THEOREM OutputsInvariant ==
  ASSUME AllTimely, LongPhases
  PROVE  Spec => [](FlowAndMachine /\ OutputsInv)
<1>1. Init => FlowAndMachine /\ OutputsInv
  BY InitInv, InitOutputs
<1>2. FlowAndMachine /\ OutputsInv /\ [Next]_vars => (FlowAndMachine /\ OutputsInv)'
  BY StepFlow, OutputsStep
<1> QED BY <1>1, <1>2, PTL DEF Spec

\* A weight core computes with the outputs of the previous tick: in FORWARD the
\* buffers of w_outputs are swapped when all of a tick's outputs have come, in
\* BACKPROP the outputs are restored from the history.
THEOREM OutputsAreCurrent ==
  ASSUME AllTimely, LongPhases
  PROVE  Spec => []OutputsCurrent
  BY OutputsInvariant, InvOutputsCurrent, PTL

(***************************************************************************)
(* Every step of the machine, for one threshold core.                      *)
(***************************************************************************)
TLeft(s) == tc'[s] = tc[s] /\ \A q \in net : q.dst = T(s) => q \in net'

TTakes(s, p) ==
  /\ TPacket(p) /\ p.dst = T(s) /\ UNCHANGED <<wc, sc, ic>> /\ net \ {p} \subseteq net'

\* It leaves the core alone, or is a handler of it.
LEMMA TSteps ==
  ASSUME FlowAndMachine, [Next]_vars, NEW s \in Sub
  PROVE  \/ TLeft(s)
         \/ TProcess(s) /\ UNCHANGED <<wc, sc, ic>>
         \/ TAdvance /\ s = LastSub /\ UNCHANGED <<wc, sc, ic>>
         \/ \E p \in net : TTakes(s, p)
<1>0. /\ T(s)[1] = "T" /\ T(s)[2] = s /\ DOMAIN tc = Sub
      /\ \A c \in WCores : c[1] = "W"
  BY CoresApart, TFacts, RecFacts
<1>1. CASE WNext /\ UNCHANGED <<sc, ic, tc>>
  <2>1. ASSUME NEW p \in net, WPacket(p)
        PROVE  p.dst[1] = "W" /\ net \ {p} \subseteq net'
    <3>1. net \ {p} \subseteq net'
      BY <2>1 DEF WPacket, WLdsa, WForward, WBackprop, WStop, WSync, WNetStop
    <3>2. p.dst \in WCores
      BY <2>1 DEF WPacket, WLdsa, WForward, WBackprop, WStop, WSync, WNetStop
    <3> QED BY <1>0, <3>1, <3>2
  <2>2. ASSUME NEW c \in WCores, WProcess(c)
        PROVE  TLeft(s)
    BY <1>1, <2>2 DEF WProcess, TLeft
  <2> QED BY <1>0, <1>1, <2>1, <2>2 DEF WNext, TLeft
<1>2. CASE SNext /\ UNCHANGED <<wc, ic, tc>>
  <2>1. ASSUME NEW p \in net, SPacket(p)
        PROVE  p.dst[1] = "S" /\ net \ {p} \subseteq net'
    BY <2>1 DEF SPacket, SForward, SBackprop, SLds, SFsgn, SBsgn, SStop, SSync, SNetStop
  <2> QED BY <1>0, <1>2, <2>1 DEF SNext, TLeft
<1>3. CASE INext /\ UNCHANGED <<wc, sc, tc>>
  <2>1. ASSUME NEW p \in net, IPacket(p)
        PROVE  p.dst[1] = "I" /\ net \ {p} \subseteq net'
    BY <2>1 DEF IPacket, IForward, IBackprop, IStop, ISync, INetStop
  <2> QED BY <1>0, <1>3, <2>1 DEF INext, TLeft
<1>4. CASE TNext /\ UNCHANGED <<wc, sc, ic>>
  <2>1. CASE TAdvance
    <3>1. net \subseteq net' /\ tc' = [tc EXCEPT ![LastSub] = NewRec]
      BY <2>1, TAdvanceFacts
    <3> QED BY <1>0, <1>4, <2>1, <3>1 DEF TLeft
  <2>2. ASSUME NEW t \in Sub, TProcess(t), t # s
        PROVE  TLeft(s)
    <3>1. net \subseteq net' /\ \E x : tc' = [tc EXCEPT ![t] = x]
      BY <2>2, Zenon DEF TProcess
    <3> QED BY <1>0, <2>2, <3>1 DEF TLeft
  <2>3. ASSUME NEW p \in net, TPacket(p)
        PROVE  TLeft(s) \/ TTakes(s, p)
    <3>1. p.dst[1] = "T" /\ net \ {p} \subseteq net'
      BY <2>3 DEF TPacket, TForward, TCrit, TFsgn, TError, TBsgn, TStop, TSync, TNetStop
    <3>2. p.dst = T(p.dst[2])
      BY <3>1, TAddress
    <3>3. CASE p.dst[2] = s
      BY <1>4, <2>3, <3>1, <3>2, <3>3 DEF TTakes
    <3>4. CASE p.dst[2] # s
      <4>1. \E x : tc' = [tc EXCEPT ![p.dst[2]] = x]
        <5>1. CASE TForward(p)
          BY <5>1, Zenon DEF TForward
        <5>2. CASE TCrit(p)
          BY <5>2, Zenon DEF TCrit
        <5>3. CASE TFsgn(p)
          <6>1. tc' = [tc EXCEPT ![p.dst[2]] = TFDone(p.dst[2], tc[p.dst[2]], "FSGN")]
            BY <5>3 DEF TFsgn
          <6> QED BY <6>1
        <5>4. CASE TError(p)
          BY <5>4, Zenon DEF TError
        <5>5. CASE TBsgn(p)
          BY <5>5, Zenon DEF TBsgn
        <5>6. CASE TStop(p)
          BY <5>6, Zenon DEF TStop, TFAdvance
        <5>7. CASE TSync(p)
          BY <5>7, Zenon DEF TSync, TBAdvance
        <5>8. CASE TNetStop(p)
          <6>1. tc' = [tc EXCEPT ![p.dst[2]] = NetStop(tc[p.dst[2]], p.b)]
            BY <5>8 DEF TNetStop
          <6> QED BY <6>1
        <5> QED BY <2>3, <5>1, <5>2, <5>3, <5>4, <5>5, <5>6, <5>7, <5>8 DEF TPacket
      <4> QED BY <1>0, <3>1, <3>2, <3>4, <4>1 DEF TLeft
    <3> QED BY <3>3, <3>4
  <2> QED BY <1>4, <2>1, <2>2, <2>3 DEF TNext
<1>5. CASE UNCHANGED vars
  BY <1>5 DEF vars, TLeft
<1> QED BY <1>1, <1>2, <1>3, <1>4, <1>5 DEF Next, Terminated

(***************************************************************************)
(* What a threshold core has taken.                                        *)
(***************************************************************************)
\* The scoreboards of a threshold core count what has come, before it is to
\* advance; then, all has.
TCounts(s) ==
  /\ T(s) \notin Behind =>
       /\ tc[s].phase = F => tc[s].tf_arrived = Cardinality(HandledKind("fwd", T(s)))
       /\ tc[s].phase = B => tc[s].tb_arrived = Cardinality(HandledKind("bkp", T(s)))
       /\ Cardinality(HandledKind("fwd", T(s))) \in Nat
       /\ Cardinality(HandledKind("bkp", T(s))) \in Nat
  /\ T(s) \in Behind => Flow!Handled(T(s)) = {l \in LinksOf(Place(tc[s])) : l[3] = T(s)}

TCountsAll == FlowAndMachine => \A s \in Sub : TCounts(s)

\* They do.
LEMMA TCountsFact == TCountsAll
<1> SUFFICES ASSUME FlowAndMachine, NEW s \in Sub
             PROVE  TCounts(s)
  BY DEF TCountsAll
<1>1. T(s) \in Cores /\ Rec(T(s)) = tc[s] /\ TCoreOK(s)
  BY TFacts
<1>2. T(s) \in Behind => Flow!Handled(T(s)) = {l \in LinksOf(Place(tc[s])) : l[3] = T(s)}
  BY <1>1, HandledFacts
<1>3. ASSUME T(s) \notin Behind
      PROVE  /\ tc[s].phase = F => tc[s].tf_arrived = Cardinality(HandledKind("fwd", T(s)))
             /\ tc[s].phase = B => tc[s].tb_arrived = Cardinality(HandledKind("bkp", T(s)))
             /\ Cardinality(HandledKind("fwd", T(s))) \in Nat
             /\ Cardinality(HandledKind("bkp", T(s))) \in Nat
  <2>1. \A k : HandledKind(k, T(s)) = Into({k}, T(s)) \cap Got
    BY <1>1, <1>3, HandledKinds
  <2>2. /\ Cardinality(Into({"fwd"}, T(s)) \cap Got) \in Nat
        /\ Cardinality(Into({"bkp"}, T(s)) \cap Got) \in Nat
    BY CountsT, CountNat
  <2>3. (In(T(s), F) <=> tc[s].phase = F) /\ (In(T(s), B) <=> tc[s].phase = B)
    BY <1>1, <1>3 DEF In
  <2> QED BY <1>1, <2>1, <2>2, <2>3 DEF TCoreOK, GotInto
<1> QED BY <1>2, <1>3 DEF TCounts

\* A packet that a threshold core counts has not come before.
LEMMA TTaken ==
  ASSUME AllTimely, FlowAndMachine, FlowAndMachine', [Flow!Next]_(Flow!vars),
         NEW s \in Sub, NEW p \in net, p.dst = T(s), p.kind \in {"fwd", "bkp"},
         InTime(tc[s], p), net \ {p} \subseteq net', Place(tc'[s]) = Place(tc[s]),
         p.kind = "fwd" => tc'[s].tf_arrived = tc[s].tf_arrived + 1,
         p.kind = "bkp" => tc'[s].tb_arrived = tc[s].tb_arrived + 1
  PROVE  /\ CoreHandles(T(s), LinkOf(p)) /\ p.u \in Unit /\ p.st = Stamp(tc[s])
         /\ tc[s].phase = IF p.kind = "fwd" THEN F ELSE B
<1>1. T(s) \in Cores /\ Rec(T(s)) = tc[s] /\ Rec(T(s))' = tc'[s]
  BY TFacts
<1>2. Awaits(p) /\ InTime(Rec(p.dst), p)
  BY <1>1 DEF Awaits
<1>3. /\ T(s) \notin Behind /\ p.u \in Unit /\ p.st = Stamp(tc[s]) /\ Place(tc[s]) = cur
      /\ LinkOf(p) \in Sent \ Got /\ cur[3] = IF p.kind = "fwd" THEN F ELSE B
  BY <1>1, <1>2, InTickLink
<1>4. /\ tc[s].phase = cur[3] /\ tc'[s].phase = tc[s].phase /\ Stamp(tc'[s]) = Stamp(tc[s])
      /\ F # B
  BY <1>3 DEF Place, Stamp, F, B
<1>5. CoreStays(T(s)) \/ CoreHandles(T(s), LinkOf(p))
  <2>1. \A q \in net : q.dst = T(s) => q = p \/ q \in net'
    OBVIOUS
  <2>2. Stamp(Rec(T(s))') = Stamp(Rec(T(s)))
    BY <1>1, <1>4
  <2> QED BY <1>1, <2>1, <2>2, CoreBy
<1>6. ASSUME CoreStays(T(s))
      PROVE  FALSE
  <2>1. TCounts(s) /\ TCounts(s)'
    <3>1. TCountsAll'
      BY TCountsFact, PTL
    <3> QED BY <3>1, TCountsFact DEF TCountsAll
  <2>2. Flow!Handled(T(s))' = Flow!Handled(T(s)) /\ \A k : HandledKind(k, T(s))' = HandledKind(k, T(s))
    BY <1>6 DEF CoreStays, HandledKind
  <2>3. CASE T(s) \notin Behind'
    BY <1>3, <1>4, <2>1, <2>2, <2>3 DEF TCounts
  <2>4. CASE T(s) \in Behind'
    <3>1. Flow!Handled(T(s))' = {l \in LinksOf(Place(tc'[s])) : l[3] = T(s)}
      BY <2>1, <2>4 DEF TCounts
    <3>2. LinkOf(p) \in LinksOf(cur) /\ LinkOf(p)[3] = T(s)
      BY <1>3, FlowFacts, LinkApart DEF FlowAndMachine, LinkOf
    <3>3. LinkOf(p) \in Flow!Handled(T(s))'
      BY <1>3, <3>1, <3>2
    <3>4. LinkOf(p) \notin Flow!Handled(T(s))
      BY <1>1, <1>3, HandledFacts
    <3> QED BY <2>2, <3>3, <3>4
  <2> QED BY <2>3, <2>4
<1> QED BY <1>3, <1>4, <1>5, <1>6

(***************************************************************************)
(* Outputs and errors of a threshold core.                                 *)
(***************************************************************************)
SameDeltas(r, q) ==
  /\ q.t_outputs = r.t_outputs /\ q.t_output_history = r.t_output_history
  /\ q.t_errors = r.t_errors /\ q.tb_procs = r.tb_procs

\* The invariant looks at the stamp and at these of a record;
LEMMA DeltasSame ==
  ASSUME NEW r, NEW q, NEW fwds, NEW bkps, TOutputsOK(r, fwds), TErrorsOK(r, bkps),
         SameDeltas(r, q), Stamp(q) = Stamp(r)
  PROVE  TOutputsOK(q, fwds) /\ TErrorsOK(q, bkps)
<1>1. /\ q.phase = r.phase /\ q.tick = r.tick /\ q.epoch = r.epoch
      /\ q.example_cnt = r.example_cnt /\ tb_comms(q) = tb_comms(r)
  BY DEF Stamp, SameDeltas, tb_comms
<1>2. \A k : OutputOf(q, k) = OutputOf(r, k)
  BY <1>1 DEF OutputOf
<1>3. \A x, k : /\ NotLater(x, k, q) <=> NotLater(x, k, r)
                /\ Earlier(x, k, q) <=> Earlier(x, k, r)
  BY <1>1, <1>2 DEF NotLater, Earlier
<1>4. TOutputsOK(q, fwds)
  BY <1>1, <1>2, <1>3 DEF TOutputsOK, SameDeltas
<1>5. TErrorsOK(q, bkps)
  BY <1>1, <1>3 DEF TErrorsOK, SameDeltas
<1> QED BY <1>4, <1>5

DeltasOK(s) == TOutputsOK(tc[s], Came("fwd", T(s))) /\ TErrorsOK(tc[s], Came("bkp", T(s)))

\* a step that takes no output and no error leaves them right.
LEMMA DeltasKept ==
  ASSUME FlowAndMachine, FlowAndMachine', [Flow!Next]_(Flow!vars), NEW s \in Sub, NEW p,
         p.kind \notin {"fwd", "bkp"}, \A q \in net : q.dst = T(s) => q = p \/ q \in net',
         SameDeltas(tc[s], tc'[s]), Stamp(tc'[s]) = Stamp(tc[s]), DeltasOK(s)
  PROVE  DeltasOK(s)'
<1>1. T(s) \in Cores /\ Rec(T(s)) = tc[s] /\ Rec(T(s))' = tc'[s]
  BY TFacts
<1>2. CoreStays(T(s)) \/ CoreHandles(T(s), LinkOf(p))
  BY <1>1, CoreBy
<1>3. LinkOf(p)[1] = p.kind
  BY LinkApart DEF LinkOf
<1>4. Came("fwd", T(s))' = Came("fwd", T(s)) /\ Came("bkp", T(s))' = Came("bkp", T(s))
  BY <1>2, <1>3, CameKept
<1> QED BY <1>4, DeltasSame DEF DeltasOK

\* The end of a thread does not touch the data of a threshold core.
LEMMA DoneFrames ==
  ASSUME NEW s, NEW v, DOMAIN v = TFields, NEW th
  PROVE  /\ Frame(v, TFDone(s, v, th), TFDoneSets)
         /\ Frame(v, TBDone(s, v, th), TFDoneSets \cup {"tb_thrds_pend"})
<1>1. PICK x : x = TFDone(s, v, th)
  OBVIOUS
<1>2. \/ x = [v EXCEPT !.tf_thrds_pend = @ \ {th}]
      \/ x = [v EXCEPT !.tf_stop_crit = Aggregate(v)]
      \/ x = [v EXCEPT !.tf_group_crit = Aggregate(v), !.tf_stop_crit = StopDecision(v),
                       !.tick_stop = StopDecision(v), !.advance = TRUE]
  BY <1>1, Zenon DEF TFDone
<1>3. Frame(v, x, TFDoneSets)
  BY <1>2 DEF Frame, TFDoneSets
<1>4. PICK y : y = TBDone(s, v, th)
  OBVIOUS
<1>5. y = [v EXCEPT !.tb_thrds_pend = @ \ {th}] \/ y = v \/ y = [v EXCEPT !.advance = TRUE]
  BY <1>4, Zenon DEF TBDone
<1>6. Frame(v, y, TFDoneSets \cup {"tb_thrds_pend"})
  BY <1>5 DEF Frame, TFDoneSets
<1> QED BY <1>1, <1>3, <1>4, <1>6

\* The handlers that leave them alone.
LEMMA DeltasUntouched ==
  ASSUME AllTimely, FlowAndMachine, FlowAndMachine', [Flow!Next]_(Flow!vars), NEW s \in Sub, DeltasOK(s),
         \/ TLeft(s) \/ TProcess(s)
         \/ \E p \in net : TTakes(s, p) /\ (TCrit(p) \/ TFsgn(p) \/ TBsgn(p) \/ TNetStop(p))
  PROVE  DeltasOK(s)'
<1> DEFINE r == tc[s]
           q == tc'[s]
           Same == SameDeltas(r, q) /\ Stamp(q) = Stamp(r)
<1>1. DOMAIN r = TFields /\ DOMAIN tc = Sub
  BY TFacts DEF TShape, TFields
<1>2. ASSUME NEW v, DOMAIN v = TFields, NEW w, NEW X, Frame(v, w, X),
             X \subseteq {"tb_pending", "tf_crit_prev", "tf_crit_arrived", "tb_bsgn_arrived",
                          "tb_thrds_pend", "advance", "net_stop", "net_stop_rdy", "done"}
                           \cup TFDoneSets
      PROVE  SameDeltas(v, w) /\ Stamp(w) = Stamp(v) /\ DOMAIN w = TFields
  BY <1>2 DEF Frame, TFields, StartFields, SameDeltas, Stamp, TFDoneSets
<1>3. PICK n : n.kind \notin {"fwd", "bkp"}
  <2>1. [kind |-> "stpn"].kind \notin {"fwd", "bkp"}
    OBVIOUS
  <2> QED BY <2>1
<1>4. CASE TLeft(s)
  <2>1. r = q /\ \A p \in net : p.dst = T(s) => p \in net'
    BY <1>4 DEF TLeft
  <2>2. Same
    BY <2>1 DEF SameDeltas
  <2> QED BY <1>3, <2>1, <2>2, DeltasKept
<1>5. CASE TProcess(s)
  <2>1. q = [r EXCEPT !.tb_pending = FALSE] /\ net \subseteq net'
    BY <1>1, <1>5 DEF TProcess
  <2>2. Frame(r, q, {"tb_pending"})
    BY <1>1, <2>1 DEF Frame, TFields, StartFields
  <2>3. Same
    BY <1>1, <1>2, <2>2
  <2> QED BY <1>3, <2>1, <2>3, DeltasKept
<1>6. ASSUME NEW p \in net, TTakes(s, p), TCrit(p) \/ TFsgn(p) \/ TBsgn(p) \/ TNetStop(p)
      PROVE  DeltasOK(s)'
  <2>1. p.dst = T(s) /\ p.dst[2] = s /\ \A x \in net : x.dst = T(s) => x = p \/ x \in net'
    BY <1>6, CoresApart DEF TTakes
  <2>2. p.kind \notin {"fwd", "bkp"}
    BY <1>6 DEF TCrit, TFsgn, TBsgn, TNetStop
  <2>3. ASSUME NEW v, DOMAIN v = TFields, NEW th
        PROVE  /\ SameDeltas(v, TFDone(s, v, th)) /\ Stamp(TFDone(s, v, th)) = Stamp(v)
               /\ SameDeltas(v, TBDone(s, v, th)) /\ Stamp(TBDone(s, v, th)) = Stamp(v)
    BY <1>2, <2>3, DoneFrames
  <2>4. CASE TCrit(p)
    <3>1. PICK x : x = [r EXCEPT !.tf_crit_prev = @ /\ p.b, !.tf_crit_arrived = @ + 1]
      OBVIOUS
    <3>2. q = x \/ q = TFDone(s, x, "CRIT")
      BY <1>1, <2>1, <2>4, <3>1 DEF TCrit
    <3>3. Frame(r, x, {"tf_crit_prev", "tf_crit_arrived"})
      BY <1>1, <3>1 DEF Frame, TFields, StartFields
    <3>4. SameDeltas(r, x) /\ Stamp(x) = Stamp(r) /\ DOMAIN x = TFields
      BY <1>1, <1>2, <3>3
    <3>5. Same
      BY <2>3, <3>2, <3>4 DEF SameDeltas
    <3> QED BY <2>1, <2>2, <3>5, DeltasKept
  <2>5. CASE TFsgn(p)
    <3>1. q = TFDone(s, r, "FSGN")
      BY <1>1, <2>1, <2>5 DEF TFsgn
    <3> QED BY <1>1, <2>1, <2>2, <2>3, <3>1, DeltasKept
  <2>6. CASE TBsgn(p)
    <3>1. PICK x : x = [r EXCEPT !.tb_bsgn_arrived = @ + 1]
      OBVIOUS
    <3>2. q = x \/ q = TBDone(s, x, "BSGN")
      BY <1>1, <2>1, <2>6, <3>1 DEF TBsgn
    <3>3. Frame(r, x, {"tb_bsgn_arrived"})
      BY <1>1, <3>1 DEF Frame, TFields, StartFields
    <3>4. SameDeltas(r, x) /\ Stamp(x) = Stamp(r) /\ DOMAIN x = TFields
      BY <1>1, <1>2, <3>3
    <3>5. Same
      BY <2>3, <3>2, <3>4 DEF SameDeltas
    <3> QED BY <2>1, <2>2, <3>5, DeltasKept
  <2>7. CASE TNetStop(p)
    <3>1. q = NetStop(r, p.b)
      BY <1>1, <2>1, <2>7 DEF TNetStop
    <3>2. Frame(r, q, NetStopFields)
      <4>1. StartFields \subseteq DOMAIN r
        BY <1>1 DEF TFields
      <4> QED BY <3>1, <4>1, NetStopFacts DEF NetStopOf
    <3>3. Same
      BY <1>1, <1>2, <3>2 DEF NetStopFields
    <3> QED BY <2>1, <2>2, <3>3, DeltasKept
  <2> QED BY <1>6, <2>4, <2>5, <2>6, <2>7
<1> QED BY <1>4, <1>5, <1>6

\* A tick of a record that the machine can be in.
InPlace(r) ==
  /\ r.epoch \in 0 .. NumEpochs /\ r.example_cnt \in 0 .. NumExamples - 1
  /\ r.tick \in Tick /\ r.tb_procs \in 0 .. 1

\* An output that has come is in t_outputs, and in the history when training.
LEMMA TOutputTaken ==
  ASSUME NEW r, InPlace(r), r.phase = F, NEW came, TOutputsOK(r, came), NEW u \in Unit, NEW q,
         q.t_outputs = [r.t_outputs EXCEPT ![u] = Stamp(r)],
         q.t_output_history = [r.t_output_history EXCEPT
                                 ![r.tick][u] = IF Training THEN Stamp(r) ELSE @],
         Stamp(q) = Stamp(r)
  PROVE  TOutputsOK(q, came \cup {u})
<1> DEFINE st == Stamp(r)
           t == r.tick
           f == r.t_output_history
           g == q.t_output_history
           v == IF Training THEN st ELSE f[t][u]
<1>1. /\ q.phase = F /\ q.tick = t /\ q.epoch = r.epoch /\ q.example_cnt = r.example_cnt /\ F # B
      /\ t \in Tick
  BY DEF Stamp, InPlace, F, B
<1>2. st = OutputOf(r, t) /\ \A k : OutputOf(q, k) = OutputOf(r, k)
  BY <1>1 DEF OutputOf, Stamp
<1>3. \A x, k : (NotLater(x, k, q) <=> NotLater(x, k, r)) /\ (Earlier(x, k, q) <=> Earlier(x, k, r))
  BY <1>1, <1>2 DEF NotLater, Earlier
<1>4. NotLater(st, t, r)
  <2>1. st = <<r.epoch, r.example_cnt, F, t>>
    BY DEF Stamp
  <2>2. r.epoch \in 0 .. NumEpochs /\ r.example_cnt \in 0 .. NumExamples - 1
    BY DEF InPlace
  <2>3. r.epoch = r.epoch /\ r.example_cnt <= r.example_cnt
    BY <2>2
  <2> HIDE DEF st, t
  <2> QED BY <2>1, <2>2, <2>3 DEF NotLater
<1>5. /\ DOMAIN r.t_outputs = Unit
      /\ DOMAIN f = Tick /\ \A k \in Tick : DOMAIN f[k] = Unit
      /\ \A k \in Tick, i \in Unit : NotLater(f[k][i], k, r)
      /\ \A i \in Unit :
           /\ IF i \in came THEN r.t_outputs[i] = st /\ (Training => f[t][i] = st)
                            ELSE Earlier(f[t][i], t, r)
           /\ Training => \A k \in INIT_TICK .. t - 1 : f[k][i] = OutputOf(r, k)
           /\ \A k \in From(t + 1) : Earlier(f[k][i], k, r)
  BY DEF TOutputsOK
<1>6. g = [f EXCEPT ![t][u] = v]
  OBVIOUS
<1>7. DOMAIN q.t_outputs = Unit /\ \A i \in Unit : q.t_outputs[i] = IF i = u THEN st ELSE r.t_outputs[i]
  BY <1>5
<1>8. Training => v = st
  OBVIOUS
<1>9. NotLater(v, t, r)
  BY <1>1, <1>4, <1>5
<1>10. q.t_output_history = g /\ r.tick = t /\ Stamp(q) = st
  OBVIOUS
<1> HIDE DEF st, t, f, g, v
<1>11. /\ DOMAIN g = Tick
       /\ \A k \in Tick : DOMAIN g[k] = Unit /\ (k # t => g[k] = f[k])
       /\ \A i \in Unit : g[t][i] = IF i = u THEN v ELSE f[t][i]
  BY <1>1, <1>5, <1>6, EntrySet
<1>12. \A k \in Tick, i \in Unit : NotLater(g[k][i], k, q)
  BY <1>1, <1>3, <1>5, <1>9, <1>11
<1>13. /\ \A k \in From(t + 1) : k \in Tick /\ k # t
       /\ \A k \in INIT_TICK .. t - 1 : k \in Tick /\ k # t
  BY <1>1, StageAssumption DEF From, Tick, INIT_TICK
<1>14. ASSUME NEW i \in Unit
       PROVE  /\ IF i \in came \cup {u} THEN q.t_outputs[i] = st /\ (Training => g[t][i] = st)
                                        ELSE Earlier(g[t][i], t, q)
              /\ Training => \A k \in INIT_TICK .. t - 1 : g[k][i] = OutputOf(q, k)
              /\ \A k \in From(t + 1) : Earlier(g[k][i], k, q)
  <2>1. IF i \in came \cup {u} THEN q.t_outputs[i] = st /\ (Training => g[t][i] = st)
                               ELSE Earlier(g[t][i], t, q)
    BY <1>3, <1>5, <1>7, <1>8, <1>11
  <2>2. Training => \A k \in INIT_TICK .. t - 1 : g[k][i] = OutputOf(q, k)
    <3> SUFFICES ASSUME Training, NEW k \in INIT_TICK .. t - 1
                 PROVE  g[k][i] = OutputOf(q, k)
      OBVIOUS
    <3>1. g[k] = f[k]
      BY <1>11, <1>13
    <3>2. f[k][i] = OutputOf(r, k)
      BY <1>5
    <3> QED BY <1>2, <3>1, <3>2
  <2>3. \A k \in From(t + 1) : Earlier(g[k][i], k, q)
    BY <1>3, <1>5, <1>11, <1>13
  <2> QED BY <2>1, <2>2, <2>3
<1>15. /\ DOMAIN q.t_outputs = Unit /\ DOMAIN q.t_output_history = Tick
       /\ \A k \in Tick : DOMAIN q.t_output_history[k] = Unit
       /\ \A k \in Tick, i \in Unit : NotLater(q.t_output_history[k][i], k, q)
  BY <1>7, <1>10, <1>11, <1>12
<1>16. \A i \in Unit :
         /\ IF i \in came \cup {u}
              THEN q.t_outputs[i] = Stamp(q) /\ (Training => q.t_output_history[q.tick][i] = Stamp(q))
              ELSE Earlier(q.t_output_history[q.tick][i], q.tick, q)
         /\ Training => \A k \in INIT_TICK .. q.tick - 1 : q.t_output_history[k][i] = OutputOf(q, k)
         /\ \A k \in From(q.tick + 1) : Earlier(q.t_output_history[k][i], k, q)
  BY <1>1, <1>10, <1>14
<1> QED BY <1>1, <1>15, <1>16 DEF TOutputsOK

\* An error that has come is in the buffer of t_errors that is not in use.
LEMMA TErrorTaken ==
  ASSUME NEW r, InPlace(r), r.phase = B, NEW came, TErrorsOK(r, came), NEW u \in Unit, NEW q,
         q.t_errors = [r.t_errors EXCEPT ![tb_comms(r)][u] = Stamp(r)],
         q.tb_procs = r.tb_procs, q.t_output_history = r.t_output_history, Stamp(q) = Stamp(r)
  PROVE  TErrorsOK(q, came \cup {u})
<1> DEFINE st == Stamp(r)
           b == tb_comms(r)
           f == r.t_errors
           g == q.t_errors
<1>1. /\ q.phase = B /\ q.tick = r.tick /\ q.epoch = r.epoch /\ q.example_cnt = r.example_cnt
      /\ b \in 0 .. 1 /\ b # r.tb_procs /\ r.tb_procs \in 0 .. 1 /\ tb_comms(q) = b
  BY DEF Stamp, InPlace, tb_comms
<1>2. \A x, k : Earlier(x, k, q) <=> Earlier(x, k, r)
  BY <1>1 DEF NotLater, Earlier, OutputOf
<1>3. /\ DOMAIN f = 0 .. 1 /\ \A x \in 0 .. 1 : DOMAIN f[x] = Unit
      /\ \/ \A i \in Unit : f[r.tb_procs][i] = <<r.epoch, r.example_cnt, B, r.tick + 1>>
         \/ \A i \in Unit : /\ f[r.tb_procs][i] = Zero
                            /\ \A k \in From(r.tick + 1) : Earlier(r.t_output_history[k][i], k, r)
      /\ \A i \in Unit : i \in came => f[b][i] = st
  BY DEF TErrorsOK
<1>4. g = [f EXCEPT ![b][u] = st] /\ q.t_errors = g /\ Stamp(q) = st
  OBVIOUS
<1> HIDE DEF st, b, f, g
<1>5. /\ DOMAIN g = 0 .. 1
      /\ \A x \in 0 .. 1 : DOMAIN g[x] = Unit /\ (x # b => g[x] = f[x])
      /\ \A i \in Unit : g[b][i] = IF i = u THEN st ELSE f[b][i]
  BY <1>1, <1>3, <1>4, EntrySet
<1>6. \A i \in Unit : i \in came \cup {u} => g[b][i] = st
  BY <1>3, <1>5
<1>7. g[r.tb_procs] = f[r.tb_procs]
  BY <1>1, <1>5
<1>8. \/ \A i \in Unit : g[q.tb_procs][i] = <<q.epoch, q.example_cnt, B, q.tick + 1>>
      \/ \A i \in Unit : /\ g[q.tb_procs][i] = Zero
                         /\ \A k \in From(q.tick + 1) : Earlier(q.t_output_history[k][i], k, q)
  BY <1>1, <1>2, <1>3, <1>7
<1> QED BY <1>1, <1>4, <1>5, <1>6, <1>8 DEF TErrorsOK

\* Every threshold core is in a tick of the stage.
LEMMA TInPlace ==
  ASSUME FlowAndMachine, NEW s \in Sub
  PROVE  InPlace(tc[s]) /\ tc[s].phase \in {F, B}
<1> DEFINE P == [d \in Cores |-> Place(Rec(d))]
<1>1. T(s) \in Cores /\ Rec(T(s)) = tc[s] /\ TShape(tc[s])
  BY TFacts
<1>2. Place(tc[s]) \in FlowPlaces
  <2>1. P \in [Cores -> FlowPlaces]
    BY FlowPlacesFact DEF FlowAndMachine, Flow!FlowInv, Flow!TypeOK
  <2>2. P[T(s)] = Place(tc[s])
    BY <1>1
  <2> HIDE DEF P
  <2> QED BY <1>1, <2>1, <2>2
<1>3. /\ Place(tc[s])[1] = tc[s].epoch /\ Place(tc[s])[2] = tc[s].example_cnt
      /\ Place(tc[s])[3] = tc[s].phase /\ Place(tc[s])[4] = tc[s].tick
  BY DEF Place
<1>4. /\ Place(tc[s])[1] \in 0 .. NumEpochs /\ Place(tc[s])[2] \in 0 .. NumExamples - 1
      /\ Place(tc[s])[3] \in {F, B} /\ Place(tc[s])[4] \in Tick
  BY <1>2 DEF FlowPlaces
<1>5. tc[s].tb_procs \in 0 .. 1
  BY <1>1 DEF TShape
<1> QED BY <1>3, <1>4, <1>5 DEF InPlace

\* A packet of the kind that is handled has come.
LEMMA CameOne ==
  ASSUME NEW c, NEW l, CoreHandles(c, l)
  PROVE  Came(l[1], c)' = Came(l[1], c) \cup {l[4]}
<1>1. HandledKind(l[1], c)' = HandledKind(l[1], c) \cup {l}
  BY DEF CoreHandles, HandledKind
<1> QED BY <1>1 DEF Came

\* tf_process
LEMMA DeltasForward ==
  ASSUME AllTimely, FlowAndMachine, FlowAndMachine', [Flow!Next]_(Flow!vars), NEW s \in Sub,
         DeltasOK(s), NEW p \in net, TTakes(s, p), TForward(p)
  PROVE  DeltasOK(s)'
<1> DEFINE r == tc[s]
           q == tc'[s]
           r0 == [r EXCEPT !.t_outputs[p.u] = p.st,
                           !.t_output_history[r.tick][p.u] = IF Training THEN p.st ELSE @,
                           !.tf_arrived = @ + 1]
<1>0. p.kind = "fwd"
  BY DEF TForward
<1>1. /\ p.dst = T(s) /\ p.dst[2] = s /\ net \ {p} \subseteq net' /\ UNCHANGED <<wc, sc, ic>>
      /\ p.kind = "fwd"
  BY <1>0, CoresApart DEF TTakes
<1>2. DOMAIN r = TFields /\ DOMAIN tc = Sub
  BY TFacts DEF TShape, TFields
<1>3. /\ Place(q) = Place(r) /\ q.tf_arrived = r.tf_arrived + 1 /\ InTime(r, p)
  <2>1. TFStep(p, s)
    BY <1>1, TForwardStep
  <2> QED BY <1>1, <2>1 DEF TFStep, TFCounted, Keeps
<1>4. CoreHandles(T(s), LinkOf(p)) /\ p.u \in Unit /\ p.st = Stamp(r) /\ r.phase = F /\ F # B
  BY <1>1, <1>3, TTaken DEF F, B
<1>5. LinkOf(p)[1] = "fwd" /\ LinkOf(p)[4] = p.u
  BY <1>1, LinkApart DEF LinkOf
<1>6. /\ Came("fwd", T(s))' = Came("fwd", T(s)) \cup {p.u}
      /\ Came("bkp", T(s))' = Came("bkp", T(s))
  <2>1. Came(LinkOf(p)[1], T(s))' = Came(LinkOf(p)[1], T(s)) \cup {LinkOf(p)[4]}
    BY <1>4, CameOne
  <2>2. Came("bkp", T(s))' = Came("bkp", T(s))
    BY <1>4, <1>5, CameKept
  <2> QED BY <1>5, <2>1, <2>2
<1>7. Stamp(q) = Stamp(r)
  BY <1>3 DEF Place, Stamp
<1>8. PICK crit, r1 : /\ r1 = std_stop_crit(r0, p.u, crit)
                      /\ tc' = [tc EXCEPT ![s] = IF r1.tf_arrived = Units THEN TFDone(s, r1, "PROC") ELSE r1]
  BY <1>1, Zenon DEF TForward
<1>9. q = r1 \/ q = TFDone(s, r1, "PROC")
  BY <1>2, <1>8
<1>10. /\ DOMAIN r0 = TFields
       /\ r0.t_outputs = [r.t_outputs EXCEPT ![p.u] = p.st]
       /\ r0.t_output_history = [r.t_output_history EXCEPT
                                   ![r.tick][p.u] = IF Training THEN p.st ELSE @]
       /\ r0.t_errors = r.t_errors /\ r0.tb_procs = r.tb_procs
  BY <1>2 DEF TFields, StartFields
<1> HIDE DEF r0
<1>11. Frame(r0, r1, {"tf_stop_crit", "tf_met"})
  BY <1>8, <1>10 DEF std_stop_crit, Frame, TFields
<1>12. DOMAIN r1 = TFields /\ SameDeltas(r0, r1)
  BY <1>10, <1>11 DEF Frame, TFields, StartFields, SameDeltas
<1>13. SameDeltas(r1, q)
  <2>1. CASE q = r1
    BY <2>1 DEF SameDeltas
  <2>2. CASE q = TFDone(s, r1, "PROC")
    <3>1. Frame(r1, q, TFDoneSets)
      BY <1>12, <2>2, DoneFrames
    <3> QED BY <1>12, <3>1 DEF Frame, TFields, StartFields, SameDeltas, TFDoneSets
  <2> QED BY <1>9, <2>1, <2>2
<1>14. /\ q.t_outputs = [r.t_outputs EXCEPT ![p.u] = Stamp(r)]
       /\ q.t_output_history = [r.t_output_history EXCEPT
                                  ![r.tick][p.u] = IF Training THEN Stamp(r) ELSE @]
       /\ q.t_errors = r.t_errors /\ q.tb_procs = r.tb_procs
  BY <1>4, <1>10, <1>12, <1>13 DEF SameDeltas
<1>15. InPlace(r) /\ TOutputsOK(r, Came("fwd", T(s))) /\ TErrorsOK(r, Came("bkp", T(s)))
  BY TInPlace DEF DeltasOK
<1> HIDE DEF r, q
<1>16. TOutputsOK(q, Came("fwd", T(s))')
  BY <1>4, <1>6, <1>7, <1>14, <1>15, TOutputTaken
<1>17. TErrorsOK(q, Came("bkp", T(s))')
  <2>1. q.phase = F
    BY <1>4, <1>7 DEF Stamp
  <2> QED BY <1>4, <1>14, <1>15, <2>1 DEF TErrorsOK
<1> QED BY <1>16, <1>17 DEF DeltasOK, q

\* t_backprop_packet
LEMMA DeltasError ==
  ASSUME AllTimely, FlowAndMachine, FlowAndMachine', [Flow!Next]_(Flow!vars), NEW s \in Sub,
         DeltasOK(s), NEW p \in net, TTakes(s, p), TError(p)
  PROVE  DeltasOK(s)'
<1> DEFINE r == tc[s]
           q == tc'[s]
<1>0. p.kind = "bkp"
  BY DEF TError
<1>1. /\ p.dst = T(s) /\ p.dst[2] = s /\ net \ {p} \subseteq net' /\ UNCHANGED <<wc, sc, ic>>
      /\ p.kind = "bkp"
  BY <1>0, CoresApart DEF TTakes
<1>2. DOMAIN r = TFields /\ DOMAIN tc = Sub
  BY TFacts DEF TShape, TFields
<1>3. /\ Place(q) = Place(r) /\ q.tb_arrived = r.tb_arrived + 1 /\ InTime(r, p)
  <2>1. TBStep(p, s)
    BY <1>1, TErrorStep
  <2> QED BY <1>1, <2>1 DEF TBStep, TBCounted, Keeps
<1>4. CoreHandles(T(s), LinkOf(p)) /\ p.u \in Unit /\ p.st = Stamp(r) /\ r.phase = B /\ F # B
  BY <1>1, <1>3, TTaken DEF F, B
<1>5. LinkOf(p)[1] = "bkp" /\ LinkOf(p)[4] = p.u
  BY <1>1, LinkApart DEF LinkOf
<1>6. /\ Came("bkp", T(s))' = Came("bkp", T(s)) \cup {p.u}
      /\ Came("fwd", T(s))' = Came("fwd", T(s))
  <2>1. Came(LinkOf(p)[1], T(s))' = Came(LinkOf(p)[1], T(s)) \cup {LinkOf(p)[4]}
    BY <1>4, CameOne
  <2>2. Came("fwd", T(s))' = Came("fwd", T(s))
    BY <1>4, <1>5, CameKept
  <2> QED BY <1>5, <2>1, <2>2
<1>7. Stamp(q) = Stamp(r)
  BY <1>3 DEF Place, Stamp
<1>8. PICK r1 : r1 = [r EXCEPT !.t_errors[tb_comms(r)][p.u] = p.st, !.tb_arrived = @ + 1]
  OBVIOUS
<1>9. q = r1 \/ q = TBDone(s, r1, "COMS")
  BY <1>1, <1>2, <1>8 DEF TError
<1>10. /\ DOMAIN r1 = TFields
       /\ r1.t_errors = [r.t_errors EXCEPT ![tb_comms(r)][p.u] = p.st]
       /\ r1.t_outputs = r.t_outputs /\ r1.t_output_history = r.t_output_history
       /\ r1.tb_procs = r.tb_procs
  BY <1>2, <1>8 DEF TFields, StartFields
<1>11. SameDeltas(r1, q)
  <2>1. CASE q = r1
    BY <2>1 DEF SameDeltas
  <2>2. CASE q = TBDone(s, r1, "COMS")
    <3>1. Frame(r1, q, TFDoneSets \cup {"tb_thrds_pend"})
      BY <1>10, <2>2, DoneFrames
    <3> QED BY <1>10, <3>1 DEF Frame, TFields, StartFields, SameDeltas, TFDoneSets
  <2> QED BY <1>9, <2>1, <2>2
<1>12. /\ q.t_errors = [r.t_errors EXCEPT ![tb_comms(r)][p.u] = Stamp(r)]
       /\ q.t_outputs = r.t_outputs /\ q.t_output_history = r.t_output_history
       /\ q.tb_procs = r.tb_procs
  BY <1>4, <1>10, <1>11 DEF SameDeltas
<1>13. InPlace(r) /\ TOutputsOK(r, Came("fwd", T(s))) /\ TErrorsOK(r, Came("bkp", T(s)))
  BY TInPlace DEF DeltasOK
<1> HIDE DEF r, q
<1>14. TErrorsOK(q, Came("bkp", T(s))')
  BY <1>4, <1>6, <1>7, <1>12, <1>13, TErrorTaken
<1>15. TOutputsOK(q, Came("fwd", T(s))')
  <2>1. /\ q.phase = B /\ q.tick = r.tick /\ q.epoch = r.epoch /\ q.example_cnt = r.example_cnt
    BY <1>4, <1>7 DEF Stamp
  <2>2. \A x, k : NotLater(x, k, q) <=> NotLater(x, k, r)
    BY <2>1 DEF NotLater
  <2>3. \A k : OutputOf(q, k) = OutputOf(r, k)
    BY <2>1 DEF OutputOf
  <2> QED BY <1>4, <1>12, <1>13, <2>1, <2>2, <2>3 DEF TOutputsOK
<1> QED BY <1>14, <1>15 DEF DeltasOK, q

\* all outputs, all errors of a tick have come when it is over
LEMMA TAllCame ==
  ASSUME FlowAndMachine, NEW s \in Sub, T(s) \in Behind
  PROVE  /\ tc[s].phase = F => Unit \subseteq Came("fwd", T(s))
         /\ tc[s].phase = B => Unit \subseteq Came("bkp", T(s))
<1>1. T(s) \in Cores /\ Rec(T(s)) = tc[s]
  BY TFacts
<1>2. Flow!Handled(T(s)) = {l \in LinksOf(Place(tc[s])) : l[3] = T(s)}
  BY <1>1, HandledFacts
<1>3. /\ tc[s].phase = F => ForwardLinks \subseteq LinksOf(Place(tc[s]))
      /\ tc[s].phase = B => BackpropLinks \subseteq LinksOf(Place(tc[s]))
  BY DEF LinksOf, Place, F, B
<1>4. ASSUME NEW k, NEW l, NEW u \in Unit, l \in LinksOf(Place(tc[s])),
             l[1] = k, l[3] = T(s), l[4] = u
      PROVE  u \in Came(k, T(s))
  <2>1. l \in HandledKind(k, T(s))
    BY <1>2, <1>4 DEF HandledKind
  <2> QED BY <1>4, <2>1 DEF Came
<1>5. ASSUME tc[s].phase = F, NEW u \in Unit
      PROVE  u \in Came("fwd", T(s))
  <2>1. PICK l : l = FwdIT(s, u)
    OBVIOUS
  <2>2. l \in LinksOf(Place(tc[s]))
    BY <1>3, <1>5, <2>1, ForwardIntro
  <2>3. l[1] = "fwd" /\ l[3] = T(s) /\ l[4] = u
    BY <2>1 DEF FwdIT, Link
  <2> QED BY <1>4, <2>2, <2>3
<1>6. ASSUME tc[s].phase = B, NEW u \in Unit
      PROVE  u \in Came("bkp", T(s))
  <2>1. PICK l : l = BkpST(s, u)
    OBVIOUS
  <2>2. l \in LinksOf(Place(tc[s]))
    BY <1>3, <1>6, <2>1, BackpropIntro
  <2>3. l[1] = "bkp" /\ l[3] = T(s) /\ l[4] = u
    BY <2>1 DEF BkpST, Link
  <2> QED BY <1>4, <2>2, <2>3
<1> QED BY <1>5, <1>6

\* What a threshold core computes deltas with after the advance.
TAdvancedData(r, b, q) ==
  /\ q.t_output_history = r.t_output_history
  /\ q.phase = F => q.t_errors = r.t_errors /\ DOMAIN q.t_outputs = DOMAIN r.t_outputs
  /\ q.phase = B /\ r.phase = F =>
       /\ q.t_outputs = r.t_outputs /\ q.tb_procs = r.tb_procs
       /\ q.t_errors = [r.t_errors EXCEPT ![r.tb_procs] = [u \in Unit |-> Zero]]
  /\ q.phase = B /\ r.phase = B =>
       /\ q.t_outputs = r.t_output_history[r.tick - 1]
       /\ q.t_errors = r.t_errors /\ q.tb_procs = tb_comms(r)

\* tf_advance_tick and tb_advance_tick, on the data.
LEMMA TAdvanceData ==
  ASSUME NEW s \in Sub, DOMAIN tc = Sub, NEW r, TShape(r), r.phase \in {F, B},
         NEW b, THalfClear(s, r), TAdvances(s, r, b)
  PROVE  TAdvancedData(r, b, tc'[s])
<1>1. PICK t : t = TTickInit(s, r)
  OBVIOUS
<1>2. F # B
  BY DEF F, B
<1>3. Frame(r, t, TBoardFields) /\ DOMAIN t = TFields /\ DOMAIN r = TFields
  BY <1>1, TTickInitFacts DEF TShape, TFields
<1>4. /\ t.phase = r.phase /\ t.tick = r.tick
      /\ t.t_outputs = r.t_outputs /\ t.t_errors = r.t_errors
      /\ t.t_output_history = r.t_output_history
  BY <1>3 DEF Frame, TBoardFields, TFields, StartFields
<1>5. t.tb_procs = IF r.phase = F THEN r.tb_procs ELSE tb_comms(r)
  <2>1. CASE r.phase = F
    <3>1. t = [r EXCEPT !.tf_thrds_pend = tf_thrds_init(s), !.tf_arrived = 0,
            !.tf_crit_arrived = 0, !.tf_crit_prev = TRUE, !.tf_stop_crit = TRUE,
            !.tf_met = [u \in Unit |-> TRUE]]
      BY <1>1, <2>1 DEF TTickInit, TFTickInit
    <3> QED BY <1>3, <2>1, <3>1 DEF TFields, StartFields
  <2>2. CASE r.phase # F
    <3>1. t = [r EXCEPT !.tb_thrds_pend = tb_thrds_init(s), !.tb_arrived = 0,
            !.tb_bsgn_arrived = 0, !.tb_procs = 1 - @]
      BY <1>1, <2>2 DEF TTickInit, TBTickInit
    <3> QED BY <1>3, <2>2, <3>1 DEF TFields, StartFields, tb_comms
  <2> QED BY <2>1, <2>2
<1>6. ASSUME NEW x, DOMAIN x = TFields, NEW q, q = t_advance_example(s, x), x.phase = F,
             x.t_outputs = t.t_outputs, x.t_errors = t.t_errors,
             x.t_output_history = t.t_output_history
      PROVE  TAdvancedData(r, b, q)
  <2>1. Frame(x, q, TExampleFields)
    BY <1>6, TAdvanceExampleFacts
  <2>2. /\ q.phase = F /\ q.t_outputs = t.t_outputs /\ q.t_errors = t.t_errors
        /\ q.t_output_history = t.t_output_history
    BY <1>6, <2>1 DEF Frame, TExampleFields, ExampleFields, TFields, StartFields
  <2> QED BY <1>2, <1>4, <2>2 DEF TAdvancedData
<1>7. CASE r.phase = F
  <2>1. PICK e : e = IF ~IsLast(s) THEN t
                     ELSE [t EXCEPT !.tf_event_crit = @ /\ t.tf_group_crit /\ t.ev_tick >= MinTicks,
                                    !.max_evt = t.evt]
    OBVIOUS
  <2>2. Frame(t, e, {"tf_event_crit", "max_evt"}) /\ DOMAIN e = TFields
    BY <1>3, <2>1 DEF Frame
  <2>3. /\ e.phase = F /\ e.tick = r.tick
        /\ e.t_outputs = r.t_outputs /\ e.t_errors = r.t_errors
        /\ e.t_output_history = r.t_output_history /\ e.tb_procs = r.tb_procs
    BY <1>3, <1>4, <1>5, <1>7, <2>2 DEF Frame, TFields, StartFields
  <2>4. \/ tc' = [tc EXCEPT ![s] = [t EXCEPT !.tick = @ + 1, !.ev_tick = @ + 1]]
        \/ tc' = [tc EXCEPT ![s] = [e EXCEPT !.evt = @ + 1, !.tick = @ + 1,
                                             !.ev_tick = INIT_TICK]]
        \/ tc' = [tc EXCEPT ![s] = t_switch_to_bp([e EXCEPT !.evt = @ + 1])]
        \/ tc' = [tc EXCEPT ![s] = t_advance_example(s, [e EXCEPT !.tick = INIT_TICK, !.ev_tick = INIT_TICK])]
    BY <1>1, <1>7, <2>1 DEF TAdvances, TFAdvance
  <2>5. ASSUME NEW q, \/ q = [t EXCEPT !.tick = @ + 1, !.ev_tick = @ + 1]
                      \/ q = [e EXCEPT !.evt = @ + 1, !.tick = @ + 1, !.ev_tick = INIT_TICK]
        PROVE  TAdvancedData(r, b, q)
    <3>1. /\ q.phase = F /\ q.t_outputs = r.t_outputs /\ q.t_errors = r.t_errors
          /\ q.t_output_history = r.t_output_history
      BY <1>3, <1>4, <1>7, <2>2, <2>3, <2>5 DEF TFields, StartFields
    <3> QED BY <1>2, <3>1 DEF TAdvancedData
  <2>6. ASSUME NEW q, q = t_switch_to_bp([e EXCEPT !.evt = @ + 1])
        PROVE  TAdvancedData(r, b, q)
    <3>1. PICK y : y = [e EXCEPT !.evt = @ + 1]
      OBVIOUS
    <3>2. DOMAIN y = TFields /\ \A f \in TFields \ {"evt"} : y[f] = e[f]
      BY <2>2, <3>1 DEF TFields, StartFields
    <3>3. q = [y EXCEPT !.phase = B, !.tb_pending = TRUE,
                        !.t_errors[y.tb_procs] = [u \in Unit |-> Zero]]
      BY <2>6, <3>1 DEF t_switch_to_bp
    <3>4. /\ y.tb_procs = r.tb_procs /\ y.t_errors = r.t_errors /\ y.t_outputs = r.t_outputs
          /\ y.t_output_history = r.t_output_history
      BY <2>3, <3>2 DEF TFields, StartFields
    <3>5. PICK z : z = [u \in Unit |-> Zero]
      OBVIOUS
    <3>6. q = [y EXCEPT !.phase = B, !.tb_pending = TRUE, !.t_errors[y.tb_procs] = z]
      BY <3>3, <3>5
    <3>7. /\ q.phase = B /\ q.t_errors = [y.t_errors EXCEPT ![y.tb_procs] = z]
          /\ q.t_outputs = y.t_outputs
          /\ q.t_output_history = y.t_output_history /\ q.tb_procs = y.tb_procs
      BY <3>2, <3>6 DEF TFields, StartFields
    <3>8. /\ q.phase = B /\ q.t_errors = [r.t_errors EXCEPT ![r.tb_procs] = [u \in Unit |-> Zero]]
          /\ q.t_outputs = r.t_outputs
          /\ q.t_output_history = r.t_output_history /\ q.tb_procs = r.tb_procs
      BY <3>4, <3>5, <3>7
    <3> QED BY <1>2, <1>7, <3>8 DEF TAdvancedData
  <2>7. ASSUME NEW x, x = [e EXCEPT !.tick = INIT_TICK, !.ev_tick = INIT_TICK]
        PROVE  TAdvancedData(r, b, t_advance_example(s, x))
    <3>1. /\ DOMAIN x = TFields /\ x.phase = F
          /\ x.t_outputs = t.t_outputs /\ x.t_errors = t.t_errors
          /\ x.t_output_history = t.t_output_history
      BY <1>4, <2>2, <2>3, <2>7 DEF TFields, StartFields
    <3> QED BY <1>6, <3>1
  <2>8. \E q : tc' = [tc EXCEPT ![s] = q] /\ TAdvancedData(r, b, q)
    BY <2>4, <2>5, <2>6, <2>7
  <2> QED BY <2>8
<1>8. CASE r.phase = B
  <2>1. tc' = [tc EXCEPT ![s] =
              IF t.tick = END_TICK THEN t_advance_example(s, AfterBackprop(s, t))
              ELSE [t EXCEPT !.tick = @ - 1, !.tb_pending = TRUE,
                             !.t_outputs = t.t_output_history[t.tick - 1]]]
    BY <1>1, <1>2, <1>8 DEF TAdvances, TBAdvance
  <2>2. ASSUME NEW x, x = AfterBackprop(s, t)
        PROVE  TAdvancedData(r, b, t_advance_example(s, x))
    <3>1. /\ DOMAIN x = TFields /\ x.phase = F
          /\ x.t_outputs = t.t_outputs /\ x.t_errors = t.t_errors
          /\ x.t_output_history = t.t_output_history
      BY <1>3, <2>2 DEF AfterBackprop, TFields, StartFields
    <3> QED BY <1>6, <3>1
  <2>3. ASSUME NEW q, q = [t EXCEPT !.tick = @ - 1, !.tb_pending = TRUE,
                                    !.t_outputs = t.t_output_history[t.tick - 1]]
        PROVE  TAdvancedData(r, b, q)
    <3>1. /\ q.t_outputs = r.t_output_history[r.tick - 1] /\ q.t_errors = r.t_errors
          /\ q.t_output_history = r.t_output_history /\ q.tb_procs = tb_comms(r) /\ q.phase = B
      BY <1>2, <1>3, <1>4, <1>5, <1>8, <2>3 DEF TFields, StartFields
    <3> QED BY <1>2, <1>8, <3>1 DEF TAdvancedData
  <2>4. \E q : tc' = [tc EXCEPT ![s] = q] /\ TAdvancedData(r, b, q)
    BY <2>1, <2>2, <2>3
  <2> QED BY <2>4
<1> QED BY <1>7, <1>8

\* In the next example, all outputs of the history are of an earlier one.
LEMMA OldOutputs ==
  ASSUME NEW r, r.epoch \in 0 .. NumEpochs, r.example_cnt \in 0 .. NumExamples - 1, NEW q,
         q.epoch = ExampleAfter(r)[1], q.example_cnt = ExampleAfter(r)[2],
         NEW x, NEW k, NotLater(x, k, r)
  PROVE  Earlier(x, k, q)
<1>1. r.epoch \in Nat /\ r.example_cnt \in Nat
  OBVIOUS
<1>2. \/ q.epoch = r.epoch + 1 /\ q.example_cnt = 0
      \/ q.epoch = r.epoch /\ q.example_cnt = r.example_cnt + 1
  BY DEF ExampleAfter
<1>3. CASE x = Zero
  <2>1. Zero # OutputOf(q, k)
    BY DEF Zero, OutputOf
  <2> QED BY <1>3, <2>1 DEF Earlier, NotLater
<1>4. CASE x # Zero
  <2>1. PICK e \in 0 .. NumEpochs, n \in 0 .. NumExamples - 1 :
               x = <<e, n, F, k>> /\ (e < r.epoch \/ (e = r.epoch /\ n <= r.example_cnt))
    BY <1>4 DEF NotLater
  <2>2. e < q.epoch \/ (e = q.epoch /\ n < q.example_cnt)
    BY <1>1, <1>2, <2>1
  <2>3. e < q.epoch \/ (e = q.epoch /\ n <= q.example_cnt)
    BY <1>1, <1>2, <2>2
  <2>4. NotLater(x, k, q)
    BY <2>1, <2>3 DEF NotLater
  <2>5. x # OutputOf(q, k)
    <3>1. e # q.epoch \/ n # q.example_cnt
      BY <1>1, <1>2, <2>2
    <3> QED BY <2>1, <3>1 DEF OutputOf
  <2> QED BY <2>4, <2>5 DEF Earlier
<1> QED BY <1>3, <1>4

\* The advance leaves them right: outputs and errors of the tick that is over,
\* all of which have come, are those the next tick computes with.
LEMMA DeltasAdvance ==
  ASSUME NEW r, InPlace(r), NEW b, Flow!MayLeave(Place(r), b), NEW fwds, NEW bkps,
         TOutputsOK(r, fwds), TErrorsOK(r, bkps),
         r.phase = F => Unit \subseteq fwds, r.phase = B => Unit \subseteq bkps,
         NEW q, TAdvancedData(r, b, q), Place(q) = Flow!NextPlace(Place(r), b)
  PROVE  TOutputsOK(q, {}) /\ TErrorsOK(q, {})
<1> DEFINE n == Flow!NextPlace(Place(r), b)
           f == r.t_output_history
<1>1. /\ r.phase \in {F, B} /\ F # B /\ Training \in BOOLEAN /\ b \in BOOLEAN
      /\ r.tick \in INIT_TICK .. GlobalMaxTicks - 1 /\ r.tick \in Int
      /\ r.tick \in Tick /\ GlobalMaxTicks \in Int
  BY NextPlaceOf, StageAssumption DEF F, B, INIT_TICK, Tick
<1>2. /\ Leaves(r, b) => n = ExampleAfter(r)
      /\ r.phase = B /\ r.tick # END_TICK => n = <<r.epoch, r.example_cnt, B, r.tick - 1, r.evt>>
      /\ r.phase = F /\ ~b => n = <<r.epoch, r.example_cnt, F, r.tick + 1, r.evt>>
      /\ r.phase = F /\ b /\ ~EndOfForward(r) =>
           n = <<r.epoch, r.example_cnt, F, r.tick + 1, r.evt + 1>>
      /\ r.phase = F /\ b /\ EndOfForward(r) /\ Training =>
           n = <<r.epoch, r.example_cnt, B, r.tick, r.evt + 1>>
  BY NextPlaceOf
<1>3. /\ q.epoch = n[1] /\ q.example_cnt = n[2] /\ q.phase = n[3] /\ q.tick = n[4]
  BY DEF Place
<1>4. n[4] \in Tick
  <2>1. n \in FlowPlaces
    BY MachineGraph, Flow!NextPlaceFacts, FlowPlacesFact
  <2> HIDE DEF n
  <2> QED BY <2>1 DEF FlowPlaces
<1>5. /\ DOMAIN r.t_outputs = Unit
      /\ DOMAIN f = Tick /\ \A k \in Tick : DOMAIN f[k] = Unit
      /\ \A k \in Tick, u \in Unit : NotLater(f[k][u], k, r)
      /\ DOMAIN r.t_errors = 0 .. 1 /\ \A x \in 0 .. 1 : DOMAIN r.t_errors[x] = Unit
  BY DEF TOutputsOK, TErrorsOK
<1>6. q.t_output_history = f
  BY DEF TAdvancedData
<1> HIDE DEF f, n
<1>7. CASE Leaves(r, b)
  <2>1. q.phase = F /\ q.tick = INIT_TICK /\ n = ExampleAfter(r)
    BY <1>2, <1>3, <1>7 DEF ExampleAfter
  <2>2. \A k \in Tick, u \in Unit : Earlier(f[k][u], k, q)
    <3>1. q.epoch = ExampleAfter(r)[1] /\ q.example_cnt = ExampleAfter(r)[2]
      BY <1>3, <2>1
    <3> QED BY <1>5, <3>1, OldOutputs DEF InPlace
  <2>3. \A k \in Tick, u \in Unit : NotLater(f[k][u], k, q)
    BY <2>2 DEF Earlier
  <2>4. \A k \in From(q.tick + 1) : k \in Tick
    BY <1>1, <2>1 DEF From, Tick, INIT_TICK
  <2>5. q.tick \in Tick
    BY <1>3, <1>4
  <2>6. \A k \in INIT_TICK .. q.tick - 1 : FALSE
    BY <2>1 DEF INIT_TICK
  <2>7. DOMAIN q.t_outputs = Unit /\ q.t_errors = r.t_errors
    BY <1>5, <2>1 DEF TAdvancedData
  <2>8. TOutputsOK(q, {})
    BY <1>1, <1>5, <1>6, <2>1, <2>2, <2>3, <2>4, <2>5, <2>6, <2>7 DEF TOutputsOK
  <2>9. TErrorsOK(q, {})
    BY <1>1, <1>5, <2>1, <2>7 DEF TErrorsOK
  <2> QED BY <2>8, <2>9
<1>8. ASSUME ~Leaves(r, b)
      PROVE  /\ q.epoch = r.epoch /\ q.example_cnt = r.example_cnt
             /\ \A x, k : NotLater(x, k, q) <=> NotLater(x, k, r)
             /\ \A k : OutputOf(q, k) = OutputOf(r, k)
             /\ \A x, k : Earlier(x, k, q) <=> Earlier(x, k, r)
             /\ q.phase = F => r.phase = F /\ q.tick = r.tick + 1
             /\ q.phase = B => q.tick = IF r.phase = F THEN r.tick ELSE r.tick - 1
             /\ q.phase \in {F, B}
             /\ \A k \in Tick, u \in Unit : NotLater(f[k][u], k, q)
  <2>1. /\ q.epoch = r.epoch /\ q.example_cnt = r.example_cnt
        /\ q.phase = F => r.phase = F /\ q.tick = r.tick + 1
        /\ q.phase = B => q.tick = IF r.phase = F THEN r.tick ELSE r.tick - 1
        /\ q.phase \in {F, B}
    <3>1. CASE r.phase = B
      BY <1>1, <1>2, <1>3, <1>8, <3>1 DEF Leaves
    <3>2. CASE r.phase = F /\ ~b
      BY <1>1, <1>2, <1>3, <3>2
    <3>3. CASE r.phase = F /\ b /\ ~EndOfForward(r)
      BY <1>1, <1>2, <1>3, <3>3
    <3>4. CASE r.phase = F /\ b /\ EndOfForward(r) /\ Training
      BY <1>1, <1>2, <1>3, <3>4
    <3> QED BY <1>1, <1>8, <3>1, <3>2, <3>3, <3>4 DEF Leaves
  <2>2. \A x, k : NotLater(x, k, q) <=> NotLater(x, k, r)
    BY <2>1 DEF NotLater
  <2>3. \A k : OutputOf(q, k) = OutputOf(r, k)
    BY <2>1 DEF OutputOf
  <2>4. \A x, k : Earlier(x, k, q) <=> Earlier(x, k, r)
    BY <2>2, <2>3 DEF Earlier
  <2> QED BY <1>5, <2>1, <2>2, <2>3, <2>4
<1>9. ASSUME r.phase = F, NEW u \in Unit
      PROVE  /\ r.t_outputs[u] = OutputOf(r, r.tick)
             /\ Training => \A k \in INIT_TICK .. r.tick : f[k][u] = OutputOf(r, k)
             /\ \A k \in From(r.tick + 1) : Earlier(f[k][u], k, r)
  <2>1. /\ r.t_outputs[u] = Stamp(r)
        /\ Training => f[r.tick][u] = Stamp(r)
        /\ Training => \A k \in INIT_TICK .. r.tick - 1 : f[k][u] = OutputOf(r, k)
        /\ \A k \in From(r.tick + 1) : Earlier(f[k][u], k, r)
    BY <1>9 DEF TOutputsOK, f
  <2>2. OutputOf(r, r.tick) = Stamp(r)
    BY <1>9 DEF OutputOf, Stamp
  <2>3. \A k \in INIT_TICK .. r.tick : k \in INIT_TICK .. r.tick - 1 \/ k = r.tick
    BY <1>1 DEF INIT_TICK
  <2> QED BY <2>1, <2>2, <2>3
<1>10. CASE ~Leaves(r, b) /\ q.phase = F
  <2>1. /\ r.phase = F /\ q.tick = r.tick + 1
        /\ \A k : OutputOf(q, k) = OutputOf(r, k)
        /\ \A x, k : Earlier(x, k, q) <=> Earlier(x, k, r)
        /\ \A k \in Tick, u \in Unit : NotLater(f[k][u], k, q)
    BY <1>8, <1>10
  <2>2. DOMAIN q.t_outputs = Unit /\ q.t_errors = r.t_errors
    BY <1>5, <1>10 DEF TAdvancedData
  <2>3. q.tick \in From(r.tick + 1) /\ \A k \in From(q.tick + 1) : k \in From(r.tick + 1)
    BY <1>1, <1>3, <1>4, <2>1 DEF From, Tick, INIT_TICK
  <2>4. \A k \in INIT_TICK .. q.tick - 1 : k \in INIT_TICK .. r.tick
    BY <1>1, <2>1 DEF INIT_TICK
  <2>5. ASSUME NEW u \in Unit
        PROVE  /\ Earlier(f[q.tick][u], q.tick, q)
               /\ Training => \A k \in INIT_TICK .. q.tick - 1 : f[k][u] = OutputOf(q, k)
               /\ \A k \in From(q.tick + 1) : Earlier(f[k][u], k, q)
    <3>1. /\ Training => \A k \in INIT_TICK .. r.tick : f[k][u] = OutputOf(r, k)
          /\ \A k \in From(r.tick + 1) : Earlier(f[k][u], k, r)
      BY <1>9, <2>1
    <3> QED BY <2>1, <2>3, <2>4, <3>1
  <2>6. TOutputsOK(q, {})
    BY <1>1, <1>5, <1>6, <1>10, <2>1, <2>2, <2>5 DEF TOutputsOK
  <2>7. TErrorsOK(q, {})
    BY <1>1, <1>5, <1>10, <2>2 DEF TErrorsOK
  <2> QED BY <2>6, <2>7
<1>11. CASE ~Leaves(r, b) /\ q.phase = B /\ r.phase = F
  <2>1. /\ q.tick = r.tick /\ q.epoch = r.epoch /\ q.example_cnt = r.example_cnt
        /\ \A k : OutputOf(q, k) = OutputOf(r, k)
        /\ \A x, k : Earlier(x, k, q) <=> Earlier(x, k, r)
        /\ \A k \in Tick, u \in Unit : NotLater(f[k][u], k, q)
    BY <1>1, <1>8, <1>11
  <2>2. /\ q.t_outputs = r.t_outputs /\ q.tb_procs = r.tb_procs
        /\ q.t_errors = [r.t_errors EXCEPT ![r.tb_procs] = [u \in Unit |-> Zero]]
    BY <1>11 DEF TAdvancedData
  <2>3. Training
    <3>1. CASE ~b
      <4>1. n = <<r.epoch, r.example_cnt, F, r.tick + 1, r.evt>>
        BY <1>2, <1>11, <3>1
      <4>2. q.phase = F
        BY <1>3, <4>1
      <4> QED BY <1>1, <1>11, <4>2
    <3>2. CASE b /\ ~EndOfForward(r)
      <4>1. n = <<r.epoch, r.example_cnt, F, r.tick + 1, r.evt + 1>>
        BY <1>2, <1>11, <3>2
      <4>2. q.phase = F
        BY <1>3, <4>1
      <4> QED BY <1>1, <1>11, <4>2
    <3>3. CASE b /\ EndOfForward(r)
      BY <1>1, <1>11, <3>3 DEF Leaves
    <3> QED BY <1>1, <3>1, <3>2, <3>3
  <2>4. \A u \in Unit : /\ q.t_outputs[u] = OutputOf(q, q.tick)
                        /\ \A k \in INIT_TICK .. q.tick : f[k][u] = OutputOf(q, k)
                        /\ \A k \in From(q.tick + 1) : Earlier(f[k][u], k, q)
    BY <1>9, <1>11, <2>1, <2>2, <2>3
  <2>5. TOutputsOK(q, {})
    BY <1>1, <1>5, <1>6, <1>11, <2>1, <2>2, <2>4 DEF TOutputsOK
  <2>6. r.tb_procs \in 0 .. 1
    BY DEF InPlace
  <2>7. /\ DOMAIN q.t_errors = 0 .. 1 /\ \A x \in 0 .. 1 : DOMAIN q.t_errors[x] = Unit
        /\ \A u \in Unit : q.t_errors[q.tb_procs][u] = Zero
    BY <1>5, <2>2, <2>6
  <2>8. TErrorsOK(q, {})
    BY <1>6, <2>4, <2>7 DEF TErrorsOK
  <2> QED BY <2>5, <2>8
<1>12. CASE ~Leaves(r, b) /\ q.phase = B /\ r.phase = B
  <2>1. /\ q.tick = r.tick - 1 /\ q.epoch = r.epoch /\ q.example_cnt = r.example_cnt
        /\ \A k : OutputOf(q, k) = OutputOf(r, k)
        /\ \A k \in Tick, u \in Unit : NotLater(f[k][u], k, q)
    BY <1>1, <1>8, <1>12
  <2>2. /\ q.t_outputs = f[r.tick - 1] /\ q.tb_procs = tb_comms(r)
        /\ q.t_errors = r.t_errors
    BY <1>12 DEF TAdvancedData, f
  <2>3. /\ q.tick \in Tick /\ q.tick \in INIT_TICK .. r.tick
        /\ \A k \in INIT_TICK .. q.tick : k \in INIT_TICK .. r.tick
    BY <1>1, <1>3, <1>4, <2>1 DEF Tick, INIT_TICK
  <2>4. \A u \in Unit : \A k \in INIT_TICK .. r.tick : f[k][u] = OutputOf(r, k)
    BY <1>1, <1>12 DEF TOutputsOK, f
  <2>5. DOMAIN q.t_outputs = Unit /\ \A u \in Unit : q.t_outputs[u] = OutputOf(q, q.tick)
    BY <1>5, <2>1, <2>2, <2>3, <2>4
  <2>6. TOutputsOK(q, {})
    BY <1>1, <1>5, <1>6, <1>12, <2>1, <2>3, <2>4, <2>5 DEF TOutputsOK
  <2>7. \A u \in Unit : r.t_errors[tb_comms(r)][u] = Stamp(r)
    BY <1>12 DEF TErrorsOK
  <2>8. Stamp(r) = <<q.epoch, q.example_cnt, B, q.tick + 1>>
    BY <1>1, <1>12, <2>1 DEF Stamp
  <2>9. \A u \in Unit : q.t_errors[q.tb_procs][u] = <<q.epoch, q.example_cnt, B, q.tick + 1>>
    BY <2>2, <2>7, <2>8
  <2>10. /\ DOMAIN q.t_errors = 0 .. 1 /\ \A x \in 0 .. 1 : DOMAIN q.t_errors[x] = Unit
         /\ \A u \in Unit : u \notin {}
    BY <1>5, <2>2
  <2>11. TErrorsOK(q, {})
    BY <2>9, <2>10 DEF TErrorsOK
  <2> QED BY <2>6, <2>11
<1>13. ~Leaves(r, b) => q.phase \in {F, B}
  BY <1>8
<1> QED BY <1>1, <1>7, <1>10, <1>11, <1>12, <1>13

\* A threshold core advances: r is its record (of the last T, less the callback).
LEMMA DeltasLeave ==
  ASSUME FlowAndMachine, [Flow!Next]_(Flow!vars), NEW s \in Sub, DeltasOK(s), T(s) \in Behind,
         NEW r, TShape(r), Place(r) = Place(tc[s]), SameDeltas(tc[s], r), THalfClear(s, r),
         NEW b, Flow!MayLeave(Place(r), b), TAdvances(s, r, b),
         Place(tc'[s]) = Flow!NextPlace(Place(r), b)
  PROVE  DeltasOK(s)'
<1> DEFINE q == tc'[s]
<1>1. /\ r.phase = tc[s].phase /\ r.tick = tc[s].tick /\ r.epoch = tc[s].epoch
      /\ r.example_cnt = tc[s].example_cnt /\ r.tb_procs = tc[s].tb_procs
  BY DEF Place, SameDeltas
<1>2. InPlace(r) /\ r.phase \in {F, B}
  BY <1>1, TInPlace DEF InPlace
<1>3. TOutputsOK(r, Came("fwd", T(s))) /\ TErrorsOK(r, Came("bkp", T(s)))
  <2>1. Stamp(r) = Stamp(tc[s])
    BY <1>1 DEF Stamp
  <2> QED BY <2>1, DeltasSame DEF DeltasOK
<1>4. /\ r.phase = F => Unit \subseteq Came("fwd", T(s))
      /\ r.phase = B => Unit \subseteq Came("bkp", T(s))
  BY <1>1, TAllCame
<1>5. TAdvancedData(r, b, q)
  BY <1>2, TFacts, TAdvanceData
<1>6. TOutputsOK(q, {}) /\ TErrorsOK(q, {})
  BY <1>2, <1>3, <1>4, <1>5, DeltasAdvance
<1>7. Flow!Handled(T(s))' = {}
  <2>1. T(s) \in Cores /\ Rec(T(s)) = tc[s] /\ Rec(T(s))' = q
    BY TFacts
  <2>2. Place(q) # Place(r)
    BY MachineGraph, Flow!NextPlaceFacts
  <2>3. ~CoreStays(T(s)) /\ \A l : ~CoreHandles(T(s), l)
    BY <2>1, <2>2 DEF CoreStays, CoreHandles
  <2> QED BY <2>1, <2>3, CoreSteps
<1>8. Came("fwd", T(s))' = {} /\ Came("bkp", T(s))' = {}
  <2>1. NoneCame'
    BY NoneCameFact, PTL
  <2> QED BY <1>7, <2>1 DEF NoneCame
<1> QED BY <1>6, <1>8 DEF DeltasOK

\* tf_advance_tick, tb_advance_tick of a core that is told to,
LEMMA DeltasGo ==
  ASSUME FlowAndMachine, [Flow!Next]_(Flow!vars), NEW s \in Sub, DeltasOK(s),
         NEW p \in net, TTakes(s, p), TStop(p) \/ TSync(p)
  PROVE  DeltasOK(s)'
<1> DEFINE r == tc[s]
           b == tc[LastSub].tick_stop
<1>1. /\ p.dst = T(s) /\ p.dst[2] = s /\ UNCHANGED <<wc, sc, ic>>
      /\ p.kind \in {"stop", "sync"} /\ net' = net \ {p}
      /\ p.kind = "stop" => TFAdvance(s, r, p.b)
      /\ p.kind = "sync" => TBAdvance(s, r)
  BY CoresApart DEF TTakes, TStop, TSync
<1>2. T(s) \in Cores /\ Rec(T(s)) = r /\ TShape(r) /\ TCoreOK(s) /\ DOMAIN tc = Sub
  BY TFacts
<1>3. PacketOK(p)
  BY DEF FlowAndMachine, MachineInv, NetOK
<1>4. T(s) \in Behind /\ T(s) # LastT
  BY <1>1, <1>3 DEF PacketOK, Behind, Heading
<1>5. IF r.phase = F THEN p.kind = "stop" /\ p.b = b ELSE p.kind = "sync"
  BY <1>1, <1>2, <1>3 DEF PacketOK
<1>6. TAdvances(s, r, b)
  BY <1>1, <1>5 DEF TAdvances
<1>7. Flow!MayLeave(Place(r), b) /\ \A ph : ~In(T(s), ph)
  BY <1>2, <1>4, BehindFacts
<1>8. THalfClear(s, r) /\ ~r.tb_pending
  BY <1>2, <1>7 DEF TCoreOK, THalfClear
<1>9. TAdvanced(s, r, b, tc'[s])
  BY <1>2, <1>6, <1>7, <1>8, TAdvanceRecord
<1>10. Place(tc'[s]) = Flow!NextPlace(Place(r), b)
  BY <1>9 DEF TAdvanced
<1>11. SameDeltas(r, r)
  BY DEF SameDeltas
<1> HIDE DEF b
<1> QED BY <1>2, <1>4, <1>6, <1>7, <1>8, <1>10, <1>11, DeltasLeave

\* and of the last one.
LEMMA DeltasCallback ==
  ASSUME FlowAndMachine, [Flow!Next]_(Flow!vars), DeltasOK(LastSub), TAdvance
  PROVE  DeltasOK(LastSub)'
<1> DEFINE r == LastRec
           b == LastRec.tick_stop
<1>1. /\ LastSub \in Sub /\ LastT = T(LastSub) /\ LastT \in Behind
      /\ TShape(r) /\ Place(r) = Place(tc[LastSub]) /\ Flow!MayLeave(Place(r), b)
      /\ THalfClear(LastSub, r)
  BY TAdvanceFacts, LastRecFacts
<1>2. TAdvances(LastSub, r, b)
  <2>1. F # B
    BY DEF F, B
  <2> QED BY <2>1 DEF TAdvance, TAdvances, LastRec
<1>3. Place(tc'[LastSub]) = Flow!NextPlace(Place(r), b)
  BY TAdvanceFacts DEF TAdvanced, NewRec
<1>4. SameDeltas(tc[LastSub], r)
  <2>1. DOMAIN tc[LastSub] = TFields
    BY <1>1, TFacts DEF TShape, TFields
  <2> QED BY <2>1 DEF LastRec, SameDeltas, TFields, StartFields
<1> HIDE DEF r, b
<1> QED BY <1>1, <1>2, <1>3, <1>4, DeltasLeave

\* Every step, for all threshold cores.
LEMMA DeltasStep ==
  ASSUME AllTimely, LongPhases, FlowAndMachine, DeltasInv, [Next]_vars
  PROVE  DeltasInv'
<1>1. FlowAndMachine' /\ [Flow!Next]_(Flow!vars)
  BY StepFlow
<1>2. ASSUME NEW s \in Sub
      PROVE  DeltasOK(s)'
  <2>1. DeltasOK(s)
    BY DEF DeltasInv, DeltasOK
  <2>2. CASE TLeft(s) \/ TProcess(s)
    BY <1>1, <2>1, <2>2, DeltasUntouched
  <2>3. CASE TAdvance /\ s = LastSub
    BY <1>1, <2>1, <2>3, DeltasCallback
  <2>4. ASSUME NEW p \in net, TTakes(s, p)
        PROVE  DeltasOK(s)'
    <3>1. CASE TForward(p)
      BY <1>1, <2>1, <2>4, <3>1, DeltasForward
    <3>2. CASE TError(p)
      BY <1>1, <2>1, <2>4, <3>2, DeltasError
    <3>3. CASE TStop(p) \/ TSync(p)
      BY <1>1, <2>1, <2>4, <3>3, DeltasGo
    <3>4. CASE TCrit(p) \/ TFsgn(p) \/ TBsgn(p) \/ TNetStop(p)
      BY <1>1, <2>1, <2>4, <3>4, DeltasUntouched
    <3> QED BY <2>4, <3>1, <3>2, <3>3, <3>4 DEF TTakes, TPacket
  <2> QED BY <2>2, <2>3, <2>4, TSteps
<1> QED BY <1>2 DEF DeltasInv, DeltasOK

\* In the first tick nothing has come, and the histories are empty.
LEMMA InitDeltas == Init => DeltasInv
<1> SUFFICES ASSUME Init, NEW s \in Sub
             PROVE  TOutputsOK(tc[s], Came("fwd", T(s))) /\ TErrorsOK(tc[s], Came("bkp", T(s)))
  BY DEF DeltasInv
<1>0. PICK r : r = tc[s]
  OBVIOUS
<1>1. r.phase = F /\ r.tick = INIT_TICK /\ F # B
  <2>1. TInit
    BY DEF Init
  <2>2. Place(r) = Flow!First
    BY <1>0, <2>1, TStarts
  <2> QED BY <2>2 DEF Place, Flow!First, F, B, INIT_TICK
<1>2. /\ r.t_errors = [x \in 0 .. 1 |-> [u \in Unit |-> Zero]]
      /\ r.t_outputs = [u \in Unit |-> Initial]
      /\ r.t_output_history = [k \in Tick |-> [u \in Unit |-> Zero]]
  <2>1. r = TInitRecord(s)
    BY <1>0 DEF Init, TInit
  <2>2. DOMAIN Start = StartFields
    BY DEF Start, StartFields
  <2> QED BY <2>1, <2>2 DEF TInitRecord, Starting, StartFields
<1>3. Came("fwd", T(s)) = {} /\ Came("bkp", T(s)) = {}
  <2>1. Got = {} /\ Behind = {}
    BY InitFlow DEF Flow!Init
  <2>2. Flow!Handled(T(s)) = {}
    BY <2>1 DEF Flow!Handled
  <2> QED BY <2>2, CameNone
<1>4. \A k : Earlier(Zero, k, r) /\ NotLater(Zero, k, r)
  BY DEF Earlier, NotLater, Zero, OutputOf
<1>5. /\ \A k \in From(r.tick + 1) : k \in Tick
      /\ r.tick \in Tick
      /\ \A k \in INIT_TICK .. r.tick - 1 : FALSE
  BY <1>1, StageAssumption DEF From, Tick, INIT_TICK
<1>6. /\ DOMAIN r.t_outputs = Unit /\ DOMAIN r.t_output_history = Tick
      /\ \A k \in Tick : DOMAIN r.t_output_history[k] = Unit
      /\ \A k \in Tick, u \in Unit : r.t_output_history[k][u] = Zero
      /\ DOMAIN r.t_errors = 0 .. 1 /\ \A x \in 0 .. 1 : DOMAIN r.t_errors[x] = Unit
  BY <1>2
<1>7. TOutputsOK(r, {})
  BY <1>1, <1>4, <1>5, <1>6 DEF TOutputsOK
<1>8. TErrorsOK(r, {})
  BY <1>1, <1>6 DEF TErrorsOK
<1> QED BY <1>0, <1>3, <1>7, <1>8

\* DeltasInv says it of the core that computes.
LEMMA InvDeltasCurrent == FlowAndMachine /\ DeltasInv => DeltasCurrent
<1> SUFFICES ASSUME FlowAndMachine, DeltasInv, NEW s \in Sub, NEW r, r = tc[s], r.tb_pending
             PROVE  /\ \A u \in Unit : r.t_outputs[u] = <<r.epoch, r.example_cnt, F, r.tick>>
                    /\ \/ \A u \in Unit : r.t_errors[r.tb_procs][u] =
                                            <<r.epoch, r.example_cnt, B, r.tick + 1>>
                       \/ /\ \A u \in Unit : r.t_errors[r.tb_procs][u] = Zero
                          /\ r.tick < GlobalMaxTicks - 1 =>
                               \A u \in Unit : r.t_output_history[r.tick + 1][u]
                                                 # <<r.epoch, r.example_cnt, F, r.tick + 1>>
  BY DEF DeltasCurrent
<1>1. TOutputsOK(r, Came("fwd", T(s))) /\ TErrorsOK(r, Came("bkp", T(s)))
  BY DEF DeltasInv
<1>2. r.phase = B
  <2>1. TCoreOK(s) /\ Rec(T(s)) = tc[s]
    BY TFacts
  <2> QED BY <2>1 DEF TCoreOK, In
<1>3. r.tick < GlobalMaxTicks - 1 => r.tick + 1 \in From(r.tick + 1)
  <2>1. r.tick \in Tick
    BY TInPlace DEF InPlace
  <2> QED BY <2>1, StageAssumption DEF Tick, From, INIT_TICK
<1>4. \A u \in Unit : r.t_outputs[u] = OutputOf(r, r.tick)
  BY <1>1, <1>2 DEF TOutputsOK
<1>5. \/ \A u \in Unit : r.t_errors[r.tb_procs][u] = <<r.epoch, r.example_cnt, B, r.tick + 1>>
      \/ \A u \in Unit : /\ r.t_errors[r.tb_procs][u] = Zero
                         /\ \A k \in From(r.tick + 1) : Earlier(r.t_output_history[k][u], k, r)
  BY <1>1, <1>2 DEF TErrorsOK
<1>6. \A u \in Unit : \A k : Earlier(r.t_output_history[k][u], k, r) =>
                           r.t_output_history[k][u] # OutputOf(r, k)
  BY DEF Earlier
<1> QED BY <1>3, <1>4, <1>5, <1>6 DEF OutputOf

\* The outputs a threshold core has are of its tick, in so far as they have come;
\* the errors in use are of the tick above, those that come go to the other buffer.
THEOREM DeltasInvariant ==
  ASSUME AllTimely, LongPhases
  PROVE  Spec => [](FlowAndMachine /\ DeltasInv)
<1>1. Init => FlowAndMachine /\ DeltasInv
  BY InitInv, InitDeltas
<1>2. FlowAndMachine /\ DeltasInv /\ [Next]_vars => (FlowAndMachine /\ DeltasInv)'
  BY StepFlow, DeltasStep
<1> QED BY <1>1, <1>2, PTL DEF Spec

\* A threshold core computes its deltas with the outputs of the tick and the
\* errors of the tick above, or with none in the tick the FORWARD phase ended
\* with: the buffers of t_errors are swapped when all errors have come.
THEOREM DeltasAreCurrent ==
  ASSUME AllTimely, LongPhases
  PROVE  Spec => []DeltasCurrent
  BY DeltasInvariant, InvDeltasCurrent, PTL

(***************************************************************************)
(* Link deltas.                                                            *)
(***************************************************************************)
\* A weight core that has a count of what it has handled,
WCounts(c) ==
  /\ c \notin Behind =>
       /\ wc[c].phase = F => wc[c].wf_arrived = Cardinality(HandledKind("fwd", c))
       /\ wc[c].phase = B => wc[c].wb_arrived = Cardinality(HandledKind("bkp", c))
       /\ Cardinality(HandledKind("fwd", c)) \in Nat
       /\ Cardinality(HandledKind("bkp", c)) \in Nat
  /\ c \in Behind => Flow!Handled(c) = {l \in LinksOf(Place(wc[c])) : l[3] = c}

WCountsAll == FlowAndMachine => \A c \in WCores : WCounts(c)

\* as they all do, counts a packet
LEMMA WCountsFact == WCountsAll
<1> SUFFICES ASSUME FlowAndMachine, NEW c \in WCores
             PROVE  WCounts(c)
  BY DEF WCountsAll
<1>0. PICK to \in Sub, from \in Sub : c = W(to, from)
  BY DEF WCores
<1>1. c \in Cores /\ Rec(c) = wc[c] /\ WCoreOK(c)
  BY RecFacts DEF FlowAndMachine, MachineInv, CoresOK
<1>2. c \in Behind => Flow!Handled(c) = {l \in LinksOf(Place(wc[c])) : l[3] = c}
  BY <1>1, HandledFacts
<1>3. ASSUME c \notin Behind
      PROVE  /\ wc[c].phase = F => wc[c].wf_arrived = Cardinality(HandledKind("fwd", c))
             /\ wc[c].phase = B => wc[c].wb_arrived = Cardinality(HandledKind("bkp", c))
             /\ Cardinality(HandledKind("fwd", c)) \in Nat
             /\ Cardinality(HandledKind("bkp", c)) \in Nat
  <2>1. \A k : HandledKind(k, c) = Into({k}, c) \cap Got
    BY <1>1, <1>3, HandledKinds
  <2>2. /\ Cardinality(Into({"fwd"}, c) \cap Got) \in Nat
        /\ Cardinality(Into({"bkp"}, c) \cap Got) \in Nat
    BY <1>0, CountsW, CountNat
  <2>3. (In(c, F) <=> wc[c].phase = F) /\ (In(c, B) <=> wc[c].phase = B)
    BY <1>1, <1>3 DEF In
  <2> QED BY <1>1, <2>1, <2>2, <2>3 DEF WCoreOK, GotInto
<1> QED BY <1>2, <1>3 DEF WCounts

\* that has not come before.
LEMMA WTaken ==
  ASSUME AllTimely, FlowAndMachine, FlowAndMachine', [Flow!Next]_(Flow!vars),
         NEW c \in WCores, NEW p \in net, p.dst = c, p.kind \in {"fwd", "bkp"},
         InTime(wc[c], p), net \ {p} \subseteq net', Place(wc'[c]) = Place(wc[c]),
         p.kind = "fwd" => wc'[c].wf_arrived = wc[c].wf_arrived + 1,
         p.kind = "bkp" => wc'[c].wb_arrived = wc[c].wb_arrived + 1
  PROVE  /\ CoreHandles(c, LinkOf(p)) /\ p.u \in Unit /\ p.st = Stamp(wc[c])
         /\ wc[c].phase = IF p.kind = "fwd" THEN F ELSE B
<1>1. c \in Cores /\ Rec(c) = wc[c] /\ Rec(c)' = wc'[c]
  BY RecFacts
<1>2. Awaits(p) /\ InTime(Rec(p.dst), p)
  BY <1>1 DEF Awaits
<1>3. /\ c \notin Behind /\ p.u \in Unit /\ p.st = Stamp(wc[c]) /\ Place(wc[c]) = cur
      /\ LinkOf(p) \in Sent \ Got /\ cur[3] = IF p.kind = "fwd" THEN F ELSE B
  BY <1>1, <1>2, InTickLink
<1>4. /\ wc[c].phase = cur[3] /\ wc'[c].phase = wc[c].phase /\ Stamp(wc'[c]) = Stamp(wc[c])
      /\ F # B
  BY <1>3 DEF Place, Stamp, F, B
<1>5. CoreStays(c) \/ CoreHandles(c, LinkOf(p))
  <2>1. \A q \in net : q.dst = c => q = p \/ q \in net'
    OBVIOUS
  <2>2. Stamp(Rec(c)') = Stamp(Rec(c))
    BY <1>1, <1>4
  <2> QED BY <1>1, <2>1, <2>2, CoreBy
<1>6. ASSUME CoreStays(c)
      PROVE  FALSE
  <2>1. WCounts(c) /\ WCounts(c)'
    <3>1. WCountsAll'
      BY WCountsFact, PTL
    <3> QED BY <3>1, WCountsFact DEF WCountsAll
  <2>2. Flow!Handled(c)' = Flow!Handled(c) /\ \A k : HandledKind(k, c)' = HandledKind(k, c)
    BY <1>6 DEF CoreStays, HandledKind
  <2>3. CASE c \notin Behind'
    BY <1>3, <1>4, <2>1, <2>2, <2>3 DEF WCounts
  <2>4. CASE c \in Behind'
    <3>1. Flow!Handled(c)' = {l \in LinksOf(Place(wc'[c])) : l[3] = c}
      BY <2>1, <2>4 DEF WCounts
    <3>2. LinkOf(p) \in LinksOf(cur) /\ LinkOf(p)[3] = c
      BY <1>3, FlowFacts, LinkApart DEF FlowAndMachine, LinkOf
    <3>3. LinkOf(p) \in Flow!Handled(c)'
      BY <1>3, <3>1, <3>2
    <3>4. LinkOf(p) \notin Flow!Handled(c)
      BY <1>1, <1>3, HandledFacts
    <3> QED BY <2>2, <3>3, <3>4
  <2> QED BY <2>3, <2>4
<1> QED BY <1>3, <1>4, <1>5, <1>6

\* The place of a weight core.
LEMMA WInPlace ==
  ASSUME FlowAndMachine, NEW c \in WCores
  PROVE  /\ wc[c].epoch \in 0 .. NumEpochs /\ wc[c].example_cnt \in 0 .. NumExamples - 1
         /\ wc[c].tick \in Tick /\ wc[c].phase \in {F, B}
<1> DEFINE P == [d \in Cores |-> Place(Rec(d))]
<1>1. c \in Cores /\ Rec(c) = wc[c]
  BY RecFacts
<1>2. Place(wc[c]) \in FlowPlaces
  <2>1. P \in [Cores -> FlowPlaces]
    BY FlowPlacesFact DEF FlowAndMachine, Flow!FlowInv, Flow!TypeOK
  <2>2. P[c] = Place(wc[c])
    BY <1>1
  <2> HIDE DEF P
  <2> QED BY <1>1, <2>1, <2>2
<1>3. /\ Place(wc[c])[1] = wc[c].epoch /\ Place(wc[c])[2] = wc[c].example_cnt
      /\ Place(wc[c])[3] = wc[c].phase /\ Place(wc[c])[4] = wc[c].tick
  BY DEF Place
<1>4. /\ Place(wc[c])[1] \in 0 .. NumEpochs /\ Place(wc[c])[2] \in 0 .. NumExamples - 1
      /\ Place(wc[c])[3] \in {F, B} /\ Place(wc[c])[4] \in Tick
  BY <1>2 DEF FlowPlaces
<1> QED BY <1>3, <1>4

\* The deltas that have come are of units, each from one link,
LEMMA DeltasFrom ==
  ASSUME NEW c \in WCores
  PROVE  /\ \A l \in AllLinks : l[1] = "bkp" /\ l[3] = c =>
                                 l = BkpIW(c[2], c[3], l[4]) /\ l[4] \in Unit
         /\ FlowAndMachine => Came("bkp", c) \subseteq Unit
<1>1. PICK to \in Sub, from \in Sub : c = W(to, from)
  BY DEF WCores
<1>2. c[2] = to /\ c[3] = from /\ c \in Cores
  BY <1>1, RecFacts DEF W
<1>3. ASSUME NEW l \in AllLinks, l[1] = "bkp", l[3] = c
      PROVE  l = BkpIW(to, from, l[4]) /\ l[4] \in Unit
  <2>1. l \in Into({"bkp"}, W(to, from))
    BY <1>1, <1>3 DEF Into
  <2>2. PICK u \in Unit : l = BkpIW(to, from, u)
    BY <2>1, IntoW
  <2> QED BY <2>2, LinkTable
<1>4. FlowAndMachine => \A l \in HandledKind("bkp", c) : l[1] = "bkp" /\ l[3] = c /\ l \in AllLinks
  BY <1>2, HandledFacts DEF HandledKind
<1> QED BY <1>2, <1>3, <1>4 DEF Came

\* so that one that is handled is new,
LEMMA DeltaNew ==
  ASSUME FlowAndMachine, NEW c \in WCores, NEW l, CoreHandles(c, l), l[1] = "bkp"
  PROVE  l[4] \notin Came("bkp", c)
<1>1. l \in AllLinks /\ l[3] = c /\ l \notin Flow!Handled(c)
  BY DEF CoreHandles
<1>2. ASSUME NEW m \in HandledKind("bkp", c), m[4] = l[4]
      PROVE  FALSE
  <2>1. m \in Flow!Handled(c) /\ m[1] = "bkp"
    BY DEF HandledKind
  <2>2. m \in AllLinks /\ m[3] = c
    BY <2>1, HandledFacts, RecFacts
  <2>3. m = BkpIW(c[2], c[3], m[4]) /\ l = BkpIW(c[2], c[3], l[4])
    BY <1>1, <2>1, <2>2, DeltasFrom
  <2> QED BY <1>1, <1>2, <2>1, <2>3
<1> QED BY <1>2 DEF Came

\* and all of them when the tick is over.
LEMMA AllDeltasCame ==
  ASSUME FlowAndMachine, NEW c \in WCores, c \in Behind, wc[c].phase = B
  PROVE  Came("bkp", c) = Unit
<1>1. PICK to \in Sub, from \in Sub : c = W(to, from)
  BY DEF WCores
<1>2. c \in Cores /\ Rec(c) = wc[c]
  BY <1>1, CoreFacts, RecFacts
<1>3. BackpropLinks \subseteq LinksOf(Place(Rec(c)))
  BY <1>2 DEF LinksOf, Place, F, B
<1>4. Flow!Handled(c) = {l \in LinksOf(Place(Rec(c))) : l[3] = c}
  BY <1>2, HandledFacts
<1>5. ASSUME NEW u \in Unit
      PROVE  u \in Came("bkp", c)
  <2> DEFINE l == BkpIW(to, from, u)
  <2>1. l \in BackpropLinks
    BY BackpropIntro
  <2>2. l[1] = "bkp" /\ l[3] = c /\ l[4] = u
    BY <1>1 DEF BkpIW, Link
  <2> HIDE DEF l
  <2>3. l \in HandledKind("bkp", c)
    BY <1>3, <1>4, <2>1, <2>2 DEF HandledKind
  <2> QED BY <2>2, <2>3 DEF Came
<1> QED BY <1>5, DeltasFrom

\* Adding other elements to the bag of a set gives the bag of the union.
LEMMA AddAll ==
  ASSUME NEW A, NEW X, X \cap A = {}
  PROVE  SetToBag(A) (+) SetToBag(X) = SetToBag(A \cup X) /\ DOMAIN SetToBag(A) = A
  BY DEF SetToBag, (+)

SameLinkDeltas(r, q) ==
  /\ q.w_output_history = r.w_output_history /\ q.w_link_deltas = r.w_link_deltas

\* LinkDeltasOK looks at the stamp, the history and the link deltas.
LEMMA LinkDeltasSame ==
  ASSUME NEW r, NEW q, NEW outputs, NEW deltas, LinkDeltasOK(r, outputs, deltas),
         SameLinkDeltas(r, q), Stamp(q) = Stamp(r)
  PROVE  LinkDeltasOK(q, outputs, deltas)
<1>1. /\ q.phase = r.phase /\ q.tick = r.tick /\ q.epoch = r.epoch /\ q.example_cnt = r.example_cnt
      /\ q.w_output_history = r.w_output_history /\ q.w_link_deltas = r.w_link_deltas
  BY DEF Stamp, SameLinkDeltas
<1>2. \A k : OutputOf(q, k) = OutputOf(r, k)
  BY <1>1 DEF OutputOf
<1>3. \A x, k : NotLater(x, k, q) <=> NotLater(x, k, r)
  BY <1>1 DEF NotLater
<1>4. \A x, k : Earlier(x, k, q) <=> Earlier(x, k, r)
  BY <1>2, <1>3 DEF Earlier
<1>5. \A last : WentTo(q, last) <=> WentTo(r, last)
  BY <1>1, <1>2, <1>4 DEF WentTo
<1>6. \A i, u, k : Product(q, i, u, k) = Product(r, i, u, k)
  BY <1>1, <1>2 DEF Product
<1>7. \A last : Added(q, deltas, last) = Added(r, deltas, last)
  BY <1>1, <1>6 DEF Added
<1> QED BY <1>1, <1>3, <1>4, <1>5, <1>7 DEF LinkDeltasOK

\* A new output is one of this example.
LEMMA HistoryTaken ==
  ASSUME NEW r, r.epoch \in 0 .. NumEpochs, r.example_cnt \in 0 .. NumExamples - 1,
         r.tick \in Tick, r.phase = F,
         DOMAIN r.w_output_history = 0 .. GlobalMaxTicks - 1,
         \A k \in 0 .. GlobalMaxTicks - 1 : DOMAIN r.w_output_history[k] = Unit,
         NEW outputs, NEW deltas, LinkDeltasOK(r, outputs, deltas), NEW u \in Unit, NEW q,
         q.w_output_history = [r.w_output_history EXCEPT ![r.tick][u] = Stamp(r)],
         q.w_link_deltas = r.w_link_deltas, Stamp(q) = Stamp(r)
  PROVE  LinkDeltasOK(q, outputs \cup {u}, deltas)
<1> DEFINE f == r.w_output_history
           g == q.w_output_history
           t == r.tick
           st == Stamp(r)
           D == DOMAIN r.w_link_deltas
<1>1. /\ q.phase = r.phase /\ q.tick = r.tick /\ q.epoch = r.epoch /\ q.example_cnt = r.example_cnt
      /\ F # B
  BY DEF Stamp, F, B
<1>2. \A x, k : NotLater(x, k, q) <=> NotLater(x, k, r)
  BY <1>1 DEF NotLater
<1>3. \A k : OutputOf(q, k) = OutputOf(r, k)
  BY <1>1 DEF OutputOf
<1>4. \A x, k : Earlier(x, k, q) <=> Earlier(x, k, r)
  BY <1>2, <1>3 DEF Earlier
<1>5. /\ DOMAIN f = 0 .. GlobalMaxTicks - 1 /\ \A k \in 0 .. GlobalMaxTicks - 1 : DOMAIN f[k] = Unit
      /\ t \in Tick /\ t \in Int
  BY StageAssumption DEF Tick, INIT_TICK
<1>6. /\ \A k \in Tick, i \in Unit : NotLater(f[k][i], k, r)
      /\ \A i \in Unit : i \notin outputs => Earlier(f[t][i], t, r)
      /\ \A i \in Unit : \A k \in From(t + 1) : Earlier(f[k][i], k, r)
      /\ {x \in D : x[4][2] = r.example_cnt} = {}
      /\ ~Training => D = {}
      /\ r.w_link_deltas = SetToBag(D)
      /\ \A x \in D : x[4][1] = r.epoch /\ x[4][2] \in 0 .. r.example_cnt
      /\ Training => \A n \in 0 .. r.example_cnt - 1 : \E x \in D : x[4][2] = n
  BY DEF LinkDeltasOK
<1>7. \A k \in Tick : k \in DOMAIN f
  BY <1>5, StageAssumption DEF Tick, INIT_TICK
<1>8. g = [f EXCEPT ![t][u] = st]
  OBVIOUS
<1>9. NotLater(st, t, r)
  <2>1. r.epoch \in Int /\ r.example_cnt \in Int
    OBVIOUS
  <2>2. st = <<r.epoch, r.example_cnt, F, t>>
    BY DEF Stamp
  <2> QED BY <2>1, <2>2 DEF NotLater
<1> HIDE DEF f, g, t, st
<1>10. /\ \A k \in DOMAIN f : k # t => g[k] = f[k]
       /\ \A i \in Unit : g[t][i] = IF i = u THEN st ELSE f[t][i]
  <2>1. t \in DOMAIN f /\ u \in DOMAIN f[t] /\ DOMAIN f[t] = Unit
    BY <1>5, <1>7
  <2> QED BY <1>8, <2>1, EntrySet
<1>11. \A k \in Tick, i \in Unit : NotLater(g[k][i], k, q)
  BY <1>2, <1>6, <1>7, <1>9, <1>10
<1>12. \A i \in Unit : i \notin outputs \cup {u} => Earlier(g[t][i], t, q)
  BY <1>4, <1>6, <1>10
<1>13. \A i \in Unit : \A k \in From(t + 1) : Earlier(g[k][i], k, q)
  <2>1. \A k \in From(t + 1) : k \in Tick /\ k # t
    BY <1>5, StageAssumption DEF From, Tick, INIT_TICK
  <2> QED BY <1>4, <1>6, <1>7, <1>10, <2>1
<1>14. q.w_link_deltas = r.w_link_deltas /\ g = q.w_output_history /\ t = q.tick
  BY <1>1 DEF g, t
<1> QED BY <1>1, <1>6, <1>11, <1>12, <1>13, <1>14 DEF LinkDeltasOK

ProductsOf(r, u) == {Product(r, i, u, r.tick) : i \in Unit}

\* A new delta gives one product for every weight.
LEMMA ProductsAdded ==
  ASSUME NEW r, r.tick \in Tick, r.phase = B, r.example_cnt \in 0 .. NumExamples - 1,
         NEW outputs, NEW deltas, LinkDeltasOK(r, outputs, deltas), NEW u, u \notin deltas, NEW q,
         q.w_link_deltas = r.w_link_deltas (+) SetToBag(ProductsOf(r, u)),
         q.w_output_history = r.w_output_history, Stamp(q) = Stamp(r)
  PROVE  LinkDeltasOK(q, outputs, deltas \cup {u})
<1> DEFINE D == DOMAIN r.w_link_deltas
           X == ProductsOf(r, u)
           E == DOMAIN q.w_link_deltas
<1>1. /\ q.phase = r.phase /\ q.tick = r.tick /\ q.epoch = r.epoch /\ q.example_cnt = r.example_cnt
      /\ F # B /\ r.tick \in Int /\ r.example_cnt \in Int
  BY StageAssumption DEF Stamp, F, B, Tick, INIT_TICK
<1>2. \A x, k : NotLater(x, k, q) <=> NotLater(x, k, r)
  BY <1>1 DEF NotLater
<1>3. \A k : OutputOf(q, k) = OutputOf(r, k)
  BY <1>1 DEF OutputOf
<1>4. \A x, k : Earlier(x, k, q) <=> Earlier(x, k, r)
  BY <1>2, <1>3 DEF Earlier
<1>5. \A last : WentTo(q, last) <=> WentTo(r, last)
  BY <1>1, <1>3, <1>4 DEF WentTo
<1>6. \A i, w, k : Product(q, i, w, k) = Product(r, i, w, k)
  BY <1>1, <1>3 DEF Product
<1>7. PICK last \in From(r.tick) :
        WentTo(r, last) /\ {x \in D : x[4][2] = r.example_cnt} = Added(r, deltas, last)
  BY DEF LinkDeltasOK
<1>8. /\ \A k \in Tick, i \in Unit : NotLater(r.w_output_history[k][i], k, r)
      /\ Training
      /\ r.w_link_deltas = SetToBag(D)
      /\ \A x \in D : x[4][1] = r.epoch /\ x[4][2] \in 0 .. r.example_cnt
      /\ \A n \in 0 .. r.example_cnt - 1 : \E x \in D : x[4][2] = n
  BY DEF LinkDeltasOK
<1>9. \A i, w, k : /\ Product(r, i, w, k)[2] = w
                   /\ Product(r, i, w, k)[4] = <<r.epoch, r.example_cnt, B, k>>
                   /\ Product(r, i, w, k)[4][1] = r.epoch
                   /\ Product(r, i, w, k)[4][2] = r.example_cnt
                   /\ Product(r, i, w, k)[4][4] = k
  BY DEF Product
<1>10. \A x \in X : /\ x[2] = u /\ x[4][1] = r.epoch /\ x[4][2] = r.example_cnt
                    /\ x[4][4] = r.tick
  BY <1>9 DEF ProductsOf
<1>11. X \cap D = {}
  <2> SUFFICES ASSUME NEW x \in X, x \in D
               PROVE  FALSE
    OBVIOUS
  <2>1. x \in Added(r, deltas, last)
    BY <1>7, <1>10
  <2>2. CASE \E i \in Unit, w \in Unit, k \in r.tick + 1 .. last : x = Product(r, i, w, k)
    <3>1. PICK k \in r.tick + 1 .. last : x[4][4] = k
      BY <1>9, <2>2
    <3>2. x[4][4] = r.tick
      BY <1>10
    <3> QED BY <1>1, <3>1, <3>2
  <2>3. CASE \E i \in Unit, w \in deltas : x = Product(r, i, w, r.tick)
    BY <1>9, <1>10, <2>3
  <2> QED BY <2>1, <2>2, <2>3 DEF Added
<1> HIDE DEF D, X
<1>12. q.w_link_deltas = SetToBag(D \cup X) /\ E = D \cup X
  <2>1. SetToBag(D) (+) SetToBag(X) = SetToBag(D \cup X)
    BY <1>11, AddAll
  <2>2. q.w_link_deltas = SetToBag(D \cup X)
    BY <1>8, <2>1 DEF X
  <2>3. DOMAIN SetToBag(D \cup X) = D \cup X
    BY DEF SetToBag
  <2> QED BY <2>2, <2>3
<1>13. {x \in E : x[4][2] = q.example_cnt} = Added(q, deltas \cup {u}, last)
  <2>1. Added(q, deltas \cup {u}, last) = Added(r, deltas, last) \cup X
    BY <1>1, <1>6 DEF Added, X, ProductsOf
  <2>2. {x \in E : x[4][2] = q.example_cnt} = {x \in D : x[4][2] = r.example_cnt} \cup X
    BY <1>1, <1>10, <1>12
  <2> QED BY <1>7, <2>1, <2>2
<1>14. \A x \in E : x[4][1] = q.epoch /\ x[4][2] \in 0 .. q.example_cnt
  <2>1. r.example_cnt \in 0 .. r.example_cnt
    BY <1>1
  <2> QED BY <1>1, <1>8, <1>10, <1>12, <2>1
<1>15. \A n \in 0 .. q.example_cnt - 1 : \E x \in E : x[4][2] = n
  BY <1>1, <1>8, <1>12
<1>16. \A k \in Tick, i \in Unit : NotLater(q.w_output_history[k][i], k, q)
  BY <1>2, <1>8
<1>17. last \in From(q.tick) /\ WentTo(q, last) /\ q.w_link_deltas = SetToBag(E)
  BY <1>1, <1>5, <1>7, <1>12
<1> QED BY <1>1, <1>8, <1>13, <1>14, <1>15, <1>16, <1>17 DEF LinkDeltasOK

\* When the phase ends, the link deltas hold all the products of the example.
LEMMA AllAdded ==
  ASSUME NEW r, r.tick \in Tick, r.phase = B, NEW outputs, LinkDeltasOK(r, outputs, Unit)
  PROVE  \E x \in DOMAIN r.w_link_deltas : x[4][2] = r.example_cnt
<1>1. PICK last \in From(r.tick) :
        {x \in DOMAIN r.w_link_deltas : x[4][2] = r.example_cnt} = Added(r, Unit, last)
  BY DEF LinkDeltasOK, F, B
<1>2. PICK u : u \in Unit
  <2>1. 0 \in Unit
    BY UnitFacts
  <2> QED BY <2>1
<1>3. Product(r, u, u, r.tick) \in Added(r, Unit, last)
  BY <1>2 DEF Added
<1> QED BY <1>1, <1>3

\* The advance keeps them: the next example has none, the phases of an example
\* share the history.
LEMMA LinkDeltasAdvance ==
  ASSUME NEW r, r.epoch \in 0 .. NumEpochs, r.example_cnt \in 0 .. NumExamples - 1, r.tick \in Tick,
         NEW b, Flow!MayLeave(Place(r), b), NEW outputs, NEW deltas,
         r.phase = F => Unit \subseteq outputs, r.phase = B => deltas = Unit,
         OutputsOK(r, outputs), LinkDeltasOK(r, outputs, deltas),
         NEW q, WAdvanced(r, b, q), Place(q) = Flow!NextPlace(Place(r), b)
  PROVE  LinkDeltasOK(q, {}, {})
<1> DEFINE n == Flow!NextPlace(Place(r), b)
           f == r.w_output_history
           D == DOMAIN r.w_link_deltas
           E == DOMAIN q.w_link_deltas
<1>1. /\ r.phase \in {F, B} /\ F # B /\ Training \in BOOLEAN /\ b \in BOOLEAN
      /\ r.tick \in INIT_TICK .. GlobalMaxTicks - 1 /\ r.tick \in Int
      /\ r.tick \in Tick /\ GlobalMaxTicks \in Int
      /\ r.epoch \in Int /\ r.example_cnt \in Nat
  BY NextPlaceOf, StageAssumption DEF F, B, INIT_TICK, Tick
<1>2. /\ Leaves(r, b) => n = ExampleAfter(r)
      /\ r.phase = B /\ r.tick # END_TICK => n = <<r.epoch, r.example_cnt, B, r.tick - 1, r.evt>>
      /\ r.phase = F /\ ~b => n = <<r.epoch, r.example_cnt, F, r.tick + 1, r.evt>>
      /\ r.phase = F /\ b /\ ~EndOfForward(r) =>
           n = <<r.epoch, r.example_cnt, F, r.tick + 1, r.evt + 1>>
      /\ r.phase = F /\ b /\ EndOfForward(r) /\ Training =>
           n = <<r.epoch, r.example_cnt, B, r.tick, r.evt + 1>>
  BY NextPlaceOf
<1>3. /\ q.epoch = n[1] /\ q.example_cnt = n[2] /\ q.phase = n[3] /\ q.tick = n[4]
  BY DEF Place
<1>4. n[4] \in Tick
  <2>1. n \in FlowPlaces
    BY MachineGraph, Flow!NextPlaceFacts, FlowPlacesFact
  <2> HIDE DEF n
  <2> QED BY <2>1 DEF FlowPlaces
<1>5. /\ \A k \in Tick, i \in Unit : NotLater(f[k][i], k, r)
      /\ r.phase = F =>
           /\ \A i \in Unit : \A k \in From(r.tick + 1) : Earlier(f[k][i], k, r)
           /\ {x \in D : x[4][2] = r.example_cnt} = {}
      /\ r.phase = B => \E last \in From(r.tick) :
           WentTo(r, last) /\ {x \in D : x[4][2] = r.example_cnt} = Added(r, deltas, last)
      /\ r.phase = B => Training
      /\ ~Training => D = {}
      /\ r.w_link_deltas = SetToBag(D)
      /\ \A x \in D : x[4][1] = r.epoch /\ x[4][2] \in 0 .. r.example_cnt
      /\ Training => \A m \in 0 .. r.example_cnt - 1 : \E x \in D : x[4][2] = m
  BY DEF LinkDeltasOK
<1>6. q.w_output_history = f
  BY DEF WAdvanced
<1>7. r.phase = B => \E x \in D : x[4][2] = r.example_cnt
  BY <1>1, AllAdded
<1>8. ~Leaves(r, b) => q.w_link_deltas = r.w_link_deltas
  BY DEF WAdvanced
<1>9. Leaves(r, b) => q.w_link_deltas = IF EndOfEpoch(r) /\ Training THEN EmptyBag ELSE r.w_link_deltas
  BY DEF WAdvanced
<1> HIDE DEF f, n, D
<1>10. CASE Leaves(r, b)
  <2>1. /\ q.phase = F /\ q.tick = INIT_TICK
        /\ q.epoch = ExampleAfter(r)[1] /\ q.example_cnt = ExampleAfter(r)[2]
    BY <1>2, <1>3, <1>10 DEF ExampleAfter
  <2>2. \A k \in Tick, i \in Unit : Earlier(f[k][i], k, q)
    BY <1>5, <2>1, OldOutputs
  <2>3. \A k \in Tick, i \in Unit : NotLater(f[k][i], k, q)
    BY <2>2 DEF Earlier
  <2>4. q.tick \in Tick /\ \A k \in From(q.tick + 1) : k \in Tick
    BY <1>1, <1>3, <1>4, <2>1 DEF From, Tick, INIT_TICK
  <2>5. CASE EndOfEpoch(r)
    <3>1. E = {} /\ q.w_link_deltas = SetToBag(E)
      <4>1. CASE Training
        BY <1>9, <1>10, <2>5, <4>1 DEF EmptyBag, SetToBag
      <4>2. CASE ~Training
        BY <1>5, <1>9, <1>10, <4>2 DEF D
      <4> QED BY <4>1, <4>2
    <3>2. q.example_cnt = 0
      BY <2>1, <2>5 DEF ExampleAfter
    <3>3. \A m \in 0 .. q.example_cnt - 1 : FALSE
      BY <3>2
    <3> HIDE DEF E
    <3> QED BY <1>1, <1>6, <2>1, <2>2, <2>3, <2>4, <3>1, <3>3 DEF LinkDeltasOK, E
  <2>6. CASE ~EndOfEpoch(r)
    <3>1. /\ q.w_link_deltas = r.w_link_deltas /\ E = D
          /\ q.epoch = r.epoch /\ q.example_cnt = r.example_cnt + 1
      BY <1>9, <1>10, <2>1, <2>6 DEF ExampleAfter, D
    <3>2. \A x \in E : x[4][1] = q.epoch /\ x[4][2] \in 0 .. q.example_cnt /\ x[4][2] # q.example_cnt
      BY <1>1, <1>5, <3>1
    <3>3. Training => \A m \in 0 .. q.example_cnt - 1 : \E x \in E : x[4][2] = m
      <4>1. SUFFICES ASSUME Training, NEW m \in 0 .. q.example_cnt - 1
                     PROVE  \E x \in D : x[4][2] = m
        BY <3>1
      <4>2. r.phase = B
        BY <1>1, <1>10, <4>1 DEF Leaves
      <4>3. m \in 0 .. r.example_cnt - 1 \/ m = r.example_cnt
        BY <1>1, <3>1, <4>1
      <4> QED BY <1>5, <1>7, <4>1, <4>2, <4>3
    <3>4. ~Training => E = {}
      BY <1>5, <3>1
    <3>5. q.w_link_deltas = SetToBag(E)
      BY <1>5, <3>1
    <3> HIDE DEF E
    <3> QED BY <1>1, <1>6, <2>1, <2>2, <2>3, <2>4, <3>2, <3>3, <3>4, <3>5 DEF LinkDeltasOK, E
  <2> QED BY <2>5, <2>6
<1>11. ASSUME ~Leaves(r, b)
       PROVE  /\ q.epoch = r.epoch /\ q.example_cnt = r.example_cnt
              /\ \A x, k : NotLater(x, k, q) <=> NotLater(x, k, r)
              /\ \A k : OutputOf(q, k) = OutputOf(r, k)
              /\ \A x, k : Earlier(x, k, q) <=> Earlier(x, k, r)
              /\ \A last : WentTo(q, last) <=> WentTo(r, last)
              /\ \A i, u, k : Product(q, i, u, k) = Product(r, i, u, k)
              /\ q.phase = F => r.phase = F /\ q.tick = r.tick + 1
              /\ q.phase = B => /\ q.tick = IF r.phase = F THEN r.tick ELSE r.tick - 1
                                /\ Training
              /\ q.phase \in {F, B}
              /\ \A k \in Tick, i \in Unit : NotLater(f[k][i], k, q)
              /\ E = D
              /\ ~Training => E = {}
              /\ q.w_link_deltas = SetToBag(E)
              /\ \A x \in E : x[4][1] = q.epoch /\ x[4][2] \in 0 .. q.example_cnt
              /\ Training => \A m \in 0 .. q.example_cnt - 1 : \E x \in E : x[4][2] = m
  <2>1. /\ q.epoch = r.epoch /\ q.example_cnt = r.example_cnt
        /\ q.phase = F => r.phase = F /\ q.tick = r.tick + 1
        /\ q.phase = B => /\ q.tick = IF r.phase = F THEN r.tick ELSE r.tick - 1
                          /\ Training
        /\ q.phase \in {F, B}
    <3>1. CASE r.phase = B
      BY <1>1, <1>2, <1>3, <1>5, <1>11, <3>1 DEF Leaves
    <3>2. CASE r.phase = F /\ ~b
      BY <1>1, <1>2, <1>3, <3>2
    <3>3. CASE r.phase = F /\ b /\ ~EndOfForward(r)
      BY <1>1, <1>2, <1>3, <3>3
    <3>4. CASE r.phase = F /\ b /\ EndOfForward(r) /\ Training
      BY <1>1, <1>2, <1>3, <3>4
    <3> QED BY <1>1, <1>11, <3>1, <3>2, <3>3, <3>4 DEF Leaves
  <2>2. \A x, k : NotLater(x, k, q) <=> NotLater(x, k, r)
    BY <2>1 DEF NotLater
  <2>3. \A k : OutputOf(q, k) = OutputOf(r, k)
    BY <2>1 DEF OutputOf
  <2>4. \A x, k : Earlier(x, k, q) <=> Earlier(x, k, r)
    BY <2>2, <2>3 DEF Earlier
  <2>5. \A last : WentTo(q, last) <=> WentTo(r, last)
    BY <1>6, <2>3, <2>4 DEF WentTo, f
  <2>6. \A i, u, k : Product(q, i, u, k) = Product(r, i, u, k)
    BY <2>1, <2>3 DEF Product
  <2>7. E = D /\ q.w_link_deltas = r.w_link_deltas
    BY <1>8, <1>11 DEF D
  <2> HIDE DEF E
  <2> QED BY <1>5, <2>1, <2>2, <2>3, <2>4, <2>5, <2>6, <2>7
<1> HIDE DEF E
<1>12. CASE ~Leaves(r, b) /\ q.phase = F
  <2>1. /\ r.phase = F /\ q.tick = r.tick + 1 /\ E = D /\ q.example_cnt = r.example_cnt
        /\ \A x, k : Earlier(x, k, q) <=> Earlier(x, k, r)
    BY <1>11, <1>12
  <2>2. q.tick \in From(r.tick + 1) /\ \A k \in From(q.tick + 1) : k \in From(r.tick + 1)
    BY <1>1, <1>3, <1>4, <2>1 DEF From, Tick, INIT_TICK
  <2>3. \A i \in Unit : /\ Earlier(f[q.tick][i], q.tick, q)
                        /\ \A k \in From(q.tick + 1) : Earlier(f[k][i], k, q)
    BY <1>5, <2>1, <2>2
  <2>4. {x \in E : x[4][2] = q.example_cnt} = {}
    BY <1>5, <2>1
  <2> QED BY <1>1, <1>6, <1>11, <1>12, <2>3, <2>4 DEF LinkDeltasOK, E
<1>13. CASE ~Leaves(r, b) /\ q.phase = B /\ r.phase = F
  <2>1. /\ q.tick = r.tick /\ q.example_cnt = r.example_cnt /\ E = D
        /\ \A k : OutputOf(q, k) = OutputOf(r, k)
        /\ \A last : WentTo(q, last) <=> WentTo(r, last)
    BY <1>1, <1>11, <1>13
  <2>2. WentTo(r, r.tick)
    <3>1. \A i \in Unit : /\ \A k \in INIT_TICK .. r.tick - 1 : f[k][i] = OutputOf(r, k)
                          /\ f[r.tick][i] = Stamp(r)
      BY <1>1, <1>13 DEF OutputsOK, f
    <3>2. OutputOf(r, r.tick) = Stamp(r)
      BY <1>13 DEF OutputOf, Stamp
    <3>3. \A k \in INIT_TICK .. r.tick : k \in INIT_TICK .. r.tick - 1 \/ k = r.tick
      BY <1>1 DEF INIT_TICK
    <3>4. \A i \in Unit : /\ \A k \in INIT_TICK .. r.tick : f[k][i] = OutputOf(r, k)
                          /\ \A k \in From(r.tick + 1) : Earlier(f[k][i], k, r)
      BY <1>5, <1>13, <3>1, <3>2, <3>3
    <3> QED BY <3>4 DEF WentTo, f
  <2>3. Added(q, {}, q.tick) = {}
    <3>1. \A k \in q.tick + 1 .. q.tick : FALSE
      BY <1>1, <2>1
    <3> QED BY <3>1 DEF Added
  <2>4. {x \in E : x[4][2] = q.example_cnt} = Added(q, {}, q.tick)
    BY <1>5, <1>13, <2>1, <2>3
  <2>5. q.tick \in From(q.tick) /\ WentTo(q, q.tick)
    BY <1>1, <2>1, <2>2 DEF From, Tick, INIT_TICK
  <2> QED BY <1>1, <1>6, <1>11, <1>13, <2>4, <2>5 DEF LinkDeltasOK, E
<1>14. CASE ~Leaves(r, b) /\ q.phase = B /\ r.phase = B
  <2>1. /\ q.tick = r.tick - 1 /\ q.example_cnt = r.example_cnt /\ E = D
        /\ \A last : WentTo(q, last) <=> WentTo(r, last)
        /\ \A i, u, k : Product(q, i, u, k) = Product(r, i, u, k)
    BY <1>1, <1>11, <1>14
  <2>2. PICK last \in From(r.tick) :
          WentTo(r, last) /\ {x \in D : x[4][2] = r.example_cnt} = Added(r, Unit, last)
    BY <1>5, <1>14
  <2>3. last \in Int /\ r.tick <= last /\ last \in From(q.tick)
    BY <1>1, <2>1, <2>2 DEF From
  <2>4. Added(q, {}, last) = Added(r, Unit, last)
    <3>1. \A k : k \in q.tick + 1 .. last <=> k \in r.tick + 1 .. last \/ k = r.tick
      BY <1>1, <2>1, <2>3
    <3> QED BY <2>1, <3>1 DEF Added
  <2>5. WentTo(q, last) /\ {x \in E : x[4][2] = q.example_cnt} = Added(q, {}, last)
    BY <2>1, <2>2, <2>4
  <2> QED BY <1>1, <1>6, <1>11, <1>14, <2>3, <2>5 DEF LinkDeltasOK, E
<1> QED BY <1>1, <1>10, <1>11, <1>12, <1>13, <1>14

GradientOK(c) == LinkDeltasOK(wc[c], Came("fwd", c), Came("bkp", c))

\* A step that takes neither outputs nor deltas leaves them right.
LEMMA LinkDeltasKept ==
  ASSUME FlowAndMachine, FlowAndMachine', [Flow!Next]_(Flow!vars), NEW c \in WCores, NEW p,
         p.kind \notin {"fwd", "bkp"}, \A q \in net : q.dst = c => q = p \/ q \in net',
         SameLinkDeltas(wc[c], wc'[c]), Stamp(wc'[c]) = Stamp(wc[c]), GradientOK(c)
  PROVE  GradientOK(c)'
<1>1. c \in Cores /\ Rec(c) = wc[c] /\ Rec(c)' = wc'[c]
  BY RecFacts
<1>2. CoreStays(c) \/ CoreHandles(c, LinkOf(p))
  BY <1>1, CoreBy
<1>3. LinkOf(p)[1] = p.kind
  BY LinkApart DEF LinkOf
<1>4. Came("fwd", c)' = Came("fwd", c) /\ Came("bkp", c)' = Came("bkp", c)
  BY <1>2, <1>3, CameKept
<1> QED BY <1>4, LinkDeltasSame DEF GradientOK

\* wf_process, the total of the link deltas and the network stop packet
LEMMA LinkDeltasUntouched ==
  ASSUME FlowAndMachine, FlowAndMachine', [Flow!Next]_(Flow!vars), NEW c \in WCores,
         GradientOK(c),
         \/ WLeft(c) \/ WProcess(c)
         \/ \E p \in net : WTakes(c, p) /\ (WLdsa(p) \/ WNetStop(p))
  PROVE  GradientOK(c)'
<1> DEFINE r == wc[c]
           q == wc'[c]
           Same == SameLinkDeltas(r, q) /\ Stamp(q) = Stamp(r)
<1>1. WShape(r) /\ DOMAIN wc = WCores
  BY DEF FlowAndMachine, MachineInv, ShapeOK
<1>2. DOMAIN r = WFields
  BY <1>1 DEF WShape, WFields
<1>3. ASSUME NEW v, DOMAIN v = WFields, NEW w, NEW X, Frame(v, w, X),
             X \subseteq {"wf_pending", "w_lds_final", "net_stop", "net_stop_rdy", "epoch_rdy", "done"}
      PROVE  SameLinkDeltas(v, w) /\ Stamp(w) = Stamp(v) /\ DOMAIN w = WFields
  BY <1>3 DEF Frame, WFields, StartFields, SameLinkDeltas, Stamp
<1>4. PICK none : none.kind \notin {"fwd", "bkp"}
  <2>1. [kind |-> "stpn"].kind \notin {"fwd", "bkp"}
    OBVIOUS
  <2> QED BY <2>1
<1>5. CASE WLeft(c)
  <2>1. r = q /\ \A p \in net : p.dst = c => p \in net'
    BY <1>5 DEF WLeft
  <2>2. Same
    BY <2>1 DEF SameLinkDeltas
  <2> QED BY <1>4, <2>1, <2>2, LinkDeltasKept
<1>6. CASE WProcess(c)
  <2>1. q = [r EXCEPT !.wf_pending = FALSE] /\ net \subseteq net'
    BY <1>1, <1>6 DEF WProcess
  <2>2. Frame(r, q, {"wf_pending"})
    BY <1>2, <2>1 DEF Frame, WFields, StartFields
  <2>3. Same
    BY <1>2, <1>3, <2>2
  <2> QED BY <1>4, <2>1, <2>3, LinkDeltasKept
<1>7. ASSUME NEW p \in net, WTakes(c, p), WLdsa(p) \/ WNetStop(p)
      PROVE  GradientOK(c)'
  <2>1. p.dst = c /\ \A x \in net : x.dst = c => x = p \/ x \in net'
    BY <1>7 DEF WTakes
  <2>2. p.kind \notin {"fwd", "bkp"}
    BY <1>7 DEF WLdsa, WNetStop
  <2>3. CASE WLdsa(p)
    <3>1. q = [r EXCEPT !.w_lds_final = p.st]
      BY <1>1, <2>1, <2>3 DEF WLdsa
    <3>2. Frame(r, q, {"w_lds_final"})
      BY <1>2, <3>1 DEF Frame, WFields, StartFields
    <3> QED BY <1>2, <1>3, <2>1, <2>2, <3>2, LinkDeltasKept
  <2>4. CASE WNetStop(p)
    <3>1. PICK x : x = [r EXCEPT !.net_stop = p.b]
      OBVIOUS
    <3>2. q = IF x.epoch_rdy THEN WGoOn([x EXCEPT !.epoch_rdy = FALSE])
                             ELSE [x EXCEPT !.net_stop_rdy = TRUE]
      BY <1>1, <2>1, <2>4, <3>1 DEF WNetStop
    <3>3. SameLinkDeltas(r, x) /\ Stamp(x) = Stamp(r) /\ DOMAIN x = WFields
      <4>1. Frame(r, x, {"net_stop"})
        BY <1>2, <3>1 DEF Frame, WFields, StartFields
      <4> QED BY <1>2, <1>3, <4>1
    <3>4. SameLinkDeltas(x, q) /\ Stamp(q) = Stamp(x)
      <4>1. CASE x.epoch_rdy
        <5>1. PICK y : y = [x EXCEPT !.epoch_rdy = FALSE]
          OBVIOUS
        <5>2. Frame(x, y, {"epoch_rdy"})
          BY <3>3, <5>1 DEF Frame, WFields, StartFields
        <5>3. SameLinkDeltas(x, y) /\ Stamp(y) = Stamp(x) /\ DOMAIN y = WFields
          BY <1>3, <3>3, <5>2
        <5>4. Frame(y, q, WGoFields)
          BY <3>2, <4>1, <5>1, <5>3, WGoOnFacts
        <5>5. SameLinkDeltas(y, q) /\ Stamp(q) = Stamp(y)
          BY <1>3, <5>3, <5>4 DEF WGoFields
        <5> QED BY <5>3, <5>5 DEF SameLinkDeltas
      <4>2. CASE ~x.epoch_rdy
        <5>1. Frame(x, q, {"net_stop_rdy"})
          BY <3>2, <3>3, <4>2 DEF Frame, WFields, StartFields
        <5> QED BY <1>3, <3>3, <5>1
      <4> QED BY <4>1, <4>2
    <3>5. Same
      BY <3>3, <3>4 DEF SameLinkDeltas
    <3> QED BY <2>1, <2>2, <3>5, LinkDeltasKept
  <2> QED BY <1>7, <2>3, <2>4
<1> QED BY <1>5, <1>6, <1>7

\* w_forward_packet
LEMMA LinkDeltasForward ==
  ASSUME AllTimely, FlowAndMachine, FlowAndMachine', [Flow!Next]_(Flow!vars), NEW c \in WCores,
         OutputsInv, GradientOK(c), NEW p \in net, WTakes(c, p), WForward(p)
  PROVE  GradientOK(c)'
<1> DEFINE r == wc[c]
           q == wc'[c]
           x == [r EXCEPT !.w_outputs[wf_comms(r)][p.u] = p.st,
                          !.w_output_history[r.tick][p.u] = p.st,
                          !.wf_arrived = @ + 1]
<1>1. /\ DOMAIN r = WFields /\ DOMAIN wc = WCores /\ p.dst = c /\ p.kind = "fwd"
      /\ net \ {p} \subseteq net' /\ InTime(r, p)
  BY DEF FlowAndMachine, MachineInv, ShapeOK, WTakes, WForward, WShape, WFields
<1>2. q = x
  <2>1. wc' = [wc EXCEPT ![c] = x]
    BY <1>1 DEF WForward
  <2> QED BY <1>1, <2>1
<1>3. /\ q.w_output_history = [r.w_output_history EXCEPT ![r.tick][p.u] = p.st]
      /\ q.w_link_deltas = r.w_link_deltas /\ q.wf_arrived = r.wf_arrived + 1
      /\ Stamp(q) = Stamp(r) /\ Place(q) = Place(r)
  BY <1>1, <1>2 DEF WFields, StartFields, Stamp, Place
<1> HIDE DEF x
<1>4. CoreHandles(c, LinkOf(p)) /\ p.u \in Unit /\ p.st = Stamp(r) /\ r.phase = F
  <2>1. p.kind # "bkp"
    BY <1>1
  <2> QED BY <1>1, <1>3, <2>1, WTaken
<1>5. LinkOf(p)[1] = "fwd" /\ LinkOf(p)[4] = p.u
  BY <1>1, LinkApart DEF LinkOf
<1>6. Came("fwd", c)' = Came("fwd", c) \cup {p.u} /\ Came("bkp", c)' = Came("bkp", c)
  <2>1. Came(LinkOf(p)[1], c)' = Came(LinkOf(p)[1], c) \cup {LinkOf(p)[4]}
    BY <1>4, CameOne
  <2>2. Came("bkp", c)' = Came("bkp", c)
    BY <1>4, <1>5, CameKept
  <2> QED BY <1>5, <2>1, <2>2
<1>7. /\ DOMAIN r.w_output_history = 0 .. GlobalMaxTicks - 1
      /\ \A k \in 0 .. GlobalMaxTicks - 1 : DOMAIN r.w_output_history[k] = Unit
  BY DEF OutputsInv, OutputsOK
<1>8. LinkDeltasOK(r, Came("fwd", c), Came("bkp", c))
  BY DEF GradientOK
<1>9. /\ r.epoch \in 0 .. NumEpochs /\ r.example_cnt \in 0 .. NumExamples - 1 /\ r.tick \in Tick
  BY WInPlace
<1> HIDE DEF r, q
<1>10. LinkDeltasOK(q, Came("fwd", c) \cup {p.u}, Came("bkp", c))
  BY <1>3, <1>4, <1>7, <1>8, <1>9, HistoryTaken
<1>11. LinkDeltasOK(q, Came("fwd", c)', Came("bkp", c)')
  BY <1>6, <1>10
<1> QED BY <1>11 DEF GradientOK, q

\* wb_process
LEMMA LinkDeltasBackprop ==
  ASSUME AllTimely, FlowAndMachine, FlowAndMachine', [Flow!Next]_(Flow!vars), NEW c \in WCores,
         OutputsInv, GradientOK(c), NEW p \in net, WTakes(c, p), WBackprop(p)
  PROVE  GradientOK(c)'
<1> DEFINE r == wc[c]
           q == wc'[c]
           X == {<<i, p.u, r.w_outputs[0][i], p.st>> : i \in Unit}
           y == r.w_link_deltas (+) SetToBag(X)
           z == r.w_errors (+) SetToBag({<<p.u, p.st>>})
           x == [wc[p.dst] EXCEPT
                  !.wb_arrived = @ + 1,
                  !.w_link_deltas = @ (+)
                    SetToBag({<<i, p.u, wc[p.dst].w_outputs[0][i], p.st>> : i \in Unit}),
                  !.w_errors = @ (+) SetToBag({<<p.u, p.st>>})]
<1>1. /\ DOMAIN r = WFields /\ DOMAIN wc = WCores /\ p.dst = c /\ p.kind = "bkp"
      /\ net \ {p} \subseteq net' /\ r.phase = B
      /\ r.phase = p.st[3] => InTime(r, p)
  BY DEF FlowAndMachine, MachineInv, ShapeOK, WTakes, WBackprop, WShape, WFields
<1>2. q = [r EXCEPT !.wb_arrived = @ + 1, !.w_link_deltas = y, !.w_errors = z]
  <2>1. wc' = [wc EXCEPT ![p.dst] = x]
    BY DEF WBackprop
  <2>2. x = [r EXCEPT !.wb_arrived = @ + 1, !.w_link_deltas = y, !.w_errors = z]
    BY <1>1 DEF WFields, StartFields
  <2> HIDE DEF x, y, z
  <2> QED BY <1>1, <2>1, <2>2
<1> HIDE DEF x, y, z, X
<1>3. /\ q.w_output_history = r.w_output_history
      /\ q.w_link_deltas = y /\ q.wb_arrived = r.wb_arrived + 1
      /\ Stamp(q) = Stamp(r) /\ Place(q) = Place(r)
  BY <1>1, <1>2 DEF WFields, StartFields, Stamp, Place
<1>4. InTime(r, p)
  <2>1. Awaits(p)
    BY <1>1 DEF Awaits
  <2>2. LinkOf(p) \in Sent /\ p.st = CurStamp
    BY <2>1 DEF FlowAndMachine, MachineInv, NetOK, PacketOK
  <2>3. LinkOf(p)[1] = "bkp" /\ LinkOf(p) \in LinksOf(cur)
    BY <1>1, <2>2, LinkApart, FlowFacts DEF LinkOf, FlowAndMachine
  <2>4. p.st[3] = B
    BY <2>2, <2>3, PhaseFacts DEF CurStamp, cur
  <2> QED BY <1>1, <2>4
<1>5. CoreHandles(c, LinkOf(p)) /\ p.u \in Unit /\ p.st = Stamp(r)
  <2>1. p.kind # "fwd"
    BY <1>1
  <2> QED BY <1>1, <1>3, <1>4, <2>1, WTaken
<1>6. LinkOf(p)[1] = "bkp" /\ LinkOf(p)[4] = p.u
  BY <1>1, LinkApart DEF LinkOf
<1>7. /\ Came("bkp", c)' = Came("bkp", c) \cup {p.u} /\ Came("fwd", c)' = Came("fwd", c)
      /\ p.u \notin Came("bkp", c)
  <2>1. Came(LinkOf(p)[1], c)' = Came(LinkOf(p)[1], c) \cup {LinkOf(p)[4]}
    BY <1>5, CameOne
  <2>2. Came("fwd", c)' = Came("fwd", c)
    BY <1>5, <1>6, CameKept
  <2>3. p.u \notin Came("bkp", c)
    BY <1>5, <1>6, DeltaNew
  <2> QED BY <1>6, <2>1, <2>2, <2>3
<1>8. X = ProductsOf(r, p.u)
  <2>1. \A i \in Unit : r.w_outputs[0][i] = IF r.tick = INIT_TICK THEN Zero ELSE TickBefore(Stamp(r))
    BY <1>1 DEF OutputsInv, OutputsOK
  <2>2. r.tick # INIT_TICK => TickBefore(Stamp(r)) = OutputOf(r, r.tick - 1)
    BY DEF TickBefore, Stamp, OutputOf
  <2>3. Stamp(r) = <<r.epoch, r.example_cnt, B, r.tick>>
    BY <1>1 DEF Stamp
  <2>4. \A i \in Unit : <<i, p.u, r.w_outputs[0][i], p.st>> = Product(r, i, p.u, r.tick)
    BY <1>5, <2>1, <2>2, <2>3 DEF Product
  <2> QED BY <2>4 DEF X, ProductsOf
<1>9. LinkDeltasOK(r, Came("fwd", c), Came("bkp", c))
  BY DEF GradientOK
<1>10. r.example_cnt \in 0 .. NumExamples - 1 /\ r.tick \in Tick
  BY WInPlace
<1>11. q.w_link_deltas = r.w_link_deltas (+) SetToBag(ProductsOf(r, p.u))
  BY <1>3, <1>8 DEF y
<1> HIDE DEF r, q
<1>12. LinkDeltasOK(q, Came("fwd", c), Came("bkp", c) \cup {p.u})
  BY <1>1, <1>3, <1>7, <1>9, <1>10, <1>11, ProductsAdded DEF r
<1>13. LinkDeltasOK(q, Came("fwd", c)', Came("bkp", c)')
  BY <1>7, <1>12
<1> QED BY <1>13 DEF GradientOK, q

\* wf_advance_tick, wb_advance_tick
LEMMA LinkDeltasGo ==
  ASSUME FlowAndMachine, [Flow!Next]_(Flow!vars), NEW c \in WCores, OutputsInv, GradientOK(c),
         NEW p \in net, WTakes(c, p), WStop(p) \/ WSync(p)
  PROVE  GradientOK(c)'
<1>1. WGoes(c)
  BY WAdvances
<1>2. wc[c].phase = F => Unit \subseteq Came("fwd", c)
  BY <1>1, AllCame DEF WGoes
<1>3. wc[c].phase = B => Came("bkp", c) = Unit
  BY <1>1, AllDeltasCame DEF WGoes
<1>4. OutputsOK(wc[c], Came("fwd", c)) /\ LinkDeltasOK(wc[c], Came("fwd", c), Came("bkp", c))
  BY DEF OutputsInv, GradientOK
<1>5. LinkDeltasOK(wc'[c], {}, {})
  BY <1>1, <1>2, <1>3, <1>4, WInPlace, LinkDeltasAdvance DEF WGoes
<1>6. Came("fwd", c)' = {} /\ Came("bkp", c)' = {}
  <2>1. NoneCame'
    BY NoneCameFact, PTL
  <2> QED BY <1>1, <2>1 DEF NoneCame, WGoes
<1> QED BY <1>5, <1>6 DEF GradientOK

\* Every step, for the link deltas of all weight cores.
LEMMA LinkDeltasStep ==
  ASSUME AllTimely, LongPhases, FlowAndMachine, OutputsInv, LinkDeltasInv, [Next]_vars
  PROVE  LinkDeltasInv'
<1>1. FlowAndMachine' /\ [Flow!Next]_(Flow!vars)
  BY StepFlow
<1>2. DOMAIN wc = WCores
  BY DEF FlowAndMachine, MachineInv, ShapeOK
<1>3. ASSUME NEW c \in WCores
      PROVE  GradientOK(c)'
  <2>1. GradientOK(c)
    BY DEF LinkDeltasInv, GradientOK
  <2>2. CASE WLeft(c) \/ WProcess(c)
    BY <1>1, <2>1, <2>2, LinkDeltasUntouched
  <2>3. ASSUME NEW p \in net, WTakes(c, p)
        PROVE  GradientOK(c)'
    <3>1. CASE WForward(p)
      BY <1>1, <2>1, <2>3, <3>1, LinkDeltasForward
    <3>2. CASE WBackprop(p)
      BY <1>1, <2>1, <2>3, <3>2, LinkDeltasBackprop
    <3>3. CASE WStop(p) \/ WSync(p)
      BY <1>1, <2>1, <2>3, <3>3, LinkDeltasGo
    <3>4. CASE WLdsa(p) \/ WNetStop(p)
      BY <1>1, <2>1, <2>3, <3>4, LinkDeltasUntouched
    <3> QED BY <2>3, <3>1, <3>2, <3>3, <3>4 DEF WTakes, WPacket
  <2> QED BY <1>2, <2>2, <2>3, WSteps
<1> QED BY <1>3 DEF LinkDeltasInv, GradientOK

\* In the first tick the history is empty, and so are the link deltas.
LEMMA InitLinkDeltas == Init => LinkDeltasInv
<1> SUFFICES ASSUME Init, NEW c \in WCores
             PROVE  LinkDeltasOK(wc[c], Came("fwd", c), Came("bkp", c))
  BY DEF LinkDeltasInv
<1>0. PICK r : r = wc[c]
  OBVIOUS
<1>1. r.phase = F /\ r.tick = INIT_TICK /\ r.example_cnt = 0 /\ F # B
  <2>1. WInit
    BY DEF Init
  <2>2. Place(r) = Flow!First
    BY <1>0, <2>1, WStarts
  <2> QED BY <2>2 DEF Place, Flow!First, F, B, INIT_TICK
<1>2. /\ r.w_output_history = [k \in 0 .. GlobalMaxTicks - 1 |-> [i \in Unit |-> Zero]]
      /\ r.w_link_deltas = EmptyBag
  <2>1. r = WInitRecord
    BY <1>0 DEF Init, WInit
  <2>2. DOMAIN Start = StartFields
    BY DEF Start, StartFields
  <2> QED BY <2>1, <2>2 DEF WInitRecord, Starting, StartFields
<1>3. \A k : Earlier(Zero, k, r) /\ NotLater(Zero, k, r)
  BY DEF Earlier, NotLater, Zero, OutputOf
<1>4. \A k \in Tick, i \in Unit : r.w_output_history[k][i] = Zero
  <2>1. \A k \in Tick : k \in 0 .. GlobalMaxTicks - 1
    BY StageAssumption DEF Tick, INIT_TICK
  <2> QED BY <1>2, <2>1
<1>5. r.tick \in Tick /\ \A k \in From(r.tick + 1) : k \in Tick
  BY <1>1, StageAssumption DEF From, Tick, INIT_TICK
<1>6. DOMAIN r.w_link_deltas = {} /\ r.w_link_deltas = SetToBag({})
  BY <1>2 DEF EmptyBag, SetToBag
<1>7. \A n \in 0 .. r.example_cnt - 1 : FALSE
  BY <1>1
<1>8. \A k \in Tick, i \in Unit : Earlier(r.w_output_history[k][i], k, r)
                                  /\ NotLater(r.w_output_history[k][i], k, r)
  BY <1>3, <1>4
<1>9. \A outputs, deltas : LinkDeltasOK(r, outputs, deltas)
  BY <1>1, <1>5, <1>6, <1>7, <1>8 DEF LinkDeltasOK
<1> QED BY <1>0, <1>9

\* A weight core ends its BACKPROP phase with the advance out of the last tick,
\* when all deltas have come.
LEMMA ExampleEnds ==
  ASSUME FlowAndMachine, [Next]_vars, [Flow!Next]_(Flow!vars), NEW c \in WCores, ExampleOver(c)
  PROVE  wc[c].phase = B /\ wc[c].tick = END_TICK /\ Came("bkp", c) = Unit
<1> DEFINE r == wc[c]
           q == wc'[c]
<1>1. /\ DOMAIN r = WFields /\ DOMAIN wc = WCores /\ r.phase = B /\ q.phase = F /\ F # B
  BY DEF FlowAndMachine, MachineInv, ShapeOK, WShape, WFields, ExampleOver, F, B
<1>2. ASSUME WLeft(c) \/ WProcess(c)
      PROVE  FALSE
  <2>1. CASE WLeft(c)
    BY <1>1, <2>1 DEF WLeft
  <2>2. CASE WProcess(c)
    <3>1. q = [r EXCEPT !.wf_pending = FALSE]
      BY <1>1, <2>2 DEF WProcess
    <3>2. q.phase = r.phase
      BY <1>1, <3>1 DEF WFields, StartFields
    <3> QED BY <1>1, <3>2
  <2> QED BY <1>2, <2>1, <2>2
<1>3. ASSUME NEW p \in net, WTakes(c, p), WForward(p) \/ WBackprop(p) \/ WLdsa(p) \/ WNetStop(p)
      PROVE  FALSE
  <2>0. p.dst = c
    BY <1>3 DEF WTakes
  <2>1. CASE WForward(p)
    <3> DEFINE x == [r EXCEPT !.w_outputs[wf_comms(r)][p.u] = p.st,
                              !.w_output_history[r.tick][p.u] = p.st,
                              !.wf_arrived = @ + 1]
    <3>1. wc' = [wc EXCEPT ![c] = x]
      BY <2>0, <2>1 DEF WForward
    <3>2. x.phase = r.phase
      BY <1>1 DEF WFields, StartFields
    <3> HIDE DEF x
    <3> QED BY <1>1, <3>1, <3>2
  <2>2. CASE WBackprop(p)
    <3> DEFINE x == [wc[p.dst] EXCEPT
                      !.wb_arrived = @ + 1,
                      !.w_link_deltas = @ (+)
                        SetToBag({<<i, p.u, wc[p.dst].w_outputs[0][i], p.st>> : i \in Unit}),
                      !.w_errors = @ (+) SetToBag({<<p.u, p.st>>})]
    <3>1. wc' = [wc EXCEPT ![p.dst] = x]
      BY <2>2 DEF WBackprop
    <3>2. x.phase = r.phase
      BY <1>1, <2>0 DEF WFields, StartFields
    <3> HIDE DEF x
    <3> QED BY <1>1, <2>0, <3>1, <3>2
  <2>3. CASE WLdsa(p)
    <3>1. q = [r EXCEPT !.w_lds_final = p.st]
      BY <1>1, <2>0, <2>3 DEF WLdsa
    <3>2. q.phase = r.phase
      BY <1>1, <3>1 DEF WFields, StartFields
    <3> QED BY <1>1, <3>2
  <2>4. CASE WNetStop(p)
    <3>1. PICK x : x = [r EXCEPT !.net_stop = p.b]
      OBVIOUS
    <3>2. q = IF x.epoch_rdy THEN WGoOn([x EXCEPT !.epoch_rdy = FALSE])
                             ELSE [x EXCEPT !.net_stop_rdy = TRUE]
      BY <1>1, <2>0, <2>4, <3>1 DEF WNetStop
    <3>3. DOMAIN x = WFields /\ x.phase = B
      BY <1>1, <3>1 DEF WFields, StartFields
    <3>4. q.phase = B
      <4>1. CASE x.epoch_rdy
        <5>1. PICK y : y = [x EXCEPT !.epoch_rdy = FALSE]
          OBVIOUS
        <5>2. DOMAIN y = WFields /\ y.phase = B
          BY <3>3, <5>1 DEF WFields, StartFields
        <5>3. Frame(y, q, WGoFields)
          BY <3>2, <4>1, <5>1, <5>2, WGoOnFacts
        <5> QED BY <5>2, <5>3 DEF Frame, WGoFields, WFields, StartFields
      <4>2. CASE ~x.epoch_rdy
        <5>1. q = [x EXCEPT !.net_stop_rdy = TRUE]
          BY <3>2, <4>2
        <5> QED BY <3>3, <5>1 DEF WFields, StartFields
      <4> QED BY <4>1, <4>2
    <3> QED BY <1>1, <3>4
  <2> QED BY <1>3, <2>1, <2>2, <2>3, <2>4
<1>4. PICK p \in net : WTakes(c, p)
  BY <1>1, <1>2, WSteps
<1>5. WStop(p) \/ WSync(p)
  BY <1>3, <1>4 DEF WTakes, WPacket
<1>6. WGoes(c)
  BY <1>4, <1>5, WAdvances
<1>7. /\ Flow!MayLeave(Place(r), tc[LastSub].tick_stop) /\ c \in Behind
      /\ Place(q) = Flow!NextPlace(Place(r), tc[LastSub].tick_stop)
  BY <1>6 DEF WGoes
<1>8. r.tick # END_TICK => Place(q)[3] = B
  <2>1. r.tick # END_TICK =>
          Flow!NextPlace(Place(r), tc[LastSub].tick_stop) = <<r.epoch, r.example_cnt, B, r.tick - 1, r.evt>>
    BY <1>1, <1>7, NextPlaceOf
  <2> QED BY <1>7, <2>1
<1>9. r.tick = END_TICK
  BY <1>1, <1>8 DEF Place
<1>10. Came("bkp", c) = Unit
  BY <1>1, <1>7, AllDeltasCame
<1> QED BY <1>1, <1>9, <1>10

\* LinkDeltasInv says what the link deltas are then.
LEMMA InvGradient ==
  ASSUME FlowAndMachine, LinkDeltasInv, [Next]_vars, [Flow!Next]_(Flow!vars)
  PROVE  GradientStep
<1> SUFFICES ASSUME NEW c \in WCores, ExampleOver(c)
             PROVE  LET added == {x \in DOMAIN wc[c].w_link_deltas : x[4][2] = wc[c].example_cnt}
                    IN /\ added = GradientOf(c)
                       /\ \A x \in DOMAIN wc[c].w_link_deltas :
                            wc[c].w_link_deltas[x] = 1 /\ x[4][1] = wc[c].epoch
                       /\ {x[4][2] : x \in DOMAIN wc[c].w_link_deltas} = 0 .. wc[c].example_cnt
  BY DEF GradientStep
<1> DEFINE r == wc[c]
           D == DOMAIN r.w_link_deltas
           Ran == {k \in Tick : \A i \in Unit :
                     r.w_output_history[k][i] = <<r.epoch, r.example_cnt, F, k>>}
           Out(k) == IF k = INIT_TICK THEN Zero ELSE <<r.epoch, r.example_cnt, F, k - 1>>
<1>1. r.phase = B /\ r.tick = END_TICK /\ Came("bkp", c) = Unit /\ F # B
  BY ExampleEnds DEF F, B
<1>2. LinkDeltasOK(r, Came("fwd", c), Unit)
  BY <1>1 DEF LinkDeltasInv
<1>3. r.tick \in Tick /\ r.example_cnt \in Nat
  <2>1. r.example_cnt \in 0 .. NumExamples - 1 /\ r.tick \in Tick
    BY WInPlace
  <2> QED BY <2>1
<1>4. /\ Training /\ r.w_link_deltas = SetToBag(D)
      /\ \A x \in D : x[4][1] = r.epoch /\ x[4][2] \in 0 .. r.example_cnt
      /\ Training => \A n \in 0 .. r.example_cnt - 1 : \E x \in D : x[4][2] = n
  BY <1>1, <1>2 DEF LinkDeltasOK
<1>5. PICK last \in From(r.tick) :
        WentTo(r, last) /\ {x \in D : x[4][2] = r.example_cnt} = Added(r, Unit, last)
  BY <1>1, <1>2 DEF LinkDeltasOK
<1>6. last \in Tick /\ last \in Int /\ \A k : k \in Tick <=> k \in INIT_TICK .. last \/ k \in From(last + 1)
  BY <1>1, <1>5, StageAssumption DEF From, Tick, INIT_TICK, END_TICK
<1>7. Ran = INIT_TICK .. last
  <2>1. \A i \in Unit : /\ \A k \in INIT_TICK .. last : r.w_output_history[k][i] = OutputOf(r, k)
                        /\ \A k \in From(last + 1) : r.w_output_history[k][i] # OutputOf(r, k)
    BY <1>5 DEF WentTo, Earlier
  <2>2. 0 \in Unit
    BY UnitFacts
  <2>3. \A k : OutputOf(r, k) = <<r.epoch, r.example_cnt, F, k>>
    BY DEF OutputOf
  <2>4. Ran = {k \in Tick : \A i \in Unit : r.w_output_history[k][i] = OutputOf(r, k)}
    BY <2>3
  <2> HIDE DEF Ran, r
  <2> QED BY <1>6, <2>1, <2>2, <2>4
<1>8. GradientOf(c) = {Product(r, i, u, k) : i \in Unit, u \in Unit, k \in Ran}
  BY DEF GradientOf, Product, OutputOf
<1>9. Added(r, Unit, last) = {Product(r, i, u, k) : i \in Unit, u \in Unit, k \in INIT_TICK .. last}
  <2>1. \A k : k \in INIT_TICK .. last <=> k \in r.tick + 1 .. last \/ k = r.tick
    BY <1>1, <1>5, <1>6 DEF INIT_TICK, END_TICK, From
  <2> QED BY <2>1 DEF Added
<1>10. \A x \in D : r.w_link_deltas[x] = 1
  BY <1>4 DEF SetToBag
<1>11. {x[4][2] : x \in D} = 0 .. r.example_cnt
  <2>1. \E x \in D : x[4][2] = r.example_cnt
    BY <1>1, <1>2, <1>3, AllAdded
  <2>2. \A n \in 0 .. r.example_cnt : n \in 0 .. r.example_cnt - 1 \/ n = r.example_cnt
    BY <1>3
  <2>3. \A n \in 0 .. r.example_cnt : \E x \in D : x[4][2] = n
    BY <1>4, <2>1, <2>2
  <2> QED BY <1>4, <2>3
<1>12. {x \in D : x[4][2] = r.example_cnt} = GradientOf(c)
  BY <1>5, <1>7, <1>8, <1>9
<1> QED BY <1>4, <1>10, <1>11, <1>12

\* The link deltas of a weight core are, in every state, one product for every
\* weight and every tick of the example BACKPROP has come to, and the products
\* of the earlier examples of the epoch; the history tells the ticks of this
\* example from those of the examples before.
THEOREM LinkDeltasInvariant ==
  ASSUME AllTimely, LongPhases
  PROVE  Spec => [](FlowAndMachine /\ OutputsInv /\ LinkDeltasInv)
<1>1. Init => FlowAndMachine /\ OutputsInv /\ LinkDeltasInv
  BY InitInv, InitOutputs, InitLinkDeltas
<1>2. FlowAndMachine /\ OutputsInv /\ LinkDeltasInv /\ [Next]_vars
        => (FlowAndMachine /\ OutputsInv /\ LinkDeltasInv)'
  BY StepFlow, OutputsStep, LinkDeltasStep
<1> QED BY <1>1, <1>2, PTL DEF Spec

\* When a weight core is through with an example, its link deltas have got, for
\* every tick of the example and every weight, exactly one product of the output
\* of the tick before and the delta of the tick, and nothing of another epoch
\* (wb_process, w_advance_example).
THEOREM GradientIsExact ==
  ASSUME AllTimely, LongPhases
  PROVE  Spec => GradientExact
<1>1. FlowAndMachine /\ LinkDeltasInv /\ [Next]_vars => [GradientStep]_vars
  BY StepFlow, InvGradient
<1>2. Spec => [](FlowAndMachine /\ OutputsInv /\ LinkDeltasInv)
  BY LinkDeltasInvariant
<1> QED BY <1>1, <1>2, PTL DEF Spec, GradientExact

(***************************************************************************)
(* Stop criteria.                                                          *)
(***************************************************************************)
\* A core that stays in its tick, and is behind, stays behind.
LEMMA StaysBehind ==
  ASSUME FlowAndMachine, [Flow!Next]_(Flow!vars), NEW c \in Behind, Place(Rec(c))' = Place(Rec(c))
  PROVE  c \in Behind'
<1> DEFINE P == [d \in Cores |-> Place(Rec(d))]
<1>1. c \in Cores
  BY FlowFacts DEF FlowAndMachine
<1>2. P'[c] = P[c]
  BY <1>1
<1> QED BY <1>2, MachineGraph, Flow!StaysBehind DEF FlowAndMachine

SameCriteria(r, q) ==
  /\ q.tf_met = r.tf_met /\ q.tf_crit_prev = r.tf_crit_prev /\ q.tf_stop_crit = r.tf_stop_crit
  /\ q.tf_arrived = r.tf_arrived /\ q.tf_crit_arrived = r.tf_crit_arrived
  /\ Place(q) = Place(r)

\* The handlers that have nothing to do with criteria leave them alone.
LEMMA CriteriaAlone ==
  ASSUME FlowAndMachine, NEW s \in Sub,
         \/ TLeft(s) \/ TProcess(s)
         \/ \E p \in net : TTakes(s, p) /\ (TError(p) \/ TBsgn(p) \/ TNetStop(p))
  PROVE  SameCriteria(tc[s], tc'[s])
<1> DEFINE r == tc[s]
           q == tc'[s]
<1>1. DOMAIN r = TFields /\ DOMAIN tc = Sub
  BY TFacts DEF TShape, TFields
<1>2. ASSUME NEW v, DOMAIN v = TFields, NEW w, NEW X, Frame(v, w, X),
             X \subseteq {"tb_pending", "tb_arrived", "tb_bsgn_arrived", "t_errors",
                          "tb_thrds_pend", "advance", "net_stop", "net_stop_rdy", "done"}
      PROVE  SameCriteria(v, w) /\ DOMAIN w = TFields
  BY <1>2 DEF Frame, TFields, StartFields, SameCriteria, Place
<1>3. CASE TLeft(s)
  BY <1>3 DEF TLeft, SameCriteria
<1>4. CASE TProcess(s)
  <2>1. q = [r EXCEPT !.tb_pending = FALSE]
    BY <1>1, <1>4 DEF TProcess
  <2>2. Frame(r, q, {"tb_pending"})
    BY <1>1, <2>1 DEF Frame, TFields, StartFields
  <2> QED BY <1>1, <1>2, <2>2
<1>5. ASSUME NEW v, DOMAIN v = TFields, NEW th
      PROVE  SameCriteria(v, TBDone(s, v, th))
  <2>1. PICK y : y = TBDone(s, v, th)
    OBVIOUS
  <2>2. y = [v EXCEPT !.tb_thrds_pend = @ \ {th}] \/ y = v \/ y = [v EXCEPT !.advance = TRUE]
    BY <2>1, Zenon DEF TBDone
  <2>3. Frame(v, y, {"tb_thrds_pend", "advance"})
    BY <2>2 DEF Frame
  <2> QED BY <1>2, <1>5, <2>1, <2>3
<1>6. ASSUME NEW p \in net, TTakes(s, p), TError(p) \/ TBsgn(p) \/ TNetStop(p)
      PROVE  SameCriteria(r, q)
  <2>1. p.dst = T(s) /\ p.dst[2] = s
    BY <1>6, CoresApart DEF TTakes
  <2>2. CASE TError(p)
    <3>1. PICK x : x = [r EXCEPT !.t_errors[tb_comms(r)][p.u] = p.st, !.tb_arrived = @ + 1]
      OBVIOUS
    <3>2. q = x \/ q = TBDone(s, x, "COMS")
      BY <1>1, <2>1, <2>2, <3>1 DEF TError
    <3>3. Frame(r, x, {"t_errors", "tb_arrived"})
      BY <1>1, <3>1 DEF Frame, TFields, StartFields
    <3>4. SameCriteria(r, x) /\ DOMAIN x = TFields
      BY <1>1, <1>2, <3>3
    <3> QED BY <1>5, <3>2, <3>4 DEF SameCriteria
  <2>3. CASE TBsgn(p)
    <3>1. PICK x : x = [r EXCEPT !.tb_bsgn_arrived = @ + 1]
      OBVIOUS
    <3>2. q = x \/ q = TBDone(s, x, "BSGN")
      BY <1>1, <2>1, <2>3, <3>1 DEF TBsgn
    <3>3. Frame(r, x, {"tb_bsgn_arrived"})
      BY <1>1, <3>1 DEF Frame, TFields, StartFields
    <3>4. SameCriteria(r, x) /\ DOMAIN x = TFields
      BY <1>1, <1>2, <3>3
    <3> QED BY <1>5, <3>2, <3>4 DEF SameCriteria
  <2>4. CASE TNetStop(p)
    <3>1. q = NetStop(r, p.b)
      BY <1>1, <2>1, <2>4 DEF TNetStop
    <3>2. StartFields \subseteq DOMAIN r
      BY <1>1 DEF TFields
    <3>3. Frame(r, q, NetStopFields)
      BY <3>1, <3>2, NetStopFacts DEF NetStopOf
    <3> QED BY <1>1, <1>2, <3>3 DEF NetStopFields
  <2> QED BY <1>6, <2>2, <2>3, <2>4
<1> QED BY <1>3, <1>4, <1>6

\* A criterion link leads from a core of the chain to the one it reports to.
LEMMA CritLinks ==
  ASSUME NEW l \in AllLinks, l[1] = "crit"
  PROVE  \E t \in Sub : t # LastSub /\ l = CritT(t, T(HeadOf(t))) /\ l[2] = T(t) /\ l[2][2] = t
<1>1. ForwardKind(l)
  BY ForwardElim, LinkClass DEF AllLinks
<1>2. PICK t \in Sub \ {LastSub}, d \in Cores : l = CritT(t, d) /\ d \in StpRoute(t)
  BY <1>1, LinkTable DEF ForwardKind
<1>3. d = T(HeadOf(t))
  BY <1>2, StpRouteFacts
<1> QED BY <1>2, <1>3, LinkTable, CoresApart

\* A core that has reported its verdict keeps it until the tick is over.
LEMMA VerdictStays ==
  ASSUME AllTimely, FlowAndMachine, [Next]_vars, NEW t \in Sub, t # LastSub,
         NEW l \in Sent, l[1] = "crit", l[2] = T(t)
  PROVE  tc'[t].tf_stop_crit = tc[t].tf_stop_crit
<1>1. T(t) \in Cores /\ Rec(T(t)) = tc[t] /\ T(t) \notin Behind /\ l \in LinksOf(cur)
  BY TFacts, FlowFacts DEF FlowAndMachine
<1>2. cur[3] = F /\ LinksOf(cur) = ForwardLinks /\ F # B
  BY <1>1, PhaseFacts
<1>3. Into({"fwd", "crit"}, T(t)) \subseteq Got
  <2>1. l \in AllLinks
    BY DEF Sent
  <2>2. PICK x \in Sub : l = CritT(x, T(HeadOf(x))) /\ l[2] = T(x)
    BY <2>1, CritLinks
  <2>3. x = t
    BY <2>2, CoresApart
  <2>4. LinkDeps(l) = Into({"fwd", "crit"}, T(t))
    BY <2>2, <2>3, DepsTable, UnitFacts
  <2>5. Into({"fwd", "crit"}, T(t)) \subseteq ForwardLinks
    BY LinkClass DEF Into, AllLinks
  <2>6. LinkDeps(l) \cap LinksOf(cur) \subseteq Got
    BY FlowFacts DEF FlowAndMachine
  <2> QED BY <1>2, <2>4, <2>5, <2>6
<1>4. ASSUME NEW p \in net, p.dst = T(t), InTime(tc[t], p),
             p.kind \in {"fwd", "crit", "fsgn"}
      PROVE  FALSE
  <2>1. Awaits(p) /\ InTime(Rec(p.dst), p)
    BY <1>1, <1>4 DEF Awaits
  <2>2. LinkOf(p) \in Into({p.kind}, T(t)) /\ LinkOf(p) \notin Got
    BY <1>4, <2>1, InTickLink
  <2>3. p.kind # "fsgn"
    BY <2>2, IntoT
  <2> QED BY <1>3, <1>4, <2>2, <2>3 DEF Into
<1>5. CASE TLeft(t) \/ TProcess(t)
  BY <1>5, CriteriaAlone DEF SameCriteria
<1>6. ASSUME NEW p \in net, TTakes(t, p)
      PROVE  tc'[t].tf_stop_crit = tc[t].tf_stop_crit
  <2>1. p.dst = T(t) /\ p.dst[2] = t
    BY <1>6, CoresApart DEF TTakes
  <2>2. CASE TForward(p) \/ TCrit(p) \/ TFsgn(p)
    BY <1>4, <2>1, <2>2 DEF TForward, TCrit, TFsgn
  <2>3. CASE TError(p) \/ TBsgn(p) \/ TNetStop(p)
    BY <1>6, <2>3, CriteriaAlone DEF SameCriteria
  <2>4. CASE TStop(p) \/ TSync(p)
    <3>1. p.kind \in {"stop", "sync"}
      BY <2>4 DEF TStop, TSync
    <3>2. T(t) \in Behind
      BY <2>1, <3>1 DEF Behind, Heading
    <3> QED BY <1>1, <3>2
  <2> QED BY <1>6, <2>2, <2>3, <2>4 DEF TTakes, TPacket
<1> QED BY <1>5, <1>6, TSteps

\* The cores heard from are those of the packets handled.
LEMMA HeardFacts ==
  ASSUME FlowAndMachine, NEW s \in Sub, T(s) \notin Behind
  PROVE  /\ Heard(s) = {t \in HeadsTo(s) : CritT(t, T(s)) \in Got}
         /\ \A t \in Heard(s) : t \in Sub /\ t # LastSub /\ CritT(t, T(s)) \in Got
<1>1. HandledKind("crit", T(s)) = Into({"crit"}, T(s)) \cap Got
  BY TFacts, HandledKinds
<1>2. Into({"crit"}, T(s)) = {CritT(x, T(s)) : x \in HeadsTo(s)}
  BY IntoT
<1>3. \A x : CritT(x, T(s))[2][2] = x
  BY LinkTable, CoresApart
<1>4. Heard(s) = {t \in HeadsTo(s) : CritT(t, T(s)) \in Got}
  BY <1>1, <1>2, <1>3 DEF Heard
<1> QED BY <1>4 DEF HeadsTo

LEMMA HeardStays ==
  ASSUME AllTimely, FlowAndMachine, [Next]_vars, NEW s \in Sub, T(s) \notin Behind,
         NEW t \in Heard(s)
  PROVE  tc'[t].tf_stop_crit = tc[t].tf_stop_crit
<1>1. t \in Sub /\ t # LastSub /\ CritT(t, T(s)) \in Sent
  BY HeardFacts DEF Got
<1>2. CritT(t, T(s))[1] = "crit" /\ CritT(t, T(s))[2] = T(t)
  BY LinkTable
<1> QED BY <1>1, <1>2, VerdictStays

(***************************************************************************)
(* A threshold core counts a packet of a FORWARD tick: what it finds, when *)
(* v is the verdict on the unit (TRUE for a packet that is no net).        *)
(***************************************************************************)
MetNow(p, r, v) == IF p.kind = "fwd" THEN [r.tf_met EXCEPT ![p.u] = v] ELSE r.tf_met
OwnNow(r, v) == r.tf_stop_crit /\ v
PrevNow(p, r) == r.tf_crit_prev /\ (p.kind = "crit" => p.b)

FindsNow(p, r, v, r1) ==
  /\ r1.tf_met = MetNow(p, r, v) /\ r1.tf_crit_prev = PrevNow(p, r)
  /\ r1.tf_stop_crit = OwnNow(r, v)

TFVerdict(p, s, v) ==
  LET r == tc[s]
      q == tc'[s] IN
  /\ q.tf_met = MetNow(p, r, v) /\ q.tf_crit_prev = PrevNow(p, r)
  /\ ~TFReports(p, s) => q.tf_stop_crit = OwnNow(r, v)
  /\ TFReports(p, s) /\ ~IsLast(s) => q.tf_stop_crit = (OwnNow(r, v) /\ PrevNow(p, r))
  /\ TFReports(p, s) /\ IsLast(s) =>
       q.tick_stop = (Forced(r) \/ (OwnNow(r, v) /\ PrevNow(p, r) /\ r.ev_tick >= MinTicks))

\* The record when p is counted and, if need be, a thread ended.
LEMMA VerdictRecord ==
  ASSUME NEW p, NEW s \in Sub, NEW v, TShape(tc[s]), NEW r1, TFCounts(p, tc[s], r1),
         NEW q, q = IF TFFinishes(p, s) THEN TFDone(s, r1, TFThread(p)) ELSE r1,
         FindsNow(p, tc[s], v, r1), q = tc'[s]
  PROVE  TFVerdict(p, s, v)
<1> DEFINE r == tc[s]
           th == TFThread(p)
           x == TFDone(s, r1, th)
<1>1. /\ r1.tf_thrds_pend = r.tf_thrds_pend /\ r1.ev_tick = r.ev_tick /\ r1.tick = r.tick
      /\ TFDoneSets \subseteq DOMAIN r1
      /\ {"tf_met", "tf_crit_prev"} \subseteq DOMAIN r1 \ TFDoneSets
  BY DEF TFCounts, TShape, TFDoneSets, StartFields
<1>2. TFReports(p, s) <=> TFFinishes(p, s) /\ r1.tf_thrds_pend = {th}
  BY <1>1 DEF TFReports
<1>3. /\ r1.tf_thrds_pend # {th} => x = [r1 EXCEPT !.tf_thrds_pend = @ \ {th}]
      /\ r1.tf_thrds_pend = {th} /\ ~IsLast(s) => x = [r1 EXCEPT !.tf_stop_crit = Aggregate(r1)]
      /\ r1.tf_thrds_pend = {th} /\ IsLast(s) =>
           x = [r1 EXCEPT !.tf_group_crit = Aggregate(r1), !.tf_stop_crit = StopDecision(r1),
                          !.tick_stop = StopDecision(r1), !.advance = TRUE]
  BY Zenon DEF TFDone
<1> HIDE DEF x
<1>4. x.tf_met = r1.tf_met /\ x.tf_crit_prev = r1.tf_crit_prev
  BY <1>1, <1>3 DEF TFDoneSets
<1>5. /\ r1.tf_thrds_pend # {th} => x.tf_stop_crit = r1.tf_stop_crit
      /\ r1.tf_thrds_pend = {th} /\ ~IsLast(s) => x.tf_stop_crit = Aggregate(r1)
      /\ r1.tf_thrds_pend = {th} /\ IsLast(s) => x.tick_stop = StopDecision(r1)
  BY <1>1, <1>3 DEF TFDoneSets
<1>6. Aggregate(r1) = (OwnNow(r, v) /\ PrevNow(p, r))
  BY DEF Aggregate, FindsNow
<1>7. StopDecision(r1) = (Forced(r) \/ (OwnNow(r, v) /\ PrevNow(p, r) /\ r.ev_tick >= MinTicks))
  <2>1. Aggregate(r1) <=> OwnNow(r, v) /\ PrevNow(p, r)
    BY <1>6
  <2>2. /\ r1.ev_tick >= MaxTicks <=> r.ev_tick >= MaxTicks
        /\ r1.tick = GlobalMaxTicks - 1 <=> r.tick = GlobalMaxTicks - 1
        /\ r1.ev_tick >= MinTicks <=> r.ev_tick >= MinTicks
    BY <1>1
  <2>3. StopDecision(r1) <=> Forced(r) \/ (OwnNow(r, v) /\ PrevNow(p, r) /\ r.ev_tick >= MinTicks)
    BY <1>1, <2>1 DEF StopDecision, Forced
  <2>4. StopDecision(r1) \in BOOLEAN
    BY DEF StopDecision
  <2> QED BY <2>3, <2>4
<1>8. q = IF TFFinishes(p, s) THEN x ELSE r1
  BY DEF x
<1>9. q.tf_met = MetNow(p, r, v) /\ q.tf_crit_prev = PrevNow(p, r)
  BY <1>4, <1>8 DEF FindsNow
<1>10. ~TFReports(p, s) => q.tf_stop_crit = OwnNow(r, v)
  BY <1>2, <1>5, <1>8 DEF FindsNow
<1>11. TFReports(p, s) /\ ~IsLast(s) => q.tf_stop_crit = (OwnNow(r, v) /\ PrevNow(p, r))
  BY <1>2, <1>5, <1>6, <1>8
<1>12. TFReports(p, s) /\ IsLast(s) =>
         q.tick_stop = (Forced(r) \/ (OwnNow(r, v) /\ PrevNow(p, r) /\ r.ev_tick >= MinTicks))
  BY <1>2, <1>5, <1>7, <1>8
<1> QED BY <1>9, <1>10, <1>11, <1>12 DEF TFVerdict

\* tf_process, t_criterion_packet, t_fsgn_packet
LEMMA VerdictStep ==
  ASSUME AllTimely, FlowAndMachine, NEW s \in Sub, CriteriaOK(s), NEW p \in net, TTakes(s, p),
         TForward(p) \/ TCrit(p) \/ TFsgn(p)
  PROVE  /\ TFStep(p, s)
         /\ \E v \in BOOLEAN : /\ TFVerdict(p, s, v)
                               /\ v \/ (IsOutput(s) /\ p.kind = "fwd")
<1> DEFINE r == tc[s]
<1>1. p.dst = T(s) /\ p.dst[2] = s /\ UNCHANGED <<wc, sc, ic>> /\ s \in Sub
  BY CoresApart DEF TTakes
<1>2. TShape(r) /\ DOMAIN tc = Sub /\ DOMAIN r = TFields
  BY TFacts DEF TShape, TFields
<1>3. TFStep(p, s)
  BY <1>1, TForwardStep, TCritStep, TFsgnStep
<1>4. r.tf_stop_crit \in BOOLEAN /\ r.tf_crit_prev \in BOOLEAN
  BY DEF CriteriaOK
<1>5. CASE TForward(p)
  <2> DEFINE r0 == [r EXCEPT !.t_outputs[p.u] = p.st,
                             !.t_output_history[r.tick][p.u] = IF Training THEN p.st ELSE @,
                             !.tf_arrived = @ + 1]
  <2>1. PICK v, r1 :
          /\ v \in IF IsOutput(s) THEN BOOLEAN ELSE {TRUE}
          /\ r1 = std_stop_crit(r0, p.u, v)
          /\ tc' = [tc EXCEPT ![s] = IF r1.tf_arrived = Units THEN TFDone(s, r1, "PROC") ELSE r1]
    BY <1>1, <1>5, Zenon DEF TForward
  <2>2. p.kind = "fwd"
    BY <1>5 DEF TForward
  <2>3. Frame(r, r0, {"t_outputs", "t_output_history", "tf_arrived"})
        /\ DOMAIN r0 = TFields /\ r0.tf_arrived = r.tf_arrived + 1
    BY <1>2 DEF Frame, TFields, StartFields
  <2> HIDE DEF r0
  <2>4. /\ Frame(r0, r1, {"tf_stop_crit", "tf_met"}) /\ DOMAIN r1 = TFields
        /\ r1.tf_stop_crit = (r0.tf_stop_crit /\ v)
        /\ r1.tf_met = [r0.tf_met EXCEPT ![p.u] = v]
    BY <2>1, <2>3 DEF std_stop_crit, Frame, TFields, StartFields
  <2>5. /\ r0.tf_stop_crit = r.tf_stop_crit /\ r0.tf_met = r.tf_met
        /\ r1.tf_crit_prev = r.tf_crit_prev /\ r1.tf_arrived = r.tf_arrived + 1
        /\ r1.tf_crit_arrived = r.tf_crit_arrived
    BY <2>3, <2>4 DEF Frame, TFields, StartFields
  <2>6. TFCounts(p, r, r1)
    BY <1>2, <2>2, <2>3, <2>4, <2>5 DEF TFCounts, Frame
  <2>7. TFThread(p) = "PROC" /\ (TFFinishes(p, s) <=> r1.tf_arrived = Units)
    BY <2>2, <2>5 DEF TFThread, TFFinishes
  <2>8. tc'[s] = IF TFFinishes(p, s) THEN TFDone(s, r1, TFThread(p)) ELSE r1
    BY <1>2, <2>1, <2>7
  <2>9. v \in BOOLEAN /\ (v \/ IsOutput(s))
    BY <2>1
  <2>10. FindsNow(p, r, v, r1)
    BY <1>4, <2>2, <2>4, <2>5 DEF FindsNow, MetNow, OwnNow, PrevNow
  <2>11. TFVerdict(p, s, v)
    BY <1>2, <2>6, <2>8, <2>10, VerdictRecord
  <2> QED BY <1>3, <2>2, <2>9, <2>11
<1>6. CASE TCrit(p)
  <2>1. PICK r1 : r1 = [tc[s] EXCEPT !.tf_crit_prev = @ /\ p.b, !.tf_crit_arrived = @ + 1]
    OBVIOUS
  <2>2. /\ p.kind = "crit"
        /\ tc' = [tc EXCEPT ![s] = IF r1.tf_crit_arrived = crit_expected(s)
                                     THEN TFDone(s, r1, "CRIT") ELSE r1]
    BY <1>1, <1>6, <2>1 DEF TCrit
  <2>3. /\ Frame(r, r1, {"tf_crit_prev", "tf_crit_arrived"}) /\ DOMAIN r1 = TFields
        /\ r1.tf_crit_prev = (r.tf_crit_prev /\ p.b)
        /\ r1.tf_crit_arrived = r.tf_crit_arrived + 1
    BY <1>2, <2>1 DEF Frame, TFields, StartFields
  <2>4. r1.tf_met = r.tf_met /\ r1.tf_stop_crit = r.tf_stop_crit /\ r1.tf_arrived = r.tf_arrived
    BY <1>2, <2>3 DEF Frame, TFields, StartFields
  <2>5. TFCounts(p, r, r1)
    BY <1>2, <2>2, <2>3, <2>4 DEF TFCounts, Frame
  <2>6. TFThread(p) = "CRIT" /\ (TFFinishes(p, s) <=> r1.tf_crit_arrived = crit_expected(s))
    BY <2>2, <2>3 DEF TFThread, TFFinishes
  <2>7. tc'[s] = IF TFFinishes(p, s) THEN TFDone(s, r1, TFThread(p)) ELSE r1
    BY <1>2, <2>2, <2>6
  <2>8. FindsNow(p, r, TRUE, r1)
    BY <1>4, <2>2, <2>3, <2>4 DEF FindsNow, MetNow, OwnNow, PrevNow
  <2>9. TFVerdict(p, s, TRUE)
    BY <1>2, <2>5, <2>7, <2>8, VerdictRecord
  <2> QED BY <1>3, <2>9
<1>7. CASE TFsgn(p)
  <2>1. p.kind = "fsgn" /\ tc' = [tc EXCEPT ![s] = TFDone(s, r, "FSGN")]
    BY <1>1, <1>2, <1>7 DEF TFsgn
  <2>2. TFCounts(p, r, r)
    BY <2>1 DEF TFCounts
  <2>3. TFThread(p) = "FSGN" /\ TFFinishes(p, s)
    BY <2>1 DEF TFThread, TFFinishes
  <2>4. tc'[s] = IF TFFinishes(p, s) THEN TFDone(s, r, TFThread(p)) ELSE r
    BY <1>2, <2>1, <2>3
  <2>5. FindsNow(p, r, TRUE, r)
    BY <1>4, <2>1 DEF FindsNow, MetNow, OwnNow, PrevNow
  <2>6. TFVerdict(p, s, TRUE)
    BY <1>2, <2>2, <2>4, <2>5, VerdictRecord
  <2> QED BY <1>3, <2>6
<1> QED BY <1>5, <1>6, <1>7

\* A packet of the chain is heard from its sender, another one from none.
LEMMA HeardStep ==
  ASSUME NEW s
  PROVE  /\ CoreStays(T(s)) => Heard(s)' = Heard(s)
         /\ \A l : CoreHandles(T(s), l) =>
              Heard(s)' = IF l[1] = "crit" THEN Heard(s) \cup {l[2][2]} ELSE Heard(s)
<1> DEFINE X == HandledKind("crit", T(s))
<1>1. Heard(s) = {l[2][2] : l \in X} /\ Heard(s)' = {l[2][2] : l \in X'}
  BY DEF Heard
<1>2. CoreStays(T(s)) => X' = X
  BY DEF CoreStays, HandledKind
<1>3. ASSUME NEW l, CoreHandles(T(s), l)
      PROVE  X' = IF l[1] = "crit" THEN X \cup {l} ELSE X
  BY <1>3 DEF CoreHandles, HandledKind
<1> HIDE DEF X
<1>4. ASSUME NEW l, CoreHandles(T(s), l)
      PROVE  Heard(s)' = IF l[1] = "crit" THEN Heard(s) \cup {l[2][2]} ELSE Heard(s)
  <2>1. CASE l[1] = "crit"
    <3>1. X' = X \cup {l}
      BY <1>3, <1>4, <2>1
    <3> QED BY <1>1, <2>1, <3>1
  <2>2. CASE l[1] # "crit"
    <3>1. X' = X
      BY <1>3, <1>4, <2>2
    <3> QED BY <1>1, <2>2, <3>1
  <2> QED BY <2>1, <2>2
<1> QED BY <1>1, <1>2, <1>4

\* What a core has found and heard is looked at in the FORWARD phase.
LEMMA CriteriaFields ==
  ASSUME NEW s, CriteriaOK(s)
  PROVE  /\ tc[s].tf_met \in [Unit -> BOOLEAN]
         /\ tc[s].tf_stop_crit \in BOOLEAN /\ tc[s].tf_crit_prev \in BOOLEAN
         /\ ~IsOutput(s) => \A u \in Unit : tc[s].tf_met[u]
         /\ tc[s].phase = B => FreshCriteria(tc[s])
  BY DEF CriteriaOK

LEMMA SameFound ==
  ASSUME NEW s, NEW r, NEW q, SameCriteria(r, q)
  PROVE  /\ FreshCriteria(q) <=> FreshCriteria(r)
         /\ OwnVerdict(s, q) <=> OwnVerdict(s, r)
         /\ q.phase = r.phase
<1>1. Stamp(q) = Stamp(r) /\ q.phase = r.phase
  BY DEF SameCriteria, Place, Stamp
<1> QED BY <1>1 DEF SameCriteria, FreshCriteria, OwnVerdict, FirstTick

\* A step that takes no net and no criterion leaves them right.
LEMMA CriteriaKept ==
  ASSUME AllTimely, FlowAndMachine, FlowAndMachine', [Flow!Next]_(Flow!vars), [Next]_vars,
         NEW s \in Sub, CriteriaOK(s), SameCriteria(tc[s], tc'[s]),
         NEW p, p.kind \notin {"fwd", "crit"}, \A q \in net : q.dst = T(s) => q = p \/ q \in net'
  PROVE  CriteriaOK(s)'
<1> DEFINE a == T(s)
           r == tc[s]
           q == tc'[s]
<1>1. a \in Cores /\ Rec(a) = r /\ Rec(a)' = q
  BY TFacts
<1>2. /\ q.tf_met = r.tf_met /\ q.tf_crit_prev = r.tf_crit_prev
      /\ q.tf_stop_crit = r.tf_stop_crit
      /\ q.tf_arrived = r.tf_arrived /\ q.tf_crit_arrived = r.tf_crit_arrived
      /\ Place(Rec(a))' = Place(Rec(a))
      /\ FreshCriteria(q) <=> FreshCriteria(r)
      /\ OwnVerdict(s, q) <=> OwnVerdict(s, r)
      /\ q.phase = r.phase
  BY <1>1, SameFound DEF SameCriteria
<1>3. CoreStays(a) \/ CoreHandles(a, LinkOf(p))
  <2>1. Stamp(Rec(a)') = Stamp(Rec(a))
    BY <1>1 DEF SameCriteria, Place, Stamp
  <2> QED BY <1>1, <2>1, CoreBy
<1>4. LinkOf(p)[1] = p.kind
  BY LinkApart DEF LinkOf
<1>5. Came("fwd", a)' = Came("fwd", a) /\ Heard(s)' = Heard(s)
  BY <1>3, <1>4, CameKept, HeardStep
<1>6. ASSUME In(a, F)'
      PROVE  /\ \A u \in Unit : u \notin Came("fwd", a)' => q.tf_met[u]
             /\ q.tf_crit_prev <=> \A t \in Heard(s)' : tc'[t].tf_stop_crit
             /\ q.tf_stop_crit <=> OwnVerdict(s, q) /\ (Reported(s)' => q.tf_crit_prev)
  <2>1. a \notin Behind' /\ q.phase = F
    BY <1>1, <1>6 DEF In
  <2>2. a \notin Behind /\ In(a, F)
    BY <1>1, <1>2, <2>1, StaysBehind DEF In
  <2>3. Reported(s)' <=> Reported(s)
    BY <1>2, <1>6, <2>2 DEF Reported, CritWhole
  <2>4. \A t \in Heard(s) : tc'[t].tf_stop_crit = tc[t].tf_stop_crit
    BY <2>2, HeardStays
  <2>5. /\ \A u \in Unit : u \notin Came("fwd", a) => r.tf_met[u]
        /\ r.tf_crit_prev <=> \A t \in Heard(s) : tc[t].tf_stop_crit
        /\ r.tf_stop_crit <=> OwnVerdict(s, r) /\ (Reported(s) => r.tf_crit_prev)
    BY <2>2 DEF CriteriaOK
  <2> HIDE DEF r, q
  <2> QED BY <1>2, <1>5, <2>3, <2>4, <2>5
<1>7. /\ q.tf_met \in [Unit -> BOOLEAN]
      /\ q.tf_stop_crit \in BOOLEAN /\ q.tf_crit_prev \in BOOLEAN
      /\ ~IsOutput(s) => \A u \in Unit : q.tf_met[u]
      /\ q.phase = B => FreshCriteria(q)
  BY <1>2, CriteriaFields
<1> QED BY <1>6, <1>7 DEF CriteriaOK

(***************************************************************************)
(* A packet of a FORWARD tick.                                             *)
(***************************************************************************)
\* the cores heard from, when p is
HeardNow(s, p) == Heard(s) \cup (IF p.kind = "crit" THEN {p.src[2]} ELSE {})

\* the units whose output has come, when p has
CameNow(s, p) == Came("fwd", T(s)) \cup (IF p.kind = "fwd" THEN {p.u} ELSE {})

\* A core that is to count the packet has not reported yet.
LEMMA NotYet ==
  ASSUME AllTimely, FlowAndMachine, NEW p \in net, NEW s \in Sub, TFStep(p, s)
  PROVE  ~Reported(s) /\ In(T(s), F) /\ T(s) \notin Behind
<1>1. ~(tf_thrds_init(s) \subseteq TFThreadsDone(s)) /\ In(T(s), F)
  BY TFBoardsStep
<1>2. Reported(s) => tf_thrds_init(s) \subseteq TFThreadsDone(s)
  BY DEF Reported, CritWhole, IsLast, tf_thrds_init, TFThreadsDone
<1> QED BY <1>1, <1>2 DEF In

\* A net that comes is the first of its unit, a criterion is its sender's.
LEMMA PacketNow ==
  ASSUME AllTimely, FlowAndMachine, [Next]_vars, NEW p \in net, VerdictOK(p),
         NEW s \in Sub, TFStep(p, s)
  PROVE  /\ p.kind = "fwd" => p.u \in Unit /\ p.u \notin Came("fwd", T(s))
         /\ p.kind = "crit" => /\ p.src[2] \in HeadsTo(s) /\ p.src = T(p.src[2])
                               /\ p.b = tc'[p.src[2]].tf_stop_crit
<1> DEFINE l == LinkOf(p)
<1>1. p.dst = T(s) /\ InTime(tc[s], p) /\ p.kind \in {"fwd", "crit", "fsgn"}
  BY DEF TFStep
<1>2. /\ Awaits(p) /\ T(s) \in Cores \ Behind /\ InTime(Rec(p.dst), p)
      /\ l \in Sent \ Got /\ l \in AllLinks /\ p.u \in Unit
  BY <1>1, TPacketFacts DEF Awaits
<1>3. l[1] = p.kind /\ l[2] = p.src /\ l[3] = T(s) /\ l[4] = p.u
  BY <1>1, LinkApart DEF LinkOf
<1>4. ASSUME p.kind = "fwd", p.u \in Came("fwd", T(s))
      PROVE  FALSE
  <2>1. PICK x \in HandledKind("fwd", T(s)) : x[4] = p.u
    BY <1>4 DEF Came
  <2>2. x \in Into({"fwd"}, T(s)) /\ x \in Got
    BY <1>2, <2>1, HandledKinds
  <2>3. l \in Into({"fwd"}, T(s))
    BY <1>2, <1>3, <1>4 DEF Into
  <2>4. PICK u \in Unit, w \in Unit : x = FwdIT(s, u) /\ l = FwdIT(s, w)
    BY <2>2, <2>3, IntoT
  <2>5. u = p.u /\ w = p.u
    BY <1>3, <2>1, <2>4, LinkTable
  <2> QED BY <1>2, <2>2, <2>4, <2>5
<1>5. ASSUME p.kind = "crit"
      PROVE  /\ p.src[2] \in HeadsTo(s) /\ p.src = T(p.src[2])
             /\ p.b = tc'[p.src[2]].tf_stop_crit
  <2>1. PICK t \in Sub : t # LastSub /\ l[2] = T(t) /\ l[2][2] = t
    BY <1>2, <1>3, <1>5, CritLinks
  <2>2. tc'[t].tf_stop_crit = tc[t].tf_stop_crit
    BY <1>2, <1>3, <1>5, <2>1, VerdictStays
  <2>3. PICK x \in HeadsTo(s) : l = CritT(x, T(s))
    <3>1. l \in Into({"crit"}, T(s))
      BY <1>2, <1>3, <1>5 DEF Into
    <3> QED BY <3>1, IntoT
  <2>4. x = t
    BY <2>1, <2>3, LinkTable, CoresApart
  <2> QED BY <1>3, <1>5, <2>1, <2>2, <2>3, <2>4 DEF VerdictOK
<1> QED BY <1>2, <1>4, <1>5

\* The verdict and those heard, with the packet.
FoundNow(s, p, v) ==
  LET q == tc'[s] IN
  /\ q.tf_met \in [Unit -> BOOLEAN]
  /\ ~IsOutput(s) => \A u \in Unit : q.tf_met[u]
  /\ \A u \in Unit : u \notin CameNow(s, p) => q.tf_met[u]
  /\ OwnNow(tc[s], v) <=> OwnVerdict(s, q)
  /\ PrevNow(p, tc[s]) <=> \A t \in HeardNow(s, p) : tc'[t].tf_stop_crit

LEMMA VerdictNow ==
  ASSUME AllTimely, FlowAndMachine, [Next]_vars, NEW p \in net, VerdictOK(p),
         NEW s \in Sub, CriteriaOK(s), TFStep(p, s),
         NEW v \in BOOLEAN, TFVerdict(p, s, v), v \/ (IsOutput(s) /\ p.kind = "fwd")
  PROVE  FoundNow(s, p, v)
<1> DEFINE r == tc[s]
           q == tc'[s]
<1>1. /\ ~Reported(s) /\ In(T(s), F) /\ T(s) \notin Behind
      /\ p.kind = "fwd" => p.u \in Unit /\ p.u \notin Came("fwd", T(s))
      /\ p.kind = "crit" => p.b = tc'[p.src[2]].tf_stop_crit
  BY NotYet, PacketNow
<1>2. /\ r.tf_met \in [Unit -> BOOLEAN]
      /\ ~IsOutput(s) => \A u \in Unit : r.tf_met[u]
      /\ \A u \in Unit : u \notin Came("fwd", T(s)) => r.tf_met[u]
      /\ r.tf_crit_prev <=> \A t \in Heard(s) : tc[t].tf_stop_crit
      /\ r.tf_stop_crit <=> OwnVerdict(s, r)
  BY <1>1 DEF CriteriaOK
<1>3. q.tf_met = MetNow(p, r, v)
  BY DEF TFVerdict
<1>4. FirstTick(q) <=> FirstTick(r)
  <2>1. Place(q) = Place(r)
    BY DEF TFStep, TFCounted, Keeps
  <2> QED BY <2>1 DEF Place, FirstTick, Stamp
<1> HIDE DEF r, q
<1>5. /\ q.tf_met \in [Unit -> BOOLEAN]
      /\ (\A u \in Unit : q.tf_met[u]) <=> (\A u \in Unit : r.tf_met[u]) /\ v
      /\ \A u \in Unit : u \notin CameNow(s, p) => q.tf_met[u]
      /\ ~IsOutput(s) => \A u \in Unit : q.tf_met[u]
  <2>1. CASE p.kind = "fwd"
    <3>1. q.tf_met = [r.tf_met EXCEPT ![p.u] = v]
      BY <1>3, <2>1 DEF MetNow
    <3> QED BY <1>1, <1>2, <2>1, <3>1 DEF CameNow
  <2>2. CASE p.kind # "fwd"
    <3>1. q.tf_met = r.tf_met /\ v
      BY <1>3, <2>2 DEF MetNow
    <3> QED BY <1>2, <2>2, <3>1 DEF CameNow
  <2> QED BY <2>1, <2>2
<1>6. OwnNow(r, v) <=> OwnVerdict(s, q)
  BY <1>2, <1>4, <1>5 DEF OwnNow, OwnVerdict
<1>7. PrevNow(p, r) <=> \A t \in HeardNow(s, p) : tc'[t].tf_stop_crit
  <2>1. \A t \in Heard(s) : tc'[t].tf_stop_crit = tc[t].tf_stop_crit
    BY <1>1, HeardStays
  <2>2. r.tf_crit_prev <=> \A t \in Heard(s) : tc'[t].tf_stop_crit
    BY <1>2, <2>1
  <2>3. CASE p.kind = "crit"
    <3>1. HeardNow(s, p) = Heard(s) \cup {p.src[2]}
      BY <2>3 DEF HeardNow
    <3> QED BY <1>1, <2>2, <2>3, <3>1 DEF PrevNow
  <2>4. CASE p.kind # "crit"
    <3>1. HeardNow(s, p) = Heard(s)
      BY <2>4 DEF HeardNow
    <3> QED BY <2>2, <2>4, <3>1 DEF PrevNow
  <2> QED BY <2>3, <2>4
<1> QED BY <1>5, <1>6, <1>7 DEF FoundNow, r, q

CritCount(s) ==
  In(T(s), F) =>
    /\ tc[s].tf_crit_arrived = Cardinality(HandledKind("crit", T(s)))
    /\ tc[s].tf_crit_arrived \in Nat

CritCountAll == FlowAndMachine => \A s \in Sub : CritCount(s)

\* Of the criteria, too, a threshold core counts what it has handled,
LEMMA CritCountFact == CritCountAll
<1> SUFFICES ASSUME FlowAndMachine, NEW s \in Sub, In(T(s), F)
             PROVE  /\ tc[s].tf_crit_arrived = Cardinality(HandledKind("crit", T(s)))
                    /\ tc[s].tf_crit_arrived \in Nat
  BY DEF CritCountAll, CritCount
<1>1. T(s) \in Cores /\ TCoreOK(s) /\ T(s) \notin Behind
  BY TFacts DEF In
<1>2. HandledKind("crit", T(s)) = Into({"crit"}, T(s)) \cap Got
  BY <1>1, HandledKinds
<1>3. Cardinality(Into({"crit"}, T(s)) \cap Got) \in Nat
  BY CountsT, CountNat
<1> QED BY <1>1, <1>2, <1>3 DEF TCoreOK, GotInto

\* and what it takes in a FORWARD tick that goes on has not come before.
LEMMA TFTaken ==
  ASSUME AllTimely, FlowAndMachine, FlowAndMachine', [Flow!Next]_(Flow!vars),
         NEW s \in Sub, NEW p \in net, TTakes(s, p), TFStep(p, s), In(T(s), F)'
  PROVE  /\ Came("fwd", T(s))' = CameNow(s, p)
         /\ Heard(s)' = HeardNow(s, p)
<1> DEFINE a == T(s)
           l == LinkOf(p)
<1>1. /\ p.dst = a /\ InTime(tc[s], p) /\ p.kind \in {"fwd", "crit", "fsgn"}
      /\ Place(tc'[s]) = Place(tc[s]) /\ net \ {p} \subseteq net'
      /\ p.kind = "fwd" => tc'[s].tf_arrived = tc[s].tf_arrived + 1
      /\ p.kind = "crit" => tc'[s].tf_crit_arrived = tc[s].tf_crit_arrived + 1
  BY DEF TFStep, TFCounted, Keeps, TTakes
<1>2. a \in Cores /\ Rec(a) = tc[s] /\ Rec(a)' = tc'[s] /\ In(a, F)
  BY <1>1, TFacts, NotYet
<1>3. l[1] = p.kind /\ l[2] = p.src /\ l[4] = p.u
  BY LinkApart DEF LinkOf
<1>4. CoreStays(a) \/ CoreHandles(a, l)
  <2>1. \A q \in net : q.dst = a => q = p \/ q \in net'
    BY <1>1
  <2>2. Stamp(Rec(a)') = Stamp(Rec(a))
    BY <1>1, <1>2 DEF Place, Stamp
  <2> QED BY <1>2, <2>1, <2>2, CoreBy
<1>5. CASE p.kind = "fwd"
  <2>1. CoreHandles(a, l)
    BY <1>1, <1>5, TTaken
  <2>2. Came(l[1], a)' = Came(l[1], a) \cup {l[4]}
    BY <2>1, CameOne
  <2> QED BY <1>3, <1>5, <2>1, <2>2, HeardStep DEF CameNow, HeardNow
<1>6. CASE p.kind = "crit"
  <2>1. CritCount(s) /\ CritCount(s)'
    <3>1. CritCountAll'
      BY CritCountFact, PTL
    <3> QED BY <3>1, CritCountFact DEF CritCountAll
  <2>2. ~CoreStays(a)
    <3>1. CoreStays(a) => HandledKind("crit", a)' = HandledKind("crit", a)
      BY DEF CoreStays, HandledKind
    <3> QED BY <1>1, <1>2, <1>6, <2>1, <3>1 DEF CritCount
  <2>3. CoreHandles(a, l)
    BY <1>4, <2>2
  <2> QED BY <1>3, <1>6, <2>3, CameKept, HeardStep DEF CameNow, HeardNow
<1>7. CASE p.kind = "fsgn"
  BY <1>3, <1>4, <1>7, CameKept, HeardStep DEF CameNow, HeardNow
<1> QED BY <1>1, <1>5, <1>6, <1>7

\* The step that reports is the one that makes the verdict whole;
LEMMA ReportsNow ==
  ASSUME AllTimely, FlowAndMachine, FlowAndMachine',
         NEW s \in Sub, NEW p \in net, TFStep(p, s), In(T(s), F)'
  PROVE  /\ Reported(s)' <=> TFReports(p, s)
         /\ IsLast(s) => ~TFReports(p, s)
<1> DEFINE q == tc'[s]
           G == Got \cup {LinkOf(p)}
           init == tf_thrds_init(s)
<1>1. /\ TFReports(p, s) <=> init \subseteq TFDoneBy(s, q, G)
      /\ q.tf_crit_arrived = Cardinality(Into({"crit"}, T(s)) \cap G)
  BY TFBoardsStep DEF TFBoards
<1>2. IsLast(s) => ~TFReports(p, s)
  <2>1. IsLast(s) /\ TFReports(p, s) => tc'[LastSub].advance
    BY DEF TFStep, TFCounted, IsLast
  <2>2. tc'[LastSub].advance => LastT \in Behind'
    BY DEF Behind
  <2> QED BY <2>1, <2>2 DEF In, LastT, IsLast
<1>3. ASSUME ~IsLast(s)
      PROVE  Reported(s)' <=> TFReports(p, s)
  <2>1. init = {"PROC"} \cup (IF crit_expected(s) = 0 THEN {} ELSE {"CRIT"})
    BY <1>3 DEF tf_thrds_init
  <2>2. crit_expected(s) = 0 => q.tf_crit_arrived = 0
    BY <1>1, CountsT, FS_EmptySet DEF Counts
  <2>3. Reported(s)' <=> q.tf_arrived = Units /\ q.tf_crit_arrived = crit_expected(s)
    BY <1>3 DEF Reported, CritWhole
  <2>4. init \subseteq TFDoneBy(s, q, G) <=>
          q.tf_arrived = Units /\ (crit_expected(s) = 0 \/ q.tf_crit_arrived = crit_expected(s))
    <3> HIDE DEF q, G, init
    <3> QED BY <2>1 DEF TFDoneBy
  <2> QED BY <1>1, <2>2, <2>3, <2>4
<1> QED BY <1>2, <1>3 DEF Reported

\* tf_process, t_criterion_packet, t_fsgn_packet
LEMMA CriteriaCounted ==
  ASSUME AllTimely, FlowAndMachine, FlowAndMachine', [Flow!Next]_(Flow!vars), [Next]_vars,
         NEW s \in Sub, CriteriaOK(s), NEW p \in net, VerdictOK(p), TTakes(s, p),
         TForward(p) \/ TCrit(p) \/ TFsgn(p)
  PROVE  CriteriaOK(s)'
<1> DEFINE r == tc[s]
           q == tc'[s]
<1>1. TFStep(p, s)
  BY VerdictStep
<1>2. PICK v \in BOOLEAN : TFVerdict(p, s, v) /\ FoundNow(s, p, v)
  BY <1>1, VerdictStep, VerdictNow
<1>3. /\ q.tf_crit_prev = PrevNow(p, r)
      /\ ~TFReports(p, s) => q.tf_stop_crit = OwnNow(r, v)
      /\ TFReports(p, s) /\ ~IsLast(s) => q.tf_stop_crit = (OwnNow(r, v) /\ PrevNow(p, r))
      /\ TFReports(p, s) => q.tf_stop_crit \in BOOLEAN
  BY <1>1, <1>2 DEF TFVerdict, TFStep, TFCounted
<1>4. OwnNow(r, v) \in BOOLEAN /\ PrevNow(p, r) \in BOOLEAN
  BY DEF OwnNow, PrevNow
<1>5. /\ q.tf_met \in [Unit -> BOOLEAN]
      /\ ~IsOutput(s) => \A u \in Unit : q.tf_met[u]
      /\ \A u \in Unit : u \notin CameNow(s, p) => q.tf_met[u]
      /\ OwnNow(r, v) <=> OwnVerdict(s, q)
      /\ PrevNow(p, r) <=> \A t \in HeardNow(s, p) : tc'[t].tf_stop_crit
  BY <1>2 DEF FoundNow
<1>6. q.tf_stop_crit \in BOOLEAN /\ q.tf_crit_prev \in BOOLEAN
  BY <1>3, <1>4
<1>7. q.phase # B
  <2>1. In(T(s), F) /\ q.phase = r.phase /\ Rec(T(s)) = r
    BY <1>1, NotYet, TFacts DEF TFStep, TFCounted
  <2> QED BY <2>1 DEF In, F, B
<1>8. ASSUME In(T(s), F)'
      PROVE  /\ \A u \in Unit : u \notin Came("fwd", T(s))' => q.tf_met[u]
             /\ q.tf_crit_prev <=> \A t \in Heard(s)' : tc'[t].tf_stop_crit
             /\ q.tf_stop_crit <=> OwnVerdict(s, q) /\ (Reported(s)' => q.tf_crit_prev)
  <2>1. Came("fwd", T(s))' = CameNow(s, p) /\ Heard(s)' = HeardNow(s, p)
    BY <1>1, <1>8, TFTaken
  <2>2. (Reported(s)' <=> TFReports(p, s)) /\ (IsLast(s) => ~TFReports(p, s))
    BY <1>1, <1>8, ReportsNow
  <2> HIDE DEF r, q
  <2>3. CASE TFReports(p, s)
    BY <1>3, <1>5, <2>1, <2>2, <2>3
  <2>4. CASE ~TFReports(p, s)
    BY <1>3, <1>5, <2>1, <2>2, <2>4
  <2> QED BY <2>3, <2>4
<1> QED BY <1>5, <1>6, <1>7, <1>8 DEF CriteriaOK

(***************************************************************************)
(* The advance: nothing is found of the next tick yet.                     *)
(***************************************************************************)
NothingFound(r) ==
  /\ r.tf_met \in [Unit -> BOOLEAN] /\ (\A u \in Unit : r.tf_met[u])
  /\ r.tf_crit_prev = TRUE /\ r.tf_stop_crit = TRUE

FoundFields == {"tf_met", "tf_crit_prev", "tf_stop_crit"}

LEMMA FreshStays ==
  ASSUME NEW r, DOMAIN r = TFields, NothingFound(r), NEW q, NEW X, Frame(r, q, X), FoundFields \cap X = {}
  PROVE  NothingFound(q) /\ DOMAIN q = TFields
<1>1. FoundFields \subseteq TFields \ X
  BY DEF FoundFields, TFields
<1>2. q.tf_met = r.tf_met /\ q.tf_crit_prev = r.tf_crit_prev /\ q.tf_stop_crit = r.tf_stop_crit
  BY <1>1 DEF Frame, FoundFields
<1> QED BY <1>2 DEF NothingFound, Frame

\* tf_advance_tick and tb_advance_tick, on what is found
LEMMA AdvanceFresh ==
  ASSUME NEW s \in Sub, DOMAIN tc = Sub, NEW r, TShape(r), r.phase \in {F, B},
         NEW b, THalfClear(s, r), TAdvances(s, r, b), r.phase = B => NothingFound(r)
  PROVE  NothingFound(tc'[s])
<1>1. PICK t : t = TTickInit(s, r)
  OBVIOUS
<1>2. F # B
  BY DEF F, B
<1>3. Frame(r, t, TBoardFields) /\ DOMAIN t = TFields /\ DOMAIN r = TFields
  BY <1>1, TTickInitFacts DEF TShape, TFields
<1>4. t.phase = r.phase
  BY <1>3 DEF Frame, TBoardFields, TFields, StartFields
<1>5. NothingFound(t)
  <2>1. CASE r.phase = F
    <3>1. t = [r EXCEPT !.tf_thrds_pend = tf_thrds_init(s), !.tf_arrived = 0,
            !.tf_crit_arrived = 0, !.tf_crit_prev = TRUE, !.tf_stop_crit = TRUE,
            !.tf_met = [u \in Unit |-> TRUE]]
      BY <1>1, <2>1 DEF TTickInit, TFTickInit
    <3>2. t.tf_met = [u \in Unit |-> TRUE] /\ t.tf_crit_prev = TRUE /\ t.tf_stop_crit = TRUE
      BY <1>3, <3>1 DEF TFields, StartFields
    <3> QED BY <3>2 DEF NothingFound
  <2>2. CASE r.phase # F
    <3>1. t = [r EXCEPT !.tb_thrds_pend = tb_thrds_init(s), !.tb_arrived = 0,
            !.tb_bsgn_arrived = 0, !.tb_procs = 1 - @]
      BY <1>1, <2>2 DEF TTickInit, TBTickInit
    <3>2. Frame(r, t, {"tb_thrds_pend", "tb_arrived", "tb_bsgn_arrived", "tb_procs"})
      BY <1>3, <3>1 DEF Frame
    <3> QED BY <1>3, <2>2, <3>2, FreshStays DEF FoundFields
  <2> QED BY <2>1, <2>2
<1>6. ASSUME NEW x, DOMAIN x = TFields, NothingFound(x)
      PROVE  NothingFound(t_advance_example(s, x))
  <2>1. Frame(x, t_advance_example(s, x), TExampleFields)
    BY <1>6, TAdvanceExampleFacts
  <2> QED BY <1>6, <2>1, FreshStays DEF FoundFields, TExampleFields, ExampleFields
<1>7. CASE r.phase = F
  <2>1. PICK e : e = IF ~IsLast(s) THEN t
                     ELSE [t EXCEPT !.tf_event_crit = @ /\ t.tf_group_crit /\ t.ev_tick >= MinTicks,
                                    !.max_evt = t.evt]
    OBVIOUS
  <2>2. Frame(t, e, {"tf_event_crit", "max_evt"})
    BY <1>3, <2>1 DEF Frame
  <2>3. NothingFound(e) /\ DOMAIN e = TFields
    BY <1>3, <1>5, <2>2, FreshStays DEF FoundFields
  <2>4. \/ tc' = [tc EXCEPT ![s] = [t EXCEPT !.tick = @ + 1, !.ev_tick = @ + 1]]
        \/ tc' = [tc EXCEPT ![s] = [e EXCEPT !.evt = @ + 1, !.tick = @ + 1,
                                             !.ev_tick = INIT_TICK]]
        \/ tc' = [tc EXCEPT ![s] = t_switch_to_bp([e EXCEPT !.evt = @ + 1])]
        \/ tc' = [tc EXCEPT ![s] = t_advance_example(s, [e EXCEPT !.tick = INIT_TICK, !.ev_tick = INIT_TICK])]
    BY <1>1, <1>7, <2>1 DEF TAdvances, TFAdvance
  <2>5. ASSUME NEW y, DOMAIN y = TFields, NothingFound(y), NEW q, q = t_switch_to_bp(y)
        PROVE  NothingFound(q)
    <3>1. PICK z : z = [u \in Unit |-> Zero]
      OBVIOUS
    <3>2. q = [y EXCEPT !.phase = B, !.tb_pending = TRUE, !.t_errors[y.tb_procs] = z]
      BY <2>5, <3>1 DEF t_switch_to_bp
    <3>3. Frame(y, q, {"phase", "tb_pending", "t_errors"})
      BY <2>5, <3>2 DEF Frame
    <3> QED BY <2>5, <3>3, FreshStays DEF FoundFields
  <2>6. ASSUME NEW v, DOMAIN v = TFields, NothingFound(v), NEW y,
               \/ y = [v EXCEPT !.tick = @ + 1, !.ev_tick = @ + 1]
               \/ y = [v EXCEPT !.evt = @ + 1, !.tick = @ + 1, !.ev_tick = INIT_TICK]
               \/ y = [v EXCEPT !.evt = @ + 1]
               \/ y = [v EXCEPT !.tick = INIT_TICK, !.ev_tick = INIT_TICK]
        PROVE  NothingFound(y) /\ DOMAIN y = TFields
    <3>1. Frame(v, y, {"tick", "ev_tick", "evt"})
      BY <2>6 DEF Frame
    <3> QED BY <2>6, <3>1, FreshStays DEF FoundFields
  <2>7. \E q : tc' = [tc EXCEPT ![s] = q] /\ NothingFound(q)
    <3>1. CASE tc' = [tc EXCEPT ![s] = [t EXCEPT !.tick = @ + 1, !.ev_tick = @ + 1]]
      BY <1>3, <1>5, <2>6, <3>1
    <3>2. CASE tc' = [tc EXCEPT ![s] = [e EXCEPT !.evt = @ + 1, !.tick = @ + 1,
                                                 !.ev_tick = INIT_TICK]]
      BY <2>3, <2>6, <3>2
    <3>3. CASE tc' = [tc EXCEPT ![s] = t_switch_to_bp([e EXCEPT !.evt = @ + 1])]
      BY <2>3, <2>5, <2>6, <3>3
    <3>4. CASE tc' = [tc EXCEPT ![s] = t_advance_example(s, [e EXCEPT !.tick = INIT_TICK,
                                                                      !.ev_tick = INIT_TICK])]
      BY <1>6, <2>3, <2>6, <3>4
    <3> QED BY <2>4, <3>1, <3>2, <3>3, <3>4
  <2> QED BY <2>7
<1>8. CASE r.phase = B
  <2>1. tc' = [tc EXCEPT ![s] =
              IF t.tick = END_TICK THEN t_advance_example(s, AfterBackprop(s, t))
              ELSE [t EXCEPT !.tick = @ - 1, !.tb_pending = TRUE,
                             !.t_outputs = t.t_output_history[t.tick - 1]]]
    BY <1>1, <1>2, <1>8 DEF TAdvances, TBAdvance
  <2>2. NothingFound(t_advance_example(s, AfterBackprop(s, t)))
    <3>1. PICK x : x = AfterBackprop(s, t)
      OBVIOUS
    <3>2. Frame(t, x, {"tick", "ev_tick", "phase", "tf_example_crit"})
      BY <1>3, <3>1 DEF AfterBackprop, Frame
    <3>3. NothingFound(x) /\ DOMAIN x = TFields
      BY <1>3, <1>5, <3>2, FreshStays DEF FoundFields
    <3> QED BY <1>6, <3>1, <3>3
  <2>3. ASSUME NEW q, q = [t EXCEPT !.tick = @ - 1, !.tb_pending = TRUE,
                                    !.t_outputs = t.t_output_history[t.tick - 1]]
        PROVE  NothingFound(q)
    <3>1. Frame(t, q, {"tick", "tb_pending", "t_outputs"})
      BY <1>3, <2>3 DEF Frame
    <3> QED BY <1>3, <1>5, <3>1, FreshStays DEF FoundFields
  <2>4. \E q : tc' = [tc EXCEPT ![s] = q] /\ NothingFound(q)
    BY <2>1, <2>2, <2>3
  <2> QED BY <2>4
<1> QED BY <1>7, <1>8

\* Of a tick no packet of which has been taken, a core has found nothing.
LEMMA CriteriaFresh ==
  ASSUME NEW s \in Sub, NothingFound(tc[s]), Flow!Handled(T(s)) = {},
         Stamp(tc[s]) # <<0, 0, F, INIT_TICK>>
  PROVE  CriteriaOK(s)
<1> DEFINE r == tc[s]
<1>1. Heard(s) = {}
  BY DEF Heard, HandledKind
<1>2. /\ r.tf_met \in [Unit -> BOOLEAN] /\ (\A u \in Unit : r.tf_met[u])
      /\ r.tf_crit_prev = TRUE /\ r.tf_stop_crit = TRUE
  BY DEF NothingFound
<1>3. OwnVerdict(s, r) /\ FreshCriteria(r)
  BY <1>2 DEF OwnVerdict, FirstTick, FreshCriteria
<1> HIDE DEF r
<1> QED BY <1>1, <1>2, <1>3 DEF CriteriaOK, r

CriteriaFreshAll ==
  \A s \in Sub : /\ NothingFound(tc[s]) /\ Flow!Handled(T(s)) = {}
                 /\ Stamp(tc[s]) # <<0, 0, F, INIT_TICK>>
                 => CriteriaOK(s)

LEMMA CriteriaFreshFact == CriteriaFreshAll
  BY CriteriaFresh DEF CriteriaFreshAll

\* A threshold core advances: r is its record (of the last T, less the callback).
LEMMA CriteriaLeave ==
  ASSUME FlowAndMachine, [Flow!Next]_(Flow!vars), NEW s \in Sub, CriteriaOK(s), T(s) \in Behind,
         NEW r, TShape(r), Place(r) = Place(tc[s]), SameCriteria(tc[s], r), THalfClear(s, r),
         NEW b, Flow!MayLeave(Place(r), b), TAdvances(s, r, b),
         Place(tc'[s]) = Flow!NextPlace(Place(r), b)
  PROVE  CriteriaOK(s)'
<1> DEFINE q == tc'[s]
<1>1. T(s) \in Cores /\ Rec(T(s)) = tc[s] /\ Rec(T(s))' = q /\ DOMAIN tc = Sub
  BY TFacts
<1>2. r.phase \in {F, B} /\ r.phase = tc[s].phase
  BY TInPlace DEF InPlace, Place
<1>3. r.phase = B => NothingFound(r)
  <2>1. tc[s].phase = B => FreshCriteria(tc[s])
    BY CriteriaFields
  <2>2. /\ tc[s].tf_met \in [Unit -> BOOLEAN]
        /\ tc[s].tf_stop_crit \in BOOLEAN /\ tc[s].tf_crit_prev \in BOOLEAN
    BY CriteriaFields
  <2> QED BY <1>2, <2>1, <2>2 DEF SameCriteria, FreshCriteria, NothingFound
<1>4. NothingFound(q)
  BY <1>1, <1>2, <1>3, AdvanceFresh
<1>5. Flow!Handled(T(s))' = {}
  <2>1. Place(q) # Place(r)
    BY MachineGraph, Flow!NextPlaceFacts
  <2>2. ~CoreStays(T(s)) /\ \A l : ~CoreHandles(T(s), l)
    BY <1>1, <2>1 DEF CoreStays, CoreHandles
  <2> QED BY <1>1, <2>2, CoreSteps
<1>6. Stamp(q) # <<0, 0, F, INIT_TICK>>
  <2>1. Flow!Stamp(Place(q)) # Flow!Stamp(Flow!First)
    BY MachineGraph, Flow!NotFirstAgain
  <2>2. Flow!Stamp(Place(q)) = Stamp(q)
    BY DEF Flow!Stamp, Place, Stamp
  <2>3. Flow!Stamp(Flow!First) = <<0, 0, F, INIT_TICK>>
    BY DEF Flow!Stamp, Flow!First, F, INIT_TICK
  <2> QED BY <2>1, <2>2, <2>3
<1>7. CriteriaFreshAll'
  BY CriteriaFreshFact, PTL
<1> QED BY <1>4, <1>5, <1>6, <1>7 DEF CriteriaFreshAll

\* tf_advance_tick, tb_advance_tick of a core that is told to,
LEMMA CriteriaGo ==
  ASSUME FlowAndMachine, [Flow!Next]_(Flow!vars), NEW s \in Sub, CriteriaOK(s),
         NEW p \in net, TTakes(s, p), TStop(p) \/ TSync(p)
  PROVE  CriteriaOK(s)'
<1> DEFINE r == tc[s]
           b == tc[LastSub].tick_stop
<1>1. /\ p.dst = T(s) /\ p.dst[2] = s /\ UNCHANGED <<wc, sc, ic>>
      /\ p.kind \in {"stop", "sync"} /\ net' = net \ {p}
      /\ p.kind = "stop" => TFAdvance(s, r, p.b)
      /\ p.kind = "sync" => TBAdvance(s, r)
  BY CoresApart DEF TTakes, TStop, TSync
<1>2. T(s) \in Cores /\ Rec(T(s)) = r /\ TShape(r) /\ TCoreOK(s) /\ DOMAIN tc = Sub
  BY TFacts
<1>3. PacketOK(p)
  BY DEF FlowAndMachine, MachineInv, NetOK
<1>4. T(s) \in Behind /\ T(s) # LastT
  BY <1>1, <1>3 DEF PacketOK, Behind, Heading
<1>5. IF r.phase = F THEN p.kind = "stop" /\ p.b = b ELSE p.kind = "sync"
  BY <1>1, <1>2, <1>3 DEF PacketOK
<1>6. TAdvances(s, r, b)
  BY <1>1, <1>5 DEF TAdvances
<1>7. Flow!MayLeave(Place(r), b) /\ \A ph : ~In(T(s), ph)
  BY <1>2, <1>4, BehindFacts
<1>8. THalfClear(s, r) /\ ~r.tb_pending
  BY <1>2, <1>7 DEF TCoreOK, THalfClear
<1>9. TAdvanced(s, r, b, tc'[s])
  BY <1>2, <1>6, <1>7, <1>8, TAdvanceRecord
<1>10. Place(tc'[s]) = Flow!NextPlace(Place(r), b)
  BY <1>9 DEF TAdvanced
<1>11. SameCriteria(r, r)
  BY DEF SameCriteria
<1> HIDE DEF b
<1> QED BY <1>2, <1>4, <1>6, <1>7, <1>8, <1>10, <1>11, CriteriaLeave

\* and of the last one.
LEMMA CriteriaCallback ==
  ASSUME FlowAndMachine, [Flow!Next]_(Flow!vars), CriteriaOK(LastSub), TAdvance
  PROVE  CriteriaOK(LastSub)'
<1> DEFINE r == LastRec
           b == LastRec.tick_stop
<1>1. /\ LastSub \in Sub /\ LastT = T(LastSub) /\ LastT \in Behind
      /\ TShape(r) /\ Place(r) = Place(tc[LastSub]) /\ Flow!MayLeave(Place(r), b)
      /\ THalfClear(LastSub, r)
  BY TAdvanceFacts, LastRecFacts
<1>2. TAdvances(LastSub, r, b)
  <2>1. F # B
    BY DEF F, B
  <2> QED BY <2>1 DEF TAdvance, TAdvances, LastRec
<1>3. Place(tc'[LastSub]) = Flow!NextPlace(Place(r), b)
  BY TAdvanceFacts DEF TAdvanced, NewRec
<1>4. SameCriteria(tc[LastSub], r)
  <2>1. DOMAIN tc[LastSub] = TFields
    BY <1>1, TFacts DEF TShape, TFields
  <2>2. Frame(tc[LastSub], r, {"advance"})
    BY <2>1 DEF LastRec, Frame
  <2> QED BY <1>1, <2>1, <2>2 DEF Frame, SameCriteria, TFields, StartFields
<1> HIDE DEF r, b
<1> QED BY <1>1, <1>2, <1>3, <1>4, CriteriaLeave

\* Every step, for all threshold cores.
LEMMA CriteriaStep ==
  ASSUME AllTimely, FlowAndMachine, FlowAndMachine', [Flow!Next]_(Flow!vars), CriteriaInv,
         [Next]_vars, NEW s \in Sub
  PROVE  CriteriaOK(s)'
<1>1. CriteriaOK(s) /\ \A p \in net : VerdictOK(p)
  BY DEF CriteriaInv
<1>2. CASE TLeft(s) \/ TProcess(s)
  <2>1. PICK p : p = Pkt("stpn", T(s), T(s), 0, FALSE, Zero)
    OBVIOUS
  <2>2. p.kind = "stpn"
    BY <2>1 DEF Pkt
  <2>3. SameCriteria(tc[s], tc'[s])
    BY <1>2, CriteriaAlone
  <2>4. \A q \in net : q.dst = T(s) => q = p \/ q \in net'
    BY <1>2 DEF TLeft, TProcess
  <2> QED BY <1>1, <2>2, <2>3, <2>4, CriteriaKept
<1>3. CASE TAdvance /\ s = LastSub
  BY <1>1, <1>3, CriteriaCallback
<1>4. ASSUME NEW p \in net, TTakes(s, p)
      PROVE  CriteriaOK(s)'
  <2>1. CASE TForward(p) \/ TCrit(p) \/ TFsgn(p)
    BY <1>1, <1>4, <2>1, CriteriaCounted
  <2>2. CASE TStop(p) \/ TSync(p)
    BY <1>1, <1>4, <2>2, CriteriaGo
  <2>3. CASE TError(p) \/ TBsgn(p) \/ TNetStop(p)
    <3>1. p.kind \notin {"fwd", "crit"}
      BY <2>3 DEF TError, TBsgn, TNetStop
    <3>2. SameCriteria(tc[s], tc'[s])
      BY <1>4, <2>3, CriteriaAlone
    <3>3. \A q \in net : q.dst = T(s) => q = p \/ q \in net'
      BY <1>4 DEF TTakes
    <3> QED BY <1>1, <3>1, <3>2, <3>3, CriteriaKept
  <2> QED BY <1>4, <2>1, <2>2, <2>3 DEF TTakes, TPacket
<1> QED BY <1>2, <1>3, <1>4, TSteps

(***************************************************************************)
(* Criterion packets.                                                      *)
(***************************************************************************)
\* the step sends no criterion packet
NoNewCrit == \A q \in net' : q.kind = "crit" => q \in net

\* The cores of the other kinds send none,
LEMMA CritElsewhere ==
  ASSUME WNext \/ SNext \/ INext
  PROVE  NoNewCrit
<1>1. ASSUME NEW c \in WCores, WProcess(c)
      PROVE  NoNewCrit
  <2>1. PICK N : N = {Pkt("fwd", c, S(c[2]), u, FALSE, Stamp(wc[c])) : u \in Unit}
    OBVIOUS
  <2>2. net' = net \cup N
    BY <1>1, <2>1 DEF WProcess
  <2>3. \A q \in N : q.kind = "fwd"
    BY <2>1 DEF Pkt
  <2> QED BY <2>2, <2>3 DEF NoNewCrit
<1>2. ASSUME NEW p \in net, WPacket(p)
      PROVE  NoNewCrit
  <2>1. CASE WForward(p)
    <3>1. PICK q : q = Pkt("fsgn", p.dst, S(p.dst[2]), 0, FALSE, p.st)
      OBVIOUS
    <3>2. net' = (net \ {p}) \cup {q} \/ net' = (net \ {p}) \cup {}
      BY <2>1, <3>1, Zenon DEF WForward
    <3> QED BY <3>1, <3>2 DEF Pkt, NoNewCrit
  <2>2. CASE WBackprop(p)
    <3> DEFINE c == p.dst
               r == wc[p.dst]
    <3>1. PICK N : N = {Pkt("bkp", c, S(c[3]), i, FALSE, Stamp(r)) : i \in Unit}
      OBVIOUS
    <3>2. PICK q : q = Pkt("lds", c, S(c[2]), p.u, FALSE, Stamp(r))
      OBVIOUS
    <3>3. \E X \in {N, {}}, Y \in {{q}, {}} : net' = (net \ {p}) \cup X \cup Y
      BY <2>2, <3>1, <3>2, Zenon DEF WBackprop
    <3>4. PICK X \in {N, {}}, Y \in {{q}, {}} : net' = (net \ {p}) \cup (X \cup Y)
      BY <3>3
    <3>5. \A x \in X \cup Y : x.kind \in {"bkp", "lds"}
      BY <3>1, <3>2, <3>4 DEF Pkt
    <3> QED BY <3>4, <3>5 DEF NoNewCrit
  <2>3. CASE WLdsa(p) \/ WStop(p) \/ WSync(p) \/ WNetStop(p)
    <3>1. net' = (net \ {p}) \cup {}
      BY <2>3 DEF WLdsa, WStop, WSync, WNetStop
    <3> QED BY <3>1 DEF NoNewCrit
  <2> QED BY <1>2, <2>1, <2>2, <2>3 DEF WPacket
<1>3. ASSUME NEW p \in net, SPacket(p)
      PROVE  NoNewCrit
  <2>1. \A s, r, t, st : \A q \in SBReport(s, r, t, st) : q.kind = "bsgn"
    BY DEF SBReport, Multicast, Pkt
  <2>2. CASE SForward(p)
    <3>1. PICK q : q = Pkt("fwd", p.dst, I(p.dst[2]), p.u, FALSE, p.st)
      OBVIOUS
    <3>2. net' = (net \ {p}) \cup {q} \/ net' = (net \ {p}) \cup {}
      BY <2>2, <3>1, Zenon DEF SForward
    <3> QED BY <3>1, <3>2 DEF Pkt, NoNewCrit
  <2>3. CASE SBackprop(p)
    <3>1. PICK q : q = Pkt("bkp", p.dst, T(p.dst[2]), p.u, FALSE, p.st)
      OBVIOUS
    <3>2. \A x \in net' : x \in net \/ x = q \/ \E s, r, t, st : x \in SBReport(s, r, t, st)
      BY <2>3, <3>1, Zenon DEF SBackprop
    <3>3. q.kind = "bkp"
      BY <3>1 DEF Pkt
    <3> QED BY <2>1, <3>2, <3>3 DEF NoNewCrit
  <2>4. CASE SLds(p)
    <3>1. PICK N : N = Multicast("lds", p.dst, LdsRoute(p.dst[2]), 0, FALSE, p.st)
      OBVIOUS
    <3>2. \A x \in net' : x \in net \/ x \in N \/ \E s, r, t, st : x \in SBReport(s, r, t, st)
      BY <2>4, <3>1, Zenon DEF SLds
    <3>3. \A x \in N : x.kind = "lds"
      BY <3>1 DEF Multicast, Pkt
    <3> QED BY <2>1, <3>2, <3>3 DEF NoNewCrit
  <2>5. CASE SFsgn(p)
    <3>1. PICK N : N = Multicast("fsgn", p.dst, FsgRoute(p.dst[2]), 0, FALSE, p.st)
      OBVIOUS
    <3>2. net' = (net \ {p}) \cup N \/ net' = (net \ {p}) \cup {}
      BY <2>5, <3>1, Zenon DEF SFsgn
    <3> QED BY <3>1, <3>2 DEF Multicast, Pkt, NoNewCrit
  <2>6. CASE SBsgn(p)
    <3>1. \E s, r, t, st : \/ net' = (net \ {p}) \cup SBReport(s, r, t, st)
                          \/ net' = (net \ {p}) \cup {}
      BY <2>6, Zenon DEF SBsgn
    <3> QED BY <2>1, <3>1 DEF NoNewCrit
  <2>7. CASE SStop(p) \/ SSync(p) \/ SNetStop(p)
    <3>1. net' = (net \ {p}) \cup {}
      BY <2>7 DEF SStop, SSync, SNetStop
    <3> QED BY <3>1 DEF NoNewCrit
  <2> QED BY <1>3, <2>2, <2>3, <2>4, <2>5, <2>6, <2>7 DEF SPacket
<1>4. ASSUME NEW p \in net, IPacket(p)
      PROVE  NoNewCrit
  <2>1. CASE IForward(p)
    <3>1. PICK q : q = Pkt("fwd", p.dst, T(p.dst[2]), p.u, FALSE, p.st)
      OBVIOUS
    <3>2. net' = (net \ {p}) \cup {q}
      BY <2>1, <3>1 DEF IForward
    <3> QED BY <3>1, <3>2 DEF Pkt, NoNewCrit
  <2>2. CASE IBackprop(p)
    <3>1. PICK N : N = Multicast("bkp", p.dst, {W(p.dst[2], from) : from \in Sub}, p.u, FALSE, p.st)
      OBVIOUS
    <3>2. net' = (net \ {p}) \cup N
      BY <2>2, <3>1 DEF IBackprop
    <3> QED BY <3>1, <3>2 DEF Multicast, Pkt, NoNewCrit
  <2>3. CASE IStop(p) \/ ISync(p) \/ INetStop(p)
    <3>1. net' = (net \ {p}) \cup {}
      BY <2>3 DEF IStop, ISync, INetStop
    <3> QED BY <3>1 DEF NoNewCrit
  <2> QED BY <1>4, <2>1, <2>2, <2>3 DEF IPacket
<1> QED BY <1>1, <1>2, <1>3, <1>4 DEF WNext, SNext, INext

\* and those that do have just ended their threads.
LEMMA NewCrit ==
  ASSUME AllTimely, FlowAndMachine, CriteriaInv, [Next]_vars, ~NoNewCrit
  PROVE  \E s \in Sub, p \in net :
           /\ TTakes(s, p) /\ (TForward(p) \/ TCrit(p) \/ TFsgn(p))
           /\ TFStep(p, s)
           /\ \A q \in net' \ net : q.kind = "crit" =>
                q.src = T(s) /\ q.b = tc'[s].tf_stop_crit
<1>1. TNext /\ UNCHANGED <<wc, sc, ic>>
  <2>1. ~UNCHANGED vars
    BY DEF vars, NoNewCrit
  <2> QED BY <2>1, CritElsewhere DEF Next, Terminated
<1>2. ~TAdvance
  <2>1. \A q \in LastNotices : q.kind = "stpn"
    BY DEF LastNotices, Multicast, Pkt
  <2> QED BY <2>1, TAdvanceFacts DEF NoNewCrit
<1>3. ASSUME NEW s \in Sub, TProcess(s)
      PROVE  FALSE
  <2>1. PICK N : N = {Pkt("bkp", T(s), I(s), u, FALSE, Stamp(tc[s])) : u \in Unit}
    OBVIOUS
  <2>2. net' = net \cup N
    BY <1>3, <2>1 DEF TProcess
  <2>3. \A q \in N : q.kind = "bkp"
    BY <2>1 DEF Pkt
  <2> QED BY <2>2, <2>3 DEF NoNewCrit
<1>4. PICK p \in net : TPacket(p)
  BY <1>1, <1>2, <1>3 DEF TNext
<1>5. TForward(p) \/ TCrit(p) \/ TFsgn(p)
  <2>1. \A s, r, t : \A q \in TBReport(s, r, t) : q.kind \in {"sync", "bsgn"}
    BY DEF TBReport, Multicast, Pkt
  <2>2. ASSUME TError(p) \/ TBsgn(p)
        PROVE  \A x \in net' : x \in net \/ \E s, r, t : x \in TBReport(s, r, t)
    BY <2>2, Zenon DEF TError, TBsgn
  <2>3. ~(TError(p) \/ TBsgn(p))
    BY <2>1, <2>2 DEF NoNewCrit
  <2>4. ~(TStop(p) \/ TSync(p) \/ TNetStop(p))
    BY DEF TStop, TSync, TNetStop, NoNewCrit
  <2> QED BY <1>4, <2>3, <2>4 DEF TPacket
<1>6. PICK s \in Sub : p.dst = T(s)
  BY <1>5, TAddress DEF TForward, TCrit, TFsgn
<1>7. net \ {p} \subseteq net'
  BY <1>5 DEF TForward, TCrit, TFsgn
<1>8. TTakes(s, p)
  BY <1>1, <1>4, <1>6, <1>7 DEF TTakes
<1>9. TFStep(p, s)
  BY <1>5, <1>8, VerdictStep DEF CriteriaInv
<1>10. ASSUME NEW q \in net' \ net, q.kind = "crit"
       PROVE  q.src = T(s) /\ q.b = tc'[s].tf_stop_crit
  <2>1. q \in (IF p.kind = "fwd"
               THEN Multicast("fwd", T(s), {W(to, s) : to \in Sub}, p.u, FALSE, p.st) ELSE {})
         \/ q \in (IF TFReports(p, s)
               THEN Multicast(IF IsLast(s) THEN "stop" ELSE "crit", T(s), StpRoute(s), 0,
                              tc'[s].tf_stop_crit, p.st)
               ELSE {})
    BY <1>9, <1>10 DEF TFStep
  <2> QED BY <1>10, <2>1 DEF Multicast, Pkt
<1> QED BY <1>5, <1>8, <1>9, <1>10

\* A criterion packet holds what its sender has found.
LEMMA VerdictsStep ==
  ASSUME AllTimely, FlowAndMachine, CriteriaInv, [Next]_vars, NEW q \in net'
  PROVE  VerdictOK(q)'
<1> SUFFICES ASSUME q.kind = "crit"
             PROVE  q.b = tc'[q.src[2]].tf_stop_crit
  BY DEF VerdictOK
<1>1. CASE q \in net
  <2> DEFINE l == LinkOf(q)
  <2>1. q.b = tc[q.src[2]].tf_stop_crit
    BY <1>1 DEF CriteriaInv, VerdictOK
  <2>2. l \in Sent /\ l \in AllLinks
    BY <1>1 DEF FlowAndMachine, MachineInv, NetOK, PacketOK, Awaits, Sent
  <2>3. l[1] = "crit" /\ l[2] = q.src
    BY LinkApart DEF LinkOf
  <2>4. PICK t \in Sub : t # LastSub /\ l[2] = T(t) /\ l[2][2] = t
    BY <2>2, <2>3, CritLinks
  <2> QED BY <2>1, <2>2, <2>3, <2>4, VerdictStays
<1>2. CASE q \notin net
  <2>1. PICK s \in Sub : q.src = T(s) /\ q.b = tc'[s].tf_stop_crit
    BY <1>2, NewCrit DEF NoNewCrit
  <2> QED BY <2>1, CoresApart
<1> QED BY <1>1, <1>2

LEMMA CriteriaInvStep ==
  ASSUME AllTimely, LongPhases, FlowAndMachine, CriteriaInv, [Next]_vars
  PROVE  CriteriaInv'
<1>1. FlowAndMachine' /\ [Flow!Next]_(Flow!vars)
  BY StepFlow
<1>2. ASSUME NEW s \in Sub
      PROVE  CriteriaOK(s)'
  BY <1>1, CriteriaStep
<1> QED BY <1>2, VerdictsStep DEF CriteriaInv

\* In the first tick nothing has been found, and no packet is about.
LEMMA InitCriteria == Init => CriteriaInv
<1> SUFFICES ASSUME Init, NEW s \in Sub
             PROVE  CriteriaOK(s)
  BY DEF Init, CriteriaInv
<1>0. PICK r : r = tc[s]
  OBVIOUS
<1>1. Place(r) = Flow!First
  BY <1>0, TStarts DEF Init
<1>2. r.phase = F /\ F # B /\ FirstTick(r)
  BY <1>1 DEF Place, Flow!First, F, B, INIT_TICK, FirstTick, Stamp
<1>3. /\ r.tf_met = [u \in Unit |-> TRUE]
      /\ r.tf_crit_prev = TRUE /\ r.tf_stop_crit = IsOutput(s)
      /\ r.tf_arrived = 0
  <2>1. r = TInitRecord(s)
    BY <1>0 DEF Init, TInit
  <2>2. DOMAIN Start = StartFields
    BY DEF Start, StartFields
  <2> QED BY <2>1, <2>2 DEF TInitRecord, Starting, StartFields
<1>4. Heard(s) = {}
  <2>1. Got = {} /\ Behind = {}
    BY InitFlow DEF Flow!Init
  <2>2. Flow!Handled(T(s)) = {}
    BY <2>1 DEF Flow!Handled
  <2> QED BY <2>2 DEF Heard, HandledKind
<1>5. IsOutput(s) \in BOOLEAN
  BY DEF IsOutput
<1>6. OwnVerdict(s, r) <=> IsOutput(s)
  BY <1>2, <1>3 DEF OwnVerdict
<1>7. r.tf_met \in [Unit -> BOOLEAN] /\ \A u \in Unit : r.tf_met[u]
  BY <1>3
<1>8. ~Reported(s)
  <2>1. Units # 0
    BY GraphAssumption
  <2> QED BY <1>0, <1>3, <2>1 DEF Reported, CritWhole
<1> QED BY <1>0, <1>2, <1>3, <1>4, <1>5, <1>6, <1>7, <1>8 DEF CriteriaOK

\* In a FORWARD tick every threshold core holds the verdict on the outputs it
\* has computed and the conjunction of those it has heard of, and every
\* criterion packet the verdict of its sender.
THEOREM CriteriaInvariant ==
  ASSUME AllTimely, LongPhases
  PROVE  Spec => [](FlowAndMachine /\ CriteriaInv)
<1>1. Init => FlowAndMachine /\ CriteriaInv
  BY InitInv, InitCriteria
<1>2. FlowAndMachine /\ CriteriaInv /\ [Next]_vars => (FlowAndMachine /\ CriteriaInv)'
  BY StepFlow, CriteriaInvStep
<1> QED BY <1>1, <1>2, PTL DEF Spec

(***************************************************************************)
(* The decision of the last T.                                             *)
(***************************************************************************)
\* When it decides, all other threshold cores have reported, and have been
\* heard from;
LEMMA AllReported ==
  ASSUME AllTimely, FlowAndMachine, [Next]_vars, NEW p \in net, VerdictOK(p),
         TFStep(p, LastSub), TFReports(p, LastSub)
  PROVE  /\ \A s \in Sub : T(s) \notin Behind /\ In(T(s), F) /\ Stamp(tc[s]) = Stamp(tc[LastSub])
         /\ \A s \in Sub : s # LastSub => /\ tc'[s] = tc[s]
                                          /\ Reported(s) /\ Heard(s) = HeadsTo(s)
         /\ HeardNow(LastSub, p) = HeadsTo(LastSub)
<1> DEFINE l == LinkOf(p)
<1>1. LastSub \in Sub /\ LastT = T(LastSub) /\ DOMAIN tc = Sub
  BY LastSubFacts, TFacts DEF LastT
<1>2. /\ TFBoards(p, LastSub, tc'[LastSub], Got \cup {l}) /\ cur[3] = F /\ Awaits(p)
  BY <1>1, TFBoardsStep
<1>3. LastPacket(p)
  <2>1. p.dst = LastT /\ InTime(tc[LastSub], p)
    BY <1>1 DEF TFStep
  <2>2. Into({"fwd", "crit", "fsgn"}, LastT) \subseteq Got \cup {l}
    BY <1>1, <1>2 DEF TFBoards
  <2>3. Awaited(cur) = Into({"fwd", "crit", "fsgn"}, LastT)
    BY <1>2 DEF Awaited, Into
  <2> QED BY <1>2, <2>1, <2>2, <2>3 DEF LastPacket
<1>4. /\ Behind = {} /\ Sent = LinksOf(cur) /\ Got \cup {l} = LinksOf(cur)
      /\ \A c \in Cores : Place(Rec(c)) = cur /\ Rec(c).phase = cur[3]
  BY <1>3, LastPacketFacts
<1>5. LinksOf(cur) = ForwardLinks
  BY <1>2 DEF LinksOf
<1>6. ASSUME NEW s \in Sub
      PROVE  T(s) \notin Behind /\ In(T(s), F) /\ Stamp(tc[s]) = Stamp(tc[LastSub])
  <2>1. /\ T(s) \in Cores /\ Rec(T(s)) = tc[s]
        /\ T(LastSub) \in Cores /\ Rec(T(LastSub)) = tc[LastSub]
    BY <1>1, TFacts
  <2>2. Place(tc[s]) = cur /\ Place(tc[LastSub]) = cur /\ tc[s].phase = F
    BY <1>2, <1>4, <2>1
  <2> QED BY <1>4, <2>1, <2>2 DEF In, Place, Stamp
<1>7. ASSUME NEW t \in Sub, t # LastSub
      PROVE  CritT(t, T(HeadOf(t))) \in ForwardLinks
  <2>1. T(HeadOf(t)) \in StpRoute(t)
    BY <1>7, StpRouteFacts
  <2>2. 0 \in Unit
    BY UnitFacts
  <2> QED BY <1>7, <2>1, <2>2, ForwardIntro
<1>8. l[1] = p.kind /\ l[2] = p.src /\ l[3] = LastT
  BY <1>3, LinkApart DEF LinkOf, LastPacket
<1>9. ASSUME NEW s \in Sub, s # LastSub
      PROVE  /\ tc'[s] = tc[s]
             /\ Reported(s) /\ Heard(s) = HeadsTo(s)
  <2>1. tc'[s] = tc[s]
    BY <1>1, <1>9 DEF TFStep
  <2>2. Due(CritT(s, T(HeadOf(s))))
    BY <1>4, <1>5, <1>7, <1>9 DEF Sent
  <2>3. CritWhole(s)
    BY <1>1, <2>2, DueByLink, UnitFacts DEF DueTable
  <2>4. Reported(s)
    BY <1>9, <2>3 DEF Reported, IsLast
  <2>5. ASSUME NEW t \in HeadsTo(s)
        PROVE  CritT(t, T(s)) \in Got
    <3>1. CritT(t, T(s)) \in Got \cup {l}
      BY <1>4, <1>5, <1>7, <2>5 DEF HeadsTo
    <3>2. CritT(t, T(s))[3] = T(s) /\ T(s) # LastT
      BY <1>1, <1>9, LinkTable, CoresApart
    <3> QED BY <1>8, <3>1, <3>2
  <2>6. Heard(s) = HeadsTo(s)
    BY <1>6, <2>5, HeardFacts
  <2> QED BY <2>1, <2>4, <2>6
<1>10. HeardNow(LastSub, p) = HeadsTo(LastSub)
  <2>1. Heard(LastSub) = {t \in HeadsTo(LastSub) : CritT(t, LastT) \in Got}
    BY <1>1, <1>6, HeardFacts
  <2>2. p.kind = "crit" => p.src[2] \in HeadsTo(LastSub)
    BY <1>1, PacketNow
  <2>3. ASSUME NEW t \in HeadsTo(LastSub), CritT(t, LastT) \notin Got
        PROVE  p.kind = "crit" /\ p.src[2] = t
    <3>1. CritT(t, LastT) \in Got \cup {l}
      BY <1>1, <1>4, <1>5, <1>7, <2>3 DEF HeadsTo
    <3>2. l = CritT(t, LastT)
      BY <2>3, <3>1
    <3>3. l[1] = "crit" /\ l[2] = T(t)
      BY <3>2, LinkTable
    <3> QED BY <1>8, <3>3, CoresApart
  <2> QED BY <2>1, <2>2, <2>3 DEF HeardNow
<1> QED BY <1>6, <1>9, <1>10

\* the verdict of the last one and of those it hears is then that of all.
LEMMA WholeVerdict ==
  ASSUME NEW v, NEW own, NEW prev,
         \A s \in Sub : s # LastSub =>
           /\ prev[s] <=> \A t \in HeadsTo(s) : v[t]
           /\ v[s] <=> own[s] /\ prev[s]
  PROVE  own[LastSub] /\ (\A t \in HeadsTo(LastSub) : v[t]) <=> \A s \in Sub : own[s]
<1>1. LastSub \in Sub
  BY LastSubFacts
<1>2. ASSUME NEW s \in Sub, s # LastSub, HeadOf(s) # LastSub
      PROVE  HeadsTo(s) = {}
  BY <1>2, StpRouteFacts DEF HeadsTo
<1>3. ASSUME NEW s \in Sub, s # LastSub, HeadOf(s) # LastSub
      PROVE  v[s] <=> own[s]
  BY <1>2, <1>3
<1>4. ASSUME own[LastSub], \A t \in HeadsTo(LastSub) : v[t], NEW s \in Sub
      PROVE  own[s]
  <2>1. CASE s = LastSub
    BY <1>4, <2>1
  <2>2. CASE s # LastSub /\ HeadOf(s) = LastSub
    BY <1>4, <2>2 DEF HeadsTo
  <2>3. CASE s # LastSub /\ HeadOf(s) # LastSub
    <3>1. PICK t \in Sub : t = HeadOf(s)
      BY <2>3, StpRouteFacts
    <3>2. t # LastSub /\ HeadOf(t) = LastSub
      BY <2>3, <3>1, StpRouteFacts
    <3>3. v[t] /\ prev[t]
      BY <1>4, <3>2 DEF HeadsTo
    <3>4. v[s]
      BY <2>3, <3>1, <3>2, <3>3 DEF HeadsTo
    <3> QED BY <2>3, <3>4
  <2> QED BY <2>1, <2>2, <2>3
<1>5. ASSUME \A s \in Sub : own[s], NEW t \in HeadsTo(LastSub)
      PROVE  v[t]
  <2>1. t \in Sub /\ t # LastSub
    BY DEF HeadsTo
  <2>2. ASSUME NEW x \in HeadsTo(t)
        PROVE  v[x]
    <3>1. x \in Sub /\ x # LastSub /\ HeadOf(x) # LastSub
      BY <2>1 DEF HeadsTo
    <3> QED BY <1>3, <1>5, <3>1
  <2> QED BY <1>5, <2>1, <2>2
<1> QED BY <1>1, <1>4, <1>5

LEMMA VerdictOfAll ==
  ASSUME AllTimely, FlowAndMachine, CriteriaInv, [Next]_vars, NEW p \in net,
         TFStep(p, LastSub), TFReports(p, LastSub), NEW w \in BOOLEAN, FoundNow(LastSub, p, w)
  PROVE  OwnNow(tc[LastSub], w) /\ PrevNow(p, tc[LastSub])
           <=> CriteriaMet /\ ~FirstTick(tc'[LastSub])
<1> DEFINE v == [s \in Sub |-> tc'[s].tf_stop_crit]
           own == [s \in Sub |-> OwnVerdict(s, tc'[s])]
           prev == [s \in Sub |-> tc'[s].tf_crit_prev]
<1>1. LastSub \in Sub
  BY LastSubFacts
<1>2. /\ \A s \in Sub : In(T(s), F) /\ Stamp(tc[s]) = Stamp(tc[LastSub])
      /\ \A s \in Sub : s # LastSub => /\ tc'[s] = tc[s]
                                       /\ Reported(s) /\ Heard(s) = HeadsTo(s)
      /\ HeardNow(LastSub, p) = HeadsTo(LastSub)
  BY AllReported DEF CriteriaInv
<1>3. \A s : HeadsTo(s) \subseteq Sub \ {LastSub}
  BY DEF HeadsTo
<1>4. ASSUME NEW s \in Sub, s # LastSub
      PROVE  /\ tc'[s].tf_crit_prev <=> \A t \in HeadsTo(s) : tc'[t].tf_stop_crit
             /\ tc'[s].tf_stop_crit <=> OwnVerdict(s, tc'[s]) /\ tc'[s].tf_crit_prev
             /\ ~IsOutput(s) => \A u \in Unit : tc'[s].tf_met[u]
  <2>1. CriteriaOK(s)
    BY DEF CriteriaInv
  <2>2. /\ tc[s].tf_crit_prev <=> \A t \in Heard(s) : tc[t].tf_stop_crit
        /\ tc[s].tf_stop_crit <=> OwnVerdict(s, tc[s]) /\ (Reported(s) => tc[s].tf_crit_prev)
        /\ ~IsOutput(s) => \A u \in Unit : tc[s].tf_met[u]
    BY <1>2, <2>1 DEF CriteriaOK
  <2>3. \A t \in HeadsTo(s) : tc'[t] = tc[t]
    BY <1>2, <1>3
  <2> QED BY <1>2, <1>4, <2>2, <2>3
<1>5. /\ OwnNow(tc[LastSub], w) <=> OwnVerdict(LastSub, tc'[LastSub])
      /\ PrevNow(p, tc[LastSub]) <=> \A t \in HeadsTo(LastSub) : tc'[t].tf_stop_crit
      /\ ~IsOutput(LastSub) => \A u \in Unit : tc'[LastSub].tf_met[u]
  BY <1>2 DEF FoundNow
<1>6. OwnNow(tc[LastSub], w) /\ PrevNow(p, tc[LastSub]) <=> \A s \in Sub : OwnVerdict(s, tc'[s])
  <2>1. \A s \in Sub : s # LastSub =>
          /\ prev[s] <=> \A t \in HeadsTo(s) : v[t]
          /\ v[s] <=> own[s] /\ prev[s]
    BY <1>3, <1>4
  <2>2. (\A t \in HeadsTo(LastSub) : v[t]) <=> \A t \in HeadsTo(LastSub) : tc'[t].tf_stop_crit
    BY <1>3
  <2>3. /\ own[LastSub] <=> OwnVerdict(LastSub, tc'[LastSub])
        /\ (\A s \in Sub : own[s]) <=> \A s \in Sub : OwnVerdict(s, tc'[s])
    BY <1>1
  <2> HIDE DEF own, prev, v
  <2>4. own[LastSub] /\ (\A t \in HeadsTo(LastSub) : v[t]) <=> \A s \in Sub : own[s]
    BY <2>1, WholeVerdict
  <2> QED BY <1>5, <2>2, <2>3, <2>4
<1>7. \A s \in Sub : FirstTick(tc'[s]) <=> FirstTick(tc'[LastSub])
  <2>1. Stamp(tc'[LastSub]) = Stamp(tc[LastSub])
    <3>1. Place(tc'[LastSub]) = Place(tc[LastSub])
      BY DEF TFStep, TFCounted, Keeps
    <3> QED BY <3>1 DEF Place, Stamp
  <2>2. ASSUME NEW s \in Sub
        PROVE  Stamp(tc'[s]) = Stamp(tc'[LastSub])
    BY <1>2, <2>1
  <2> QED BY <2>2 DEF FirstTick
<1>8. PICK o \in Sub : ~IsOutput(o)
  BY GraphAssumption DEF Groups, IsOutput
<1>9. \A s \in Sub : ~IsOutput(s) => \A u \in Unit : tc'[s].tf_met[u]
  BY <1>4, <1>5
<1> HIDE DEF v, own, prev
<1> QED BY <1>6, <1>7, <1>8, <1>9 DEF OwnVerdict, CriteriaMet

\* The last T decides when it counts a packet of the FORWARD tick.
LEMMA DecidesNow ==
  ASSUME AllTimely, FlowAndMachine, CriteriaInv, [Next]_vars, Decides
  PROVE  \E p \in net : /\ TTakes(LastSub, p) /\ (TForward(p) \/ TCrit(p) \/ TFsgn(p))
                        /\ TFStep(p, LastSub) /\ TFReports(p, LastSub)
<1> DEFINE s == LastSub
           r == tc[LastSub]
           q == tc'[LastSub]
<1>1. /\ s \in Sub /\ LastT = T(s) /\ T(s) \in Cores /\ Rec(T(s)) = r /\ TCoreOK(s)
      /\ DOMAIN tc = Sub /\ DOMAIN r = TFields
  BY LastSubFacts, TFacts DEF LastT, TShape, TFields
<1>2. r.phase = F /\ ~r.advance /\ q.advance /\ F # B
  BY DEF Decides, F, B
<1>3. ~(TLeft(s) \/ TProcess(s) \/ TAdvance)
  <2>1. TProcess(s) => q.advance = r.advance
    BY <1>1 DEF TProcess, TFields, StartFields
  <2> QED BY <1>2, <2>1 DEF TLeft, TAdvance
<1>4. PICK p \in net : TTakes(s, p)
  BY <1>1, <1>3, TSteps
<1>5. p.dst = T(s) /\ p.dst[2] = s
  BY <1>4, CoresApart DEF TTakes
<1>6. ~(TStop(p) \/ TSync(p))
  <2>1. PacketOK(p)
    BY DEF FlowAndMachine, MachineInv, NetOK
  <2> QED BY <1>1, <1>5, <2>1 DEF PacketOK, TStop, TSync
<1>7. ~TNetStop(p)
  <2>1. ASSUME TNetStop(p)
        PROVE  q.advance = r.advance
    <3>1. q = NetStop(r, p.b) /\ StartFields \subseteq DOMAIN r
      BY <1>1, <1>5, <2>1 DEF TNetStop, TFields
    <3>2. Frame(r, q, NetStopFields)
      BY <3>1, NetStopFacts DEF NetStopOf
    <3>3. "advance" \in DOMAIN r \ NetStopFields
      BY <1>1 DEF TFields, NetStopFields
    <3> QED BY <3>2, <3>3 DEF Frame
  <2> QED BY <1>2, <2>1
<1>8. ~(TError(p) \/ TBsgn(p))
  <2> SUFFICES ASSUME TError(p) \/ TBsgn(p)
               PROVE  FALSE
    OBVIOUS
  <2>1. p.kind \in {"bkp", "bsgn"} /\ InTime(r, p)
    BY <1>5 DEF TError, TBsgn
  <2>2. Awaits(p) /\ InTime(Rec(p.dst), p)
    BY <1>1, <1>5, <2>1 DEF Awaits
  <2>3. cur[3] = B /\ Place(r) = cur
    BY <1>1, <1>5, <2>1, <2>2, InTickLink
  <2> QED BY <1>2, <2>3 DEF Place
<1>9. TForward(p) \/ TCrit(p) \/ TFsgn(p)
  BY <1>4, <1>6, <1>7, <1>8 DEF TTakes, TPacket
<1>10. TFStep(p, s)
  BY <1>1, <1>4, <1>9, VerdictStep DEF CriteriaInv
<1>11. TFReports(p, s)
  BY <1>2, <1>10 DEF TFStep, TFCounted
<1> QED BY <1>4, <1>9, <1>10, <1>11

LEMMA InvDecision ==
  ASSUME AllTimely, FlowAndMachine, CriteriaInv, [Next]_vars
  PROVE  DecisionStep
<1> SUFFICES ASSUME Decides, NEW q, q = tc'[LastSub]
             PROVE  q.tick_stop = \/ Forced(q)
                                  \/ CriteriaMet /\ q.ev_tick >= MinTicks /\ ~FirstTick(q)
  BY DEF DecisionStep
<1> DEFINE r == tc[LastSub]
<1>1. LastSub \in Sub /\ IsLast(LastSub)
  BY LastSubFacts DEF IsLast
<1>2. PICK p \in net : /\ TTakes(LastSub, p) /\ (TForward(p) \/ TCrit(p) \/ TFsgn(p))
                       /\ TFStep(p, LastSub) /\ TFReports(p, LastSub)
  BY DecidesNow
<1>3. CriteriaOK(LastSub) /\ VerdictOK(p)
  BY <1>1 DEF CriteriaInv
<1>4. PICK v \in BOOLEAN : /\ TFVerdict(p, LastSub, v)
                           /\ v \/ (IsOutput(LastSub) /\ p.kind = "fwd")
  BY <1>1, <1>2, <1>3, VerdictStep
<1>5. FoundNow(LastSub, p, v)
  BY <1>1, <1>2, <1>3, <1>4, VerdictNow
<1>6. OwnNow(r, v) /\ PrevNow(p, r) <=> CriteriaMet /\ ~FirstTick(q)
  BY <1>2, <1>5, VerdictOfAll
<1>7. q.tick_stop = (Forced(r) \/ (OwnNow(r, v) /\ PrevNow(p, r) /\ r.ev_tick >= MinTicks))
  BY <1>1, <1>2, <1>4 DEF TFVerdict
<1>8. q.ev_tick = r.ev_tick /\ q.tick = r.tick
  BY <1>2 DEF TFStep, TFCounted, Keeps, Place
<1>9. (Forced(q) <=> Forced(r)) /\ (q.ev_tick >= MinTicks <=> r.ev_tick >= MinTicks)
  BY <1>8 DEF Forced
<1> HIDE DEF r
<1> QED BY <1>6, <1>7, <1>9

\* The last T stops the event if it must, or if every unit of every output group
\* has met its criterion in this tick (not in the first tick of the stage): the
\* criteria have come along the chain, complete and of this tick.
THEOREM DecisionIsSound ==
  ASSUME AllTimely, LongPhases
  PROVE  Spec => DecisionSound
<1>1. FlowAndMachine /\ CriteriaInv /\ [Next]_vars => [DecisionStep]_vars
  BY InvDecision
<1> QED BY <1>1, CriteriaInvariant, PTL DEF Spec, DecisionSound
=============================================================================
