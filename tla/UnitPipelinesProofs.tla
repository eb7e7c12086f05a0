------------------------- MODULE UnitPipelinesProofs -------------------------
(***************************************************************************)
(* The integrators hold what they should for every number of units, ticks, *)
(* examples and restarts, but for the units late in a restarted tick.      *)
(***************************************************************************)
EXTENDS UnitPipelines, SequenceTheorems, TLAPS

(***************************************************************************)
(* Chains of ticks: the one of a tick is that of the last, and the tick.   *)
(***************************************************************************)
Pairs == Int \X Int
Up(e, k) == [j \in 1 .. k |-> <<e, j>>]
Down(e, t, k) == [j \in 1 .. t - k |-> <<e, t + 1 - j>>]

LEMMA Appends ==
  ASSUME NEW n \in Nat, NEW g \in [1 .. n -> Pairs], NEW f \in [1 .. n + 1 -> Pairs],
         NEW p \in Pairs, \A i \in 1 .. n : f[i] = g[i], f[n + 1] = p
  PROVE  f = Append(g, p)
<1>1. f \in Seq(Pairs) /\ g \in Seq(Pairs)
  BY n + 1 \in Nat, SeqDef
<1>2. Len(f) = n + 1 /\ Len(g) = n
  BY <1>1, LenProperties
<1> DEFINE s == Append(g, p)
<1>3. /\ s \in Seq(Pairs) /\ Len(s) = n + 1
      /\ \A i \in 1 .. n : s[i] = g[i]
      /\ s[n + 1] = p
  BY <1>1, <1>2, AppendProperties
<1> HIDE DEF s
<1>4. \A i \in 1 .. n + 1 : f[i] = s[i]
  BY <1>3
<1>5. f = s
  BY <1>1, <1>2, <1>3, <1>4, SeqEqual
<1> QED BY <1>5 DEF s

LEMMA UpAppends ==
  ASSUME NEW e \in Int, NEW k \in Nat \ {0}
  PROVE  Up(e, k) = Append(Up(e, k - 1), <<e, k>>)
<1>1. /\ Up(e, k) \in [1 .. (k - 1) + 1 -> Pairs] /\ Up(e, k - 1) \in [1 .. k - 1 -> Pairs]
      /\ k - 1 \in Nat /\ <<e, k>> \in Pairs
      /\ \A i \in 1 .. k - 1 : Up(e, k)[i] = Up(e, k - 1)[i]
      /\ Up(e, k)[(k - 1) + 1] = <<e, k>>
  BY DEF Up, Pairs
<1> QED BY <1>1, Appends

LEMMA DownAppends ==
  ASSUME NEW e \in Int, NEW t \in Int, NEW k \in Int, k <= t
  PROVE  Down(e, t, k - 1) = Append(Down(e, t, k), <<e, k>>)
<1>1. /\ Down(e, t, k - 1) \in [1 .. (t - k) + 1 -> Pairs]
      /\ Down(e, t, k) \in [1 .. t - k -> Pairs]
      /\ t - k \in Nat /\ <<e, k>> \in Pairs
      /\ \A i \in 1 .. t - k : Down(e, t, k - 1)[i] = Down(e, t, k)[i]
      /\ Down(e, t, k - 1)[(t - k) + 1] = <<e, k>>
  BY DEF Down, Pairs
<1> QED BY <1>1, Appends

\* A phase starts with nothing integrated.
LEMMA EmptyChains ==
  ASSUME NEW e \in Int, NEW t \in Int
  PROVE  Up(e, 0) = <<>> /\ Down(e, t, t) = <<>>
BY DEF Up, Down

(***************************************************************************)
(* The state is well formed.                                               *)
(***************************************************************************)
\* BACKPROP goes back from the last tick of the FORWARD phase.
PhaseOK == phase = B => tick <= top /\ example <= NumExamples

TypeInv == TypeOK /\ PhaseOK

LEMMA TypeInit == Init => TypeInv
<1> SUFFICES ASSUME Init PROVE TypeInv
  OBVIOUS
<1>1. <<>> \in Chains /\ <<Unset>> \in Chains
  BY DEF Chains, Unset
<1>2. NoOutputs \in [Unit -> Outputs]
  BY DEF NoOutputs, Outputs
<1>3. 1 \in Ticks /\ F # B
  BY PipelineAssumption DEF Ticks, F, B
<1>4. last \in [Cell -> Chains] /\ saved \in [Cell -> Chains]
  BY <1>1 DEF Init
<1>5. /\ t_outputs \in [Unit -> Outputs]
      /\ t_output_history \in [Ticks -> [Unit -> Outputs]]
      /\ t_instant_outputs \in [Ticks -> [Unit -> Outputs]]
  BY <1>2 DEF Init
<1>6. /\ training \in BOOLEAN /\ enabled \subseteq {"I", "T"} /\ dlrv \in BOOLEAN
      /\ done \subseteq computed /\ computed \subseteq Cell /\ late \subseteq Cell
  BY DEF Init
<1>7. /\ example \in 1 .. NumExamples + 1 /\ phase \in {F, B} /\ tick \in Ticks
      /\ top \in 0 .. MaxTick /\ restarts \in 0 .. MaxRestarts
      /\ phase # B
  BY <1>3, PipelineAssumption DEF Init
<1> QED BY <1>4, <1>5, <1>6, <1>7 DEF TypeInv, TypeOK, PhaseOK

LEMMA IntegrateType ==
  ASSUME TypeInv, example <= NumExamples, NEW units \in SUBSET Cell, Integrate(units)
  PROVE  /\ last' \in [Cell -> Chains] /\ saved' \in [Cell -> Chains]
         /\ done' \subseteq computed' /\ computed' \subseteq Cell /\ late' \subseteq Cell
<1>1. Now \in Stamps \cup {Unset}
  BY DEF TypeInv, TypeOK, Now, Stamps
<1>2. saved' \in [Cell -> Chains]
  BY DEF TypeInv, TypeOK, Integrate, Save
<1>3. \A c \in Cell : Append(saved'[c], Now) \in Chains
  BY <1>1, <1>2, AppendProperties DEF Chains
<1>4. last' \in [Cell -> Chains]
  BY <1>2, <1>3 DEF TypeInv, TypeOK, Integrate
<1> QED BY <1>2, <1>4 DEF TypeInv, TypeOK, Integrate

LEMMA AdvanceExampleType ==
  ASSUME TypeInv, example <= NumExamples, AdvanceExample
  PROVE  /\ last' \in [Cell -> Chains] /\ saved' \in [Cell -> Chains]
         /\ late' \subseteq Cell /\ example' \in 1 .. NumExamples + 1
         /\ phase' = F /\ tick' \in Ticks /\ top' \in 0 .. MaxTick
<1>1. <<>> \in Chains
  BY DEF Chains
<1>2. 1 \in Ticks
  BY PipelineAssumption DEF Ticks
<1>3. last' \in [Cell -> Chains]
  BY <1>1 DEF TypeInv, TypeOK, AdvanceExample
<1> QED BY <1>2, <1>3, PipelineAssumption DEF TypeInv, TypeOK, AdvanceExample

LEMMA UnitCells ==
  ASSUME NEW u \in Unit
  PROVE  InFwd(u) \in Cell /\ OutFwd(u) \in Cell /\ OutBkp(u) \in Cell /\ InBkp(u) \in Cell
BY DEF Cell, InFwd, OutFwd, OutBkp, InBkp

LEMMA TypeStep == TypeInv /\ [Next]_vars => TypeInv'
<1> SUFFICES ASSUME TypeInv, [Next]_vars PROVE TypeInv'
  OBVIOUS
<1>0. F # B
  BY DEF F, B
<1>a. ASSUME example <= NumExamples, NEW units \in SUBSET Cell, Integrate(units),
             t_outputs' \in [Unit -> Outputs],
             t_output_history' \in [Ticks -> [Unit -> Outputs]],
             t_instant_outputs' \in [Ticks -> [Unit -> Outputs]]
      PROVE  TypeInv'
  <2>1. UNCHANGED <<training, enabled, restarts, example, phase, tick, top, dlrv>>
    BY <1>a DEF Integrate, stage_vars
  <2> QED BY <1>a, <2>1, IntegrateType DEF TypeInv, TypeOK, PhaseOK
<1>b. UNCHANGED output_vars =>
        /\ t_outputs' \in [Unit -> Outputs]
        /\ t_output_history' \in [Ticks -> [Unit -> Outputs]]
        /\ t_instant_outputs' \in [Ticks -> [Unit -> Outputs]]
  BY DEF output_vars, TypeInv, TypeOK
<1>1. ASSUME example <= NumExamples, NEW u \in Unit, if_process(u) PROVE TypeInv'
  <2>1. Integrate({InFwd(u)}) /\ UNCHANGED output_vars
    BY <1>1 DEF if_process
  <2> QED BY <1>1, <1>a, <1>b, <2>1, UnitCells
<1>2. ASSUME example <= NumExamples, NEW u \in Unit, tf_process(u) PROVE TypeInv'
  <2>1. Now \in Stamps
    BY <1>2 DEF TypeInv, TypeOK, Now, Stamps
  <2>2. Computed \in Outputs /\ Instant \in Outputs
    BY <2>1 DEF Computed, Instant, Outputs
  <2>3. t_outputs' \in [Unit -> Outputs]
    BY <1>2, <2>2 DEF tf_process, TypeInv, TypeOK
  <2>4. t_instant_outputs' \in [Ticks -> [Unit -> Outputs]]
    BY <1>2, <2>2 DEF tf_process, TypeInv, TypeOK
  <2>5. t_output_history' \in [Ticks -> [Unit -> Outputs]]
    BY <1>2, <2>2 DEF tf_process, TypeInv, TypeOK
  <2>6. Integrate({OutFwd(u)})
    BY <1>2 DEF tf_process
  <2> QED BY <1>2, <1>a, <2>3, <2>4, <2>5, <2>6, UnitCells
<1>3. ASSUME example <= NumExamples, NEW u \in Unit, ib_process(u) PROVE TypeInv'
  <2>1. Integrate({InBkp(u)}) /\ UNCHANGED output_vars
    BY <1>3 DEF ib_process
  <2> QED BY <1>3, <1>a, <1>b, <2>1, UnitCells
<1>4. ASSUME example <= NumExamples, tb_process PROVE TypeInv'
  <2>1. InstantOutputs \in [Unit -> Outputs]
    BY DEF InstantOutputs, TypeInv, TypeOK
  <2>2. /\ t_outputs' \in [Unit -> Outputs]
        /\ t_output_history' \in [Ticks -> [Unit -> Outputs]]
        /\ t_instant_outputs' \in [Ticks -> [Unit -> Outputs]]
    BY <1>4, <2>1 DEF tb_process, TypeInv, TypeOK
  <2>3. {OutBkp(u) : u \in Unit} \in SUBSET Cell
    BY UnitCells
  <2>4. Integrate({OutBkp(u) : u \in Unit})
    BY <1>4 DEF tb_process
  <2> QED BY <1>4, <1>a, <2>2, <2>3, <2>4
<1>5. ASSUME example <= NumExamples, NEW stop \in BOOLEAN, F_AdvanceTick(stop)
      PROVE  TypeInv'
  <2>1. /\ dlrv' = FALSE /\ done' = {} /\ computed' = {}
        /\ UNCHANGED <<training, enabled, restarts, t_outputs, t_output_history,
                       t_instant_outputs>>
    BY <1>5 DEF F_AdvanceTick, TickInit, stage_vars, output_vars
  <2>2. CASE ~stop /\ tick' = tick + 1 /\ UNCHANGED <<example, phase, top, last, saved, late>>
    <3>1. tick # MaxTick /\ phase = F
      BY <1>5, <2>2 DEF F_AdvanceTick
    <3>2. tick' \in Ticks
      BY <2>2, <3>1, PipelineAssumption DEF TypeInv, TypeOK, Ticks
    <3> QED BY <1>0, <2>1, <2>2, <3>1, <3>2 DEF TypeInv, TypeOK, PhaseOK
  <2>3. CASE phase' = B /\ top' = tick /\ UNCHANGED <<example, tick, last, saved, late>>
    <3>1. tick \in 1 .. MaxTick /\ tick \in 0 .. MaxTick /\ tick <= tick
      BY PipelineAssumption DEF TypeInv, TypeOK, Ticks
    <3> QED BY <1>5, <2>1, <2>3, <3>1 DEF TypeInv, TypeOK, PhaseOK
  <2>4. CASE AdvanceExample
    BY <1>0, <1>5, <2>1, <2>4, AdvanceExampleType DEF TypeInv, TypeOK, PhaseOK
  <2> QED BY <1>5, <2>2, <2>3, <2>4 DEF F_AdvanceTick
<1>6. ASSUME example <= NumExamples, B_AdvanceTick PROVE TypeInv'
  <2>1. /\ dlrv' = FALSE /\ done' = {} /\ computed' = {}
        /\ UNCHANGED <<training, enabled, restarts, t_output_history, t_instant_outputs>>
    BY <1>6 DEF B_AdvanceTick, TickInit, stage_vars
  <2>2. CASE AdvanceExample /\ UNCHANGED t_outputs
    BY <1>0, <1>6, <2>1, <2>2, AdvanceExampleType DEF TypeInv, TypeOK, PhaseOK
  <2>3. CASE /\ tick > 1 /\ tick' = tick - 1
             /\ t_outputs' = restore_outputs(tick - 1)
             /\ UNCHANGED <<example, phase, top, last, saved, late>>
    <3>1. tick - 1 \in Ticks /\ (tick <= top => tick - 1 <= top)
      BY <2>3, PipelineAssumption DEF TypeInv, TypeOK, Ticks
    <3>2. t_outputs' \in [Unit -> Outputs]
      BY <2>3, <3>1 DEF restore_outputs, TypeInv, TypeOK
    <3> QED BY <2>1, <2>3, <3>1, <3>2 DEF TypeInv, TypeOK, PhaseOK
  <2> QED BY <1>6, <2>2, <2>3 DEF B_AdvanceTick
<1>7. CASE Restart
  <2>1. restarts' \in 0 .. MaxRestarts
    BY <1>7, PipelineAssumption DEF Restart, TypeInv, TypeOK
  <2> QED BY <1>7, <2>1 DEF Restart, output_vars, TypeInv, TypeOK, PhaseOK
<1>8. CASE UNCHANGED vars
  BY <1>8 DEF vars, stage_vars, unit_vars, output_vars, TypeInv, TypeOK, PhaseOK
<1> QED BY <1>1, <1>2, <1>3, <1>4, <1>5, <1>6, <1>7, <1>8 DEF Next, Terminated

\* The state of the pipelines is well formed.
THEOREM PipelineTypes == Spec => []TypeOK
<1>1. TypeInv => TypeOK
  BY DEF TypeInv
<1> QED BY <1>1, TypeInit, TypeStep, PTL DEF Spec

(***************************************************************************)
(* What the integrators hold.  IntegratorExact is not inductive: what is   *)
(* integrated in a restarted tick depends on the values to recover from,   *)
(* the value a phase starts with on the last example, and that all units   *)
(* have been through both cores when a tick ends on the order of the       *)
(* computations.                                                           *)
(***************************************************************************)
\* A unit that has been computed in this tick can be computed again.
SavedExact ==
  \A c \in Cell \ late : (Active(c) /\ c \in computed) => saved[c] = Before

\* No unit has been computed before but in a tick that was restarted.
AttemptOK == ~dlrv => computed \subseteq done

\* The BACKPROP phase will start with nothing integrated.
FreshOK ==
  phase = F => \A c \in Cell : (c[1] \in enabled /\ c[2] = B) => last[c] = <<>>

\* A FORWARD value has been through the I core first, a BACKPROP value
\* through the T core.
OrderOK ==
  /\ \A u \in Unit : OutFwd(u) \in done => InFwd(u) \in done
  /\ \A u \in Unit : InBkp(u) \in done => OutBkp(u) \in done

ExactInv ==
  TypeInv /\ IntegratorExact /\ SavedExact /\ AttemptOK /\ FreshOK /\ OrderOK

LEMMA BeforeUp == phase = F => Before = Up(example, tick - 1)
  BY DEF Before, Up

LEMMA BeforeDown == phase = B => Before = Down(example, top, tick)
  BY DEF Before, Down, F, B

\* At the beginning of an example nothing has been integrated.
LEMMA NothingBefore ==
  ASSUME TypeInv, phase = F, tick = 1
  PROVE  Before = <<>>
<1>1. example \in Int
  BY DEF TypeInv, TypeOK
<1>2. Before = Up(example, 0)
  BY BeforeUp
<1> QED BY <1>1, <1>2, EmptyChains

\* The cells of a phase.
LEMMA PhaseCells ==
  ASSUME NEW c \in Cell
  PROVE  /\ c[3] \in Unit
         /\ c[2] = F => c = InFwd(c[3]) \/ c = OutFwd(c[3])
         /\ c[2] = B => c = InBkp(c[3]) \/ c = OutBkp(c[3])
         /\ c[2] = F \/ c[2] = B
         /\ F # B
BY DEF Cell, InFwd, OutFwd, InBkp, OutBkp, F, B

LEMMA ExactInit == Init => ExactInv
<1> SUFFICES ASSUME Init PROVE ExactInv
  OBVIOUS
<1>1. TypeInv
  BY TypeInit
<1>2. Before = <<>>
  BY <1>1, NothingBefore DEF Init
<1>3. IntegratorExact
  BY <1>2 DEF Init, IntegratorExact
<1>4. SavedExact /\ AttemptOK /\ FreshOK /\ OrderOK
  BY DEF Init, SavedExact, AttemptOK, FreshOK, OrderOK
<1> QED BY <1>1, <1>3, <1>4 DEF ExactInv

\* Computing units of this phase, in any attempt.
LEMMA IntegrateExact ==
  ASSUME ExactInv, NEW units \in SUBSET Cell, Integrate(units),
         \A c \in units : c[2] = phase
  PROVE  IntegratorExact' /\ SavedExact' /\ AttemptOK' /\ FreshOK'
<1>1. UNCHANGED <<enabled, example, phase, tick, top, dlrv>>
  BY DEF Integrate, stage_vars
<1>2. Before' = Before /\ Now' = Now /\ UpTo' = UpTo /\ \A c : Active(c)' <=> Active(c)
  BY <1>1 DEF Before, Now, UpTo, Active
<1>3. ASSUME NEW c \in Cell \ late', Active(c)
      PROVE  /\ last'[c] = IF c \in computed' THEN UpTo ELSE Before
             /\ c \in computed' => saved'[c] = Before
  <2>1. c \notin late
    BY <1>3 DEF Integrate
  <2>2. CASE c \in units
    <3>1. c \in Integrators(units)
      BY <1>3, <2>2 DEF Active, Integrators
    <3>2. saved'[c] = Save(c) /\ last'[c] = Append(saved'[c], Now) /\ c \in computed'
      BY <2>2, <3>1 DEF Integrate
    <3>3. Save(c) = Before
      <4>1. CASE dlrv
        <5>1. c \in computed
          BY <1>3, <2>2, <4>1 DEF Integrate
        <5> QED BY <1>3, <2>1, <4>1, <5>1 DEF ExactInv, SavedExact, Save
      <4>2. CASE ~dlrv
        <5>1. c \notin computed
          BY <2>2, <4>2 DEF Integrate, ExactInv, AttemptOK
        <5> QED BY <1>3, <2>1, <4>2, <5>1 DEF ExactInv, IntegratorExact, Save
      <4> QED BY <4>1, <4>2
    <3> QED BY <3>2, <3>3 DEF UpTo
  <2>3. CASE c \notin units
    <3>1. last'[c] = last[c] /\ saved'[c] = saved[c] /\ (c \in computed' <=> c \in computed)
      BY <2>3 DEF Integrate, Integrators
    <3> QED BY <1>3, <2>1, <3>1 DEF ExactInv, IntegratorExact, SavedExact
  <2> QED BY <2>2, <2>3
<1>4. IntegratorExact'
  BY <1>2, <1>3 DEF IntegratorExact
<1>5. SavedExact'
  BY <1>2, <1>3 DEF SavedExact
<1>6. AttemptOK'
  BY <1>1 DEF ExactInv, AttemptOK, Integrate
<1>7. FreshOK'
  <2> SUFFICES ASSUME phase = F, NEW c \in Cell, c[1] \in enabled, c[2] = B
               PROVE  last'[c] = <<>>
    BY <1>1 DEF FreshOK
  <2>1. c \notin units
    BY PhaseCells
  <2> QED BY <2>1 DEF ExactInv, FreshOK, Integrate, Integrators
<1> QED BY <1>4, <1>5, <1>6, <1>7

\* All the units of a tick that ends have been computed.
LEMMA AllComputed ==
  ASSUME ExactInv, \/ phase = F /\ \A u \in Unit : OutFwd(u) \in done
                   \/ phase = B /\ \A u \in Unit : InBkp(u) \in done
  PROVE  \A c \in Cell \ late : Active(c) => last[c] = UpTo
<1> SUFFICES ASSUME NEW c \in Cell \ late, Active(c) PROVE last[c] = UpTo
  OBVIOUS
<1>1. c \in done
  <2>1. c[2] = phase /\ c[3] \in Unit
    BY PhaseCells DEF Active
  <2>2. CASE phase = F /\ \A u \in Unit : OutFwd(u) \in done
    <3>1. c = InFwd(c[3]) \/ c = OutFwd(c[3])
      BY <2>1, <2>2, PhaseCells
    <3>2. OutFwd(c[3]) \in done
      BY <2>1, <2>2
    <3>3. InFwd(c[3]) \in done
      BY <2>1, <3>2 DEF ExactInv, OrderOK
    <3> QED BY <3>1, <3>2, <3>3
  <2>3. CASE phase = B /\ \A u \in Unit : InBkp(u) \in done
    <3>1. c = InBkp(c[3]) \/ c = OutBkp(c[3])
      BY <2>1, <2>3, PhaseCells
    <3>2. InBkp(c[3]) \in done
      BY <2>1, <2>3
    <3>3. OutBkp(c[3]) \in done
      BY <2>1, <3>2 DEF ExactInv, OrderOK
    <3> QED BY <3>1, <3>2, <3>3
  <2> QED BY <2>2, <2>3
<1>2. c \in computed
  BY <1>1 DEF ExactInv, TypeInv, TypeOK
<1> QED BY <1>2 DEF ExactInv, IntegratorExact

\* An example ends with its integrators reset.
LEMMA AdvanceExampleExact ==
  ASSUME ExactInv, TypeInv', AdvanceExample, UNCHANGED stage_vars, computed' = {}, done' = {}
  PROVE  IntegratorExact' /\ SavedExact' /\ AttemptOK' /\ FreshOK' /\ OrderOK'
<1>1. phase' = F /\ tick' = 1 /\ enabled' = enabled
  BY DEF AdvanceExample, stage_vars
<1>2. Before' = <<>>
  <2>1. example' \in Int
    BY DEF TypeInv, TypeOK
  <2>2. Before' = Up(example', 0)
    BY <1>1 DEF Before, Up
  <2> QED BY <2>1, <2>2, EmptyChains
<1>3. \A c \in Cell : c[1] \in enabled' => last'[c] = <<>>
  BY <1>1 DEF AdvanceExample
<1>4. IntegratorExact'
  BY <1>2, <1>3 DEF IntegratorExact, Active
<1>5. SavedExact' /\ AttemptOK' /\ OrderOK'
  BY DEF SavedExact, AttemptOK, OrderOK
<1>6. FreshOK'
  BY <1>3 DEF FreshOK
<1> QED BY <1>4, <1>5, <1>6

LEMMA ExactStep == ExactInv /\ [Next]_vars => ExactInv'
<1> SUFFICES ASSUME ExactInv, [Next]_vars PROVE ExactInv'
  OBVIOUS
<1>0. TypeInv' /\ F # B
  BY TypeStep DEF ExactInv, F, B
<1>1. ASSUME NEW u \in Unit, if_process(u) PROVE ExactInv'
  <2>1. Integrate({InFwd(u)}) /\ InFwd(u)[2] = phase
    BY <1>1 DEF if_process, InFwd
  <2>2. IntegratorExact' /\ SavedExact' /\ AttemptOK' /\ FreshOK'
    BY <2>1, UnitCells, IntegrateExact
  <2>3. OrderOK'
    BY <2>1 DEF ExactInv, OrderOK, Integrate, InFwd, OutFwd, InBkp, OutBkp, F, B
  <2> QED BY <1>0, <2>2, <2>3 DEF ExactInv
<1>2. ASSUME NEW u \in Unit, tf_process(u) PROVE ExactInv'
  <2>1. Integrate({OutFwd(u)}) /\ OutFwd(u)[2] = phase /\ InFwd(u) \in done
    BY <1>2 DEF tf_process, OutFwd
  <2>2. IntegratorExact' /\ SavedExact' /\ AttemptOK' /\ FreshOK'
    BY <2>1, UnitCells, IntegrateExact
  <2>3. OrderOK'
    <3>1. done' = done \cup {OutFwd(u)}
      BY <2>1 DEF Integrate
    <3>2. \A v \in Unit : OutFwd(v) \in done' => InFwd(v) \in done'
      <4> TAKE v \in Unit
      <4>1. CASE v = u
        BY <2>1, <3>1, <4>1
      <4>2. CASE v # u
        <5>1. OutFwd(v) # OutFwd(u)
          BY <4>2 DEF OutFwd
        <5> QED BY <3>1, <5>1 DEF ExactInv, OrderOK
      <4> QED BY <4>1, <4>2
    <3>3. \A v \in Unit : InBkp(v) \in done' => OutBkp(v) \in done'
      <4>1. \A v \in Unit : InBkp(v) # OutFwd(u)
        BY DEF InBkp, OutFwd, F, B
      <4> QED BY <3>1, <4>1 DEF ExactInv, OrderOK
    <3> QED BY <3>2, <3>3 DEF OrderOK
  <2> QED BY <1>0, <2>2, <2>3 DEF ExactInv
<1>3. ASSUME NEW u \in Unit, ib_process(u) PROVE ExactInv'
  <2>1. Integrate({InBkp(u)}) /\ InBkp(u)[2] = phase /\ OutBkp(u) \in done
    BY <1>3 DEF ib_process, InBkp
  <2>2. IntegratorExact' /\ SavedExact' /\ AttemptOK' /\ FreshOK'
    BY <2>1, UnitCells, IntegrateExact
  <2>3. OrderOK'
    <3>1. done' = done \cup {InBkp(u)}
      BY <2>1 DEF Integrate
    <3>2. \A v \in Unit : InBkp(v) \in done' => OutBkp(v) \in done'
      <4> TAKE v \in Unit
      <4>1. CASE v = u
        BY <2>1, <3>1, <4>1
      <4>2. CASE v # u
        <5>1. InBkp(v) # InBkp(u)
          BY <4>2 DEF InBkp
        <5> QED BY <3>1, <5>1 DEF ExactInv, OrderOK
      <4> QED BY <4>1, <4>2
    <3>3. \A v \in Unit : OutFwd(v) \in done' => InFwd(v) \in done'
      <4>1. \A v \in Unit : OutFwd(v) # InBkp(u)
        BY DEF OutFwd, InBkp, F, B
      <4> QED BY <3>1, <4>1 DEF ExactInv, OrderOK
    <3> QED BY <3>2, <3>3 DEF OrderOK
  <2> QED BY <1>0, <2>2, <2>3 DEF ExactInv
<1>4. CASE tb_process
  <2> DEFINE all == {OutBkp(u) : u \in Unit}
  <2>1. Integrate(all) /\ all \in SUBSET Cell /\ \A c \in all : c[2] = phase
    BY <1>4, UnitCells DEF tb_process, OutBkp
  <2>2. IntegratorExact' /\ SavedExact' /\ AttemptOK' /\ FreshOK'
    BY <2>1, IntegrateExact
  <2>3. OrderOK'
    <3>1. done' = done \cup all
      BY <2>1 DEF Integrate
    <3>2. \A u \in Unit : OutFwd(u) \notin all /\ InBkp(u) \notin all
      BY DEF OutFwd, OutBkp, InBkp, F, B
    <3> QED BY <3>1, <3>2 DEF ExactInv, OrderOK
  <2> QED BY <1>0, <2>2, <2>3 DEF ExactInv
<1>5. ASSUME NEW stop \in BOOLEAN, F_AdvanceTick(stop) PROVE ExactInv'
  <2>1. /\ done' = {} /\ computed' = {} /\ enabled' = enabled /\ UNCHANGED stage_vars
        /\ phase = F
    BY <1>5 DEF F_AdvanceTick, TickInit, stage_vars
  <2>2. \A c \in Cell \ late : Active(c) => last[c] = UpTo
    BY <1>5, AllComputed DEF F_AdvanceTick
  <2>3. SavedExact' /\ AttemptOK' /\ OrderOK'
    BY <2>1 DEF SavedExact, AttemptOK, OrderOK
  <2>4. example \in Int /\ tick \in Nat \ {0}
    BY DEF ExactInv, TypeInv, TypeOK, Ticks
  <2>5. CASE ~stop /\ tick' = tick + 1 /\ UNCHANGED <<example, phase, top, last, saved, late>>
    <3>1. UpTo = Append(Up(example, tick - 1), <<example, tick>>)
      BY <2>1, BeforeUp DEF UpTo, Now
    <3>2. Before' = Up(example, tick)
      BY <2>1, <2>4, <2>5 DEF Before, Up
    <3>3. Before' = UpTo
      BY <2>4, <3>1, <3>2, UpAppends
    <3>4. IntegratorExact'
      BY <2>1, <2>2, <2>5, <3>3 DEF IntegratorExact, Active
    <3>5. FreshOK'
      BY <2>1, <2>5 DEF ExactInv, FreshOK
    <3> QED BY <1>0, <2>3, <3>4, <3>5 DEF ExactInv
  <2>6. CASE phase' = B /\ top' = tick /\ UNCHANGED <<example, tick, last, saved, late>>
    <3>1. Before' = Down(example, tick, tick)
      BY <1>0, <2>6 DEF Before, Down
    <3>2. Before' = <<>>
      BY <2>4, <3>1, EmptyChains
    <3>3. IntegratorExact'
      BY <2>1, <2>6, <3>2 DEF IntegratorExact, Active, ExactInv, FreshOK
    <3>4. FreshOK'
      BY <1>0, <2>6 DEF FreshOK
    <3> QED BY <1>0, <2>3, <3>3, <3>4 DEF ExactInv
  <2>7. CASE AdvanceExample
    BY <1>0, <2>1, <2>7, AdvanceExampleExact DEF ExactInv
  <2> QED BY <1>5, <2>5, <2>6, <2>7 DEF F_AdvanceTick
<1>6. CASE B_AdvanceTick
  <2>1. /\ done' = {} /\ computed' = {} /\ enabled' = enabled /\ UNCHANGED stage_vars
        /\ phase = B
    BY <1>6 DEF B_AdvanceTick, TickInit, stage_vars
  <2>2. \A c \in Cell \ late : Active(c) => last[c] = UpTo
    BY <1>6, AllComputed DEF B_AdvanceTick
  <2>3. SavedExact' /\ AttemptOK' /\ OrderOK'
    BY <2>1 DEF SavedExact, AttemptOK, OrderOK
  <2>4. CASE AdvanceExample
    BY <1>0, <2>1, <2>4, AdvanceExampleExact DEF ExactInv
  <2>5. CASE tick' = tick - 1 /\ UNCHANGED <<example, phase, top, last, saved, late>>
    <3>1. example \in Int /\ top \in Int /\ tick \in Int /\ tick <= top
      BY <2>1 DEF ExactInv, TypeInv, TypeOK, PhaseOK, Ticks
    <3>2. UpTo = Append(Down(example, top, tick), <<example, tick>>)
      BY <2>1, BeforeDown DEF UpTo, Now
    <3>3. Before' = Down(example, top, tick - 1)
      BY <1>0, <2>1, <2>5 DEF Before, Down
    <3>4. Before' = UpTo
      BY <3>1, <3>2, <3>3, DownAppends
    <3>5. IntegratorExact'
      BY <2>1, <2>2, <2>5, <3>4 DEF IntegratorExact, Active
    <3>6. FreshOK'
      BY <1>0, <2>1, <2>5 DEF FreshOK
    <3> QED BY <1>0, <2>3, <3>5, <3>6 DEF ExactInv
  <2> QED BY <1>6, <2>4, <2>5 DEF B_AdvanceTick
<1>7. CASE Restart
  <2>1. UNCHANGED <<enabled, example, phase, tick, top, last, saved, computed, late>>
    BY <1>7 DEF Restart
  <2>2. Before' = Before /\ UpTo' = UpTo /\ \A c : Active(c)' <=> Active(c)
    BY <2>1 DEF Before, UpTo, Now, Active
  <2>3. IntegratorExact' /\ SavedExact' /\ FreshOK'
    BY <2>1, <2>2 DEF ExactInv, IntegratorExact, SavedExact, FreshOK
  <2>4. AttemptOK' /\ OrderOK'
    BY <1>7 DEF Restart, AttemptOK, OrderOK
  <2> QED BY <1>0, <2>3, <2>4 DEF ExactInv
<1>8. CASE UNCHANGED vars
  <2>1. UNCHANGED <<enabled, example, phase, tick, top, dlrv, last, saved, done, computed, late>>
    BY <1>8 DEF vars, stage_vars, unit_vars
  <2>2. Before' = Before /\ UpTo' = UpTo /\ \A c : Active(c)' <=> Active(c)
    BY <2>1 DEF Before, UpTo, Now, Active
  <2> QED BY <1>0, <2>1, <2>2
          DEF ExactInv, IntegratorExact, SavedExact, AttemptOK, FreshOK, OrderOK
<1> QED BY <1>1, <1>2, <1>3, <1>4, <1>5, <1>6, <1>7, <1>8 DEF Next, Terminated

\* However often ticks are restarted, an integrator holds each tick of the
\* phase once and in order, if each was first computed before its restart.
THEOREM IntegratorsExact == Spec => []IntegratorExact
<1>1. ExactInv => IntegratorExact
  BY DEF ExactInv
<1> QED BY <1>1, ExactInit, ExactStep, PTL DEF Spec

(***************************************************************************)
(* The outputs a BACKPROP tick computes with.                              *)
(***************************************************************************)
\* what tf_process has left of a unit's output of a tick
Output(k) == <<<<example, k>>, IF "T" \in enabled THEN "integrated" ELSE "instant">>

Kept(k, u) ==
  /\ "T" \in enabled => t_instant_outputs[k][u] = <<<<example, k>>, "instant">>
  /\ training => t_output_history[k][u] = Output(k)

ForwardKept ==
  phase = F =>
    /\ \A k \in 1 .. tick - 1, u \in Unit : Kept(k, u)
    /\ \A u \in Unit : OutFwd(u) \in done => Kept(tick, u) /\ t_outputs[u] = Output(tick)

BackpropKept ==
  phase = B =>
    /\ training
    /\ \A k \in 1 .. tick, u \in Unit : Kept(k, u)
    /\ "T" \notin enabled => \A u \in Unit : t_outputs[u] = Instant

OutputInv == TypeInv /\ ForwardKept /\ BackpropKept /\ DerivativeOfTick

LEMMA OutputInit == Init => OutputInv
<1> SUFFICES ASSUME Init PROVE OutputInv
  OBVIOUS
<1>1. TypeInv
  BY TypeInit
<1>2. phase = F /\ tick = 1 /\ done = {}
  BY DEF Init
<1> QED BY <1>1, <1>2 DEF OutputInv, ForwardKept, BackpropKept, DerivativeOfTick, F, B

LEMMA OutputStep == OutputInv /\ [Next]_vars => OutputInv'
<1> SUFFICES ASSUME OutputInv, [Next]_vars PROVE OutputInv'
  OBVIOUS
<1>0. TypeInv'
  BY TypeStep DEF OutputInv
<1>t. /\ tick \in Ticks /\ tick \in Nat /\ tick >= 1 /\ F # B
      /\ t_outputs \in [Unit -> Outputs]
      /\ t_output_history \in [Ticks -> [Unit -> Outputs]]
      /\ t_instant_outputs \in [Ticks -> [Unit -> Outputs]]
  BY PipelineAssumption DEF OutputInv, TypeInv, TypeOK, Ticks, F, B
<1>1. ASSUME NEW u \in Unit, if_process(u) PROVE OutputInv'
  <2>1. /\ phase = F /\ done' = done \cup {InFwd(u)} /\ UNCHANGED output_vars
        /\ UNCHANGED <<stage_vars, example, phase, tick>>
    BY <1>1 DEF if_process, Integrate
  <2>2. \A w \in Unit : OutFwd(w) # InFwd(u)
    BY DEF OutFwd, InFwd
  <2> QED BY <1>0, <1>t, <2>1, <2>2 DEF OutputInv, ForwardKept, BackpropKept,
             DerivativeOfTick, Kept, Output, output_vars, stage_vars
<1>2. ASSUME NEW u \in Unit, tf_process(u) PROVE OutputInv'
  <2>1. /\ phase = F /\ done' = done \cup {OutFwd(u)}
        /\ UNCHANGED <<training, enabled, example, phase, tick>>
    BY <1>2 DEF tf_process, Integrate, stage_vars
  <2>2. t_outputs' = [t_outputs EXCEPT ![u] = Output(tick)]
    BY <1>2 DEF tf_process, Computed, Now, Output
  <2>3. \A k \in 1 .. tick - 1, w \in Unit : Kept(k, w)'
    BY <1>2, <1>t, <2>1 DEF tf_process, OutputInv, ForwardKept, Kept, Output, Ticks
  <2>4. \A w \in Unit : OutFwd(w) \in done' /\ w # u => OutFwd(w) \in done
    BY <2>1 DEF OutFwd
  <2>5. Kept(tick, u)'
    BY <1>2, <1>t, <2>1 DEF tf_process, Kept, Output, Computed, Instant, Now
  <2>6. \A w \in Unit : w # u /\ Kept(tick, w) => Kept(tick, w)'
    BY <1>2, <1>t, <2>1 DEF tf_process, Kept, Output
  <2>7. ForwardKept'
    BY <1>t, <2>1, <2>2, <2>3, <2>4, <2>5, <2>6 DEF OutputInv, ForwardKept, Kept, Output
  <2> QED BY <1>0, <1>t, <2>1, <2>7 DEF OutputInv, BackpropKept, DerivativeOfTick
<1>3. CASE tb_process
  <2>1. /\ phase = B /\ UNCHANGED <<t_output_history, t_instant_outputs>>
        /\ UNCHANGED <<training, enabled, example, phase, tick>>
    BY <1>3 DEF tb_process, Integrate, stage_vars
  <2>2. \A u \in Unit : t_outputs'[u] = Instant
    BY <1>3, <1>t, <2>1 DEF tb_process, InstantOutputs, OutputInv, BackpropKept, Kept,
       Instant, Now
  <2> QED BY <1>0, <1>t, <2>1, <2>2 DEF OutputInv, ForwardKept, BackpropKept,
             DerivativeOfTick, Kept, Output, Instant, Now
<1>4. ASSUME NEW u \in Unit, ib_process(u) PROVE OutputInv'
  <2>1. /\ phase = B /\ done # {} /\ UNCHANGED output_vars
        /\ UNCHANGED <<stage_vars, example, phase, tick>>
    BY <1>4 DEF ib_process, Integrate
  <2> QED BY <1>0, <1>t, <2>1 DEF OutputInv, ForwardKept, BackpropKept,
             DerivativeOfTick, Kept, Output, Instant, Now, output_vars, stage_vars
<1>5. ASSUME NEW stop \in BOOLEAN, F_AdvanceTick(stop) PROVE OutputInv'
  <2>1. /\ phase = F /\ done' = {} /\ UNCHANGED output_vars
        /\ UNCHANGED <<training, enabled>>
    BY <1>5 DEF F_AdvanceTick, TickInit, stage_vars
  <2>2. \A k \in 1 .. tick, u \in Unit : Kept(k, u)
    BY <1>5, <1>t, <2>1 DEF F_AdvanceTick, OutputInv, ForwardKept
  <2>3. \A u \in Unit : t_outputs[u] = Output(tick)
    BY <1>5, <2>1 DEF F_AdvanceTick, OutputInv, ForwardKept
  <2>4. CASE tick' = tick + 1 /\ UNCHANGED <<example, phase>>
    BY <1>0, <1>t, <2>1, <2>2, <2>4 DEF OutputInv, ForwardKept, BackpropKept,
       DerivativeOfTick, Kept, Output, output_vars
  <2>5. CASE training /\ phase' = B /\ UNCHANGED <<example, tick>>
    BY <1>0, <1>t, <2>1, <2>2, <2>3, <2>5 DEF OutputInv, ForwardKept, BackpropKept,
       DerivativeOfTick, Kept, Output, Instant, Now, output_vars
  <2>6. CASE AdvanceExample
    BY <1>0, <1>t, <2>1, <2>6 DEF AdvanceExample, OutputInv, ForwardKept, BackpropKept,
       DerivativeOfTick
  <2> QED BY <1>5, <2>4, <2>5, <2>6 DEF F_AdvanceTick
<1>6. CASE B_AdvanceTick
  <2>1. /\ phase = B /\ done' = {} /\ training
        /\ UNCHANGED <<training, enabled, t_output_history, t_instant_outputs>>
    BY <1>6, <1>t DEF B_AdvanceTick, TickInit, stage_vars, OutputInv, BackpropKept
  <2>2. CASE AdvanceExample
    BY <1>0, <1>t, <2>1, <2>2 DEF AdvanceExample, OutputInv, ForwardKept, BackpropKept,
       DerivativeOfTick
  <2>3. CASE /\ tick > 1 /\ tick' = tick - 1 /\ UNCHANGED <<example, phase>>
             /\ t_outputs' = restore_outputs(tick - 1)
    <3>1. \A u \in Unit : t_outputs'[u] = Output(tick - 1)
      BY <1>t, <2>1, <2>3 DEF OutputInv, BackpropKept, Kept, restore_outputs
    <3> QED BY <1>0, <1>t, <2>1, <2>3, <3>1 DEF OutputInv, ForwardKept, BackpropKept,
               DerivativeOfTick, Kept, Output, Instant, Now
  <2> QED BY <1>6, <2>2, <2>3 DEF B_AdvanceTick
<1>7. CASE Restart
  <2>1. done' = {} /\ UNCHANGED <<training, enabled, example, phase, tick, output_vars>>
    BY <1>7 DEF Restart
  <2> QED BY <1>0, <1>t, <2>1 DEF OutputInv, ForwardKept, BackpropKept,
             DerivativeOfTick, Kept, Output, Instant, Now, output_vars
<1>8. CASE UNCHANGED vars
  <2>1. UNCHANGED <<training, enabled, example, phase, tick, done, output_vars>>
    BY <1>8 DEF vars, stage_vars, unit_vars
  <2> QED BY <1>0, <1>t, <2>1 DEF OutputInv, ForwardKept, BackpropKept,
             DerivativeOfTick, Kept, Output, Instant, Now, output_vars
<1> QED BY <1>1, <1>2, <1>3, <1>4, <1>5, <1>6, <1>7, <1>8 DEF OutputInv, Next, Terminated

\* In every BACKPROP tick, restarted or not, the derivative is taken of the
\* instant outputs of this very tick of the FORWARD phase (compute_out_back,
\* restore_outputs).
THEOREM DerivativesCurrent == Spec => []DerivativeOfTick
<1>1. OutputInv => DerivativeOfTick
  BY DEF OutputInv
<1> QED BY <1>1, OutputInit, OutputStep, PTL DEF Spec

(***************************************************************************)
(* No tick twice.  The value to recover from may be stale, of an earlier   *)
(* tick or even example, but never of the present tick: the ticks an       *)
(* integrator holds are in the order the phase goes through them.          *)
(***************************************************************************)
Earlier(dir, p, q) ==
  \/ p[1] < q[1]
  \/ p[1] = q[1] /\ IF dir = F THEN p[2] < q[2] ELSE p[2] > q[2]

Ordered(dir, s) == \A i, j \in DOMAIN s : i < j => Earlier(dir, s[i], s[j])

\* a tick that is over, or was never there, in tick t of a phase of example e
Over(e, ph, t, c, p) ==
  \/ p[1] < e
  \/ p[1] = e /\ c[2] = F /\ ph = B
  \/ c[2] = ph /\ Earlier(ph, p, <<e, t>>)

Past(c, p) == Over(example, phase, tick, c, p)

PastInv ==
  \A c \in Cell :
    /\ Ordered(c[2], last[c]) /\ Ordered(c[2], saved[c])
    /\ \A i \in DOMAIN saved[c] : Past(c, saved[c][i])
    /\ \A i \in DOMAIN last[c] :
         Past(c, last[c][i]) \/ (c \in computed /\ c[2] = phase /\ last[c][i] = Now)

OnceInv == ExactInv /\ PastInv

LEMMA AppendOrdered ==
  ASSUME NEW s \in Chains, NEW p \in Stamps, NEW dir, Ordered(dir, s),
         \A i \in DOMAIN s : Earlier(dir, s[i], p)
  PROVE  /\ Ordered(dir, Append(s, p))
         /\ \A i \in DOMAIN Append(s, p) :
              (i \in DOMAIN s /\ Append(s, p)[i] = s[i]) \/ Append(s, p)[i] = p
<1> DEFINE a == Append(s, p)
<1>1. /\ a \in Seq(Stamps \cup {Unset}) /\ Len(a) = Len(s) + 1 /\ Len(s) \in Nat
      /\ \A i \in 1 .. Len(s) : a[i] = s[i]
      /\ a[Len(s) + 1] = p /\ DOMAIN a = 1 .. Len(s) + 1 /\ DOMAIN s = 1 .. Len(s)
  BY AppendProperties, LenProperties DEF Chains
<1> HIDE DEF a
<1>2. Ordered(dir, a)
  BY <1>1 DEF Ordered
<1>3. \A i \in DOMAIN a : (i \in DOMAIN s /\ a[i] = s[i]) \/ a[i] = p
  BY <1>1
<1> QED BY <1>2, <1>3 DEF a

LEMMA OnceInit == Init => OnceInv
<1> SUFFICES ASSUME Init PROVE OnceInv
  OBVIOUS
<1>1. ExactInv
  BY ExactInit
<1>2. ASSUME NEW c \in Cell
      PROVE  /\ Ordered(c[2], last[c]) /\ Ordered(c[2], saved[c])
             /\ \A i \in DOMAIN saved[c] : Past(c, saved[c][i])
             /\ \A i \in DOMAIN last[c] : Past(c, last[c][i])
  <2>1. last[c] = <<>> /\ saved[c] = <<Unset>> /\ example = 1
    BY DEF Init
  <2> QED BY <2>1 DEF Ordered, Past, Over, Unset
<1> QED BY <1>1, <1>2 DEF OnceInv, PastInv

LEMMA IntegrateOnce ==
  ASSUME OnceInv, example <= NumExamples, NEW units \in SUBSET Cell, Integrate(units),
         \A c \in units : c[2] = phase
  PROVE  PastInv'
<1>0. /\ UNCHANGED <<example, phase, tick>> /\ computed' = computed \cup units
      /\ Now' = Now /\ Now \in Stamps
      /\ last \in [Cell -> Chains] /\ saved \in [Cell -> Chains]
      /\ \A c, p : Past(c, p)' <=> Past(c, p)
  BY DEF Integrate, OnceInv, ExactInv, TypeInv, TypeOK, Now, Stamps, Past
<1> SUFFICES ASSUME NEW c \in Cell
             PROVE  /\ Ordered(c[2], last'[c]) /\ Ordered(c[2], saved'[c])
                    /\ \A i \in DOMAIN saved'[c] : Past(c, saved'[c][i])
                    /\ \A i \in DOMAIN last'[c] :
                         \/ Past(c, last'[c][i])
                         \/ c \in computed' /\ c[2] = phase /\ last'[c][i] = Now
  BY <1>0 DEF PastInv
<1>1. CASE c \notin Integrators(units)
  <2>1. last'[c] = last[c] /\ saved'[c] = saved[c]
    BY <1>1 DEF Integrate
  <2> QED BY <1>0, <2>1 DEF OnceInv, PastInv
<1>2. CASE c \in Integrators(units)
  <2>1. c \in units /\ c \notin done /\ c[2] = phase
    BY <1>2 DEF Integrators, Integrate
  <2>2. saved'[c] = Save(c) /\ last'[c] = Append(saved'[c], Now)
    BY <1>2 DEF Integrate
  <2>3. /\ Ordered(c[2], saved'[c]) /\ saved'[c] \in Chains
        /\ \A i \in DOMAIN saved'[c] : Past(c, saved'[c][i])
    <3>1. CASE dlrv
      BY <1>0, <2>2, <3>1 DEF Save, OnceInv, PastInv
    <3>2. CASE ~dlrv
      <4>1. c \notin computed
        BY <2>1, <3>2 DEF OnceInv, ExactInv, AttemptOK
      <4> QED BY <1>0, <2>2, <3>2, <4>1 DEF Save, OnceInv, PastInv
    <3> QED BY <3>1, <3>2
  <2>4. \A i \in DOMAIN saved'[c] : Earlier(c[2], saved'[c][i], Now)
    BY <2>1, <2>3 DEF Past, Over, Earlier, Now, F, B
  <2>5. /\ Ordered(c[2], last'[c])
        /\ \A i \in DOMAIN last'[c] :
             \/ i \in DOMAIN saved'[c] /\ last'[c][i] = saved'[c][i]
             \/ last'[c][i] = Now
    BY <1>0, <2>2, <2>3, <2>4, AppendOrdered
  <2> QED BY <1>0, <2>1, <2>3, <2>5
<1> QED BY <1>1, <1>2

\* A tick ends.
LEMMA AdvanceOnce ==
  ASSUME OnceInv, saved' = saved, computed' = {},
         \A c \in Cell : last'[c] = last[c] \/ last'[c] = <<>>,
         \A c \in Cell, p \in Stamps \cup {Unset} :
           Past(c, p) \/ (c[2] = phase /\ p = Now) => Over(example', phase', tick', c, p)
  PROVE  PastInv'
<1> SUFFICES ASSUME NEW c \in Cell
             PROVE  /\ Ordered(c[2], last'[c]) /\ Ordered(c[2], saved'[c])
                    /\ \A i \in DOMAIN saved'[c] :
                         Over(example', phase', tick', c, saved'[c][i])
                    /\ \A i \in DOMAIN last'[c] :
                         Over(example', phase', tick', c, last'[c][i])
  BY DEF PastInv, Past
<1>1. last[c] \in Seq(Stamps \cup {Unset}) /\ saved[c] \in Seq(Stamps \cup {Unset})
  BY DEF OnceInv, ExactInv, TypeInv, TypeOK, Chains
<1>2. /\ \A i \in DOMAIN last[c] : last[c][i] \in Stamps \cup {Unset}
      /\ \A i \in DOMAIN saved[c] : saved[c][i] \in Stamps \cup {Unset}
  BY <1>1
<1>3. /\ Ordered(c[2], saved'[c])
      /\ \A i \in DOMAIN saved'[c] : Over(example', phase', tick', c, saved'[c][i])
  BY <1>2 DEF OnceInv, PastInv
<1>4. CASE last'[c] = last[c]
  BY <1>2, <1>3, <1>4 DEF OnceInv, PastInv
<1>5. CASE last'[c] = <<>>
  BY <1>3, <1>5 DEF Ordered
<1> QED BY <1>4, <1>5

LEMMA AdvanceExampleOnce ==
  ASSUME OnceInv, AdvanceExample, TickInit, enabled' = enabled
  PROVE  PastInv'
<1>1. /\ saved' = saved /\ computed' = {} /\ example' = example + 1 /\ example \in Int
      /\ \A c \in Cell : last'[c] = last[c] \/ last'[c] = <<>>
  BY DEF AdvanceExample, TickInit, OnceInv, ExactInv, TypeInv, TypeOK
<1>2. \A c \in Cell, p \in Stamps \cup {Unset} :
        Past(c, p) \/ (c[2] = phase /\ p = Now) => Over(example', phase', tick', c, p)
  <2> SUFFICES ASSUME NEW c \in Cell, NEW p \in Stamps \cup {Unset},
                      Past(c, p) \/ p = Now
               PROVE  p[1] < example'
    BY DEF Over
  <2>1. p[1] \in Int
    BY DEF Stamps, Unset
  <2>2. p[1] <= example
    BY <1>1, <2>1 DEF Past, Over, Earlier, Now
  <2> QED BY <1>1, <2>1, <2>2
<1> QED BY <1>1, <1>2, AdvanceOnce

LEMMA OnceStep == OnceInv /\ [Next]_vars => OnceInv'
<1> SUFFICES ASSUME OnceInv, [Next]_vars PROVE PastInv'
  BY ExactStep DEF OnceInv
<1>0. F # B /\ tick \in Int /\ example \in Int /\ phase \in {F, B}
  BY DEF F, B, OnceInv, ExactInv, TypeInv, TypeOK, Ticks
<1>1. ASSUME example <= NumExamples, NEW u \in Unit,
             if_process(u) \/ tf_process(u) \/ ib_process(u)
      PROVE  PastInv'
  <2>1. CASE if_process(u)
    BY <1>1, <2>1, IntegrateOnce, UnitCells DEF if_process, InFwd
  <2>2. CASE tf_process(u)
    BY <1>1, <2>2, IntegrateOnce, UnitCells DEF tf_process, OutFwd
  <2>3. CASE ib_process(u)
    BY <1>1, <2>3, IntegrateOnce, UnitCells DEF ib_process, InBkp
  <2> QED BY <1>1, <2>1, <2>2, <2>3
<1>5. ASSUME example <= NumExamples, tb_process PROVE PastInv'
  <2>1. {OutBkp(u) : u \in Unit} \in SUBSET Cell
    BY UnitCells
  <2>2. \A c \in {OutBkp(u) : u \in Unit} : c[2] = B
    BY DEF OutBkp
  <2> QED BY <1>5, <2>1, <2>2, IntegrateOnce DEF tb_process
<1>2. ASSUME NEW stop \in BOOLEAN, F_AdvanceTick(stop) PROVE PastInv'
  <2>1. phase = F /\ TickInit /\ enabled' = enabled /\ computed' = {}
    BY <1>2 DEF F_AdvanceTick, TickInit, stage_vars
  <2>2. CASE tick' = tick + 1 /\ UNCHANGED <<example, phase, last, saved>>
    <3>1. \A c \in Cell, p \in Stamps \cup {Unset} :
            Past(c, p) \/ (c[2] = phase /\ p = Now) => Over(example', phase', tick', c, p)
      BY <1>0, <2>1, <2>2 DEF Past, Over, Earlier, Now, Stamps, Unset, Ticks
    <3> QED BY <2>1, <2>2, <3>1, AdvanceOnce
  <2>3. CASE phase' = B /\ UNCHANGED <<example, tick, last, saved>>
    <3>1. \A c \in Cell, p \in Stamps \cup {Unset} :
            Past(c, p) \/ (c[2] = phase /\ p = Now) => Over(example', phase', tick', c, p)
      BY <1>0, <2>1, <2>3 DEF Past, Over, Earlier, Now, Stamps, Unset, Ticks
    <3> QED BY <2>1, <2>3, <3>1, AdvanceOnce
  <2>4. CASE AdvanceExample
    BY <2>1, <2>4, AdvanceExampleOnce
  <2> QED BY <1>2, <2>2, <2>3, <2>4 DEF F_AdvanceTick
<1>3. CASE B_AdvanceTick
  <2>1. phase = B /\ TickInit /\ enabled' = enabled /\ computed' = {}
    BY <1>3 DEF B_AdvanceTick, TickInit, stage_vars
  <2>2. CASE tick' = tick - 1 /\ UNCHANGED <<example, phase, last, saved>>
    <3>1. \A c \in Cell, p \in Stamps \cup {Unset} :
            Past(c, p) \/ (c[2] = phase /\ p = Now) => Over(example', phase', tick', c, p)
      BY <1>0, <2>1, <2>2 DEF Past, Over, Earlier, Now, Stamps, Unset, Ticks
    <3> QED BY <2>1, <2>2, <3>1, AdvanceOnce
  <2>3. CASE AdvanceExample
    BY <2>1, <2>3, AdvanceExampleOnce
  <2> QED BY <1>3, <2>2, <2>3 DEF B_AdvanceTick
<1>4. CASE Restart \/ UNCHANGED vars
  <2>1. UNCHANGED <<example, phase, tick, last, saved, computed>>
    BY <1>4 DEF Restart, vars, unit_vars
  <2> QED BY <2>1 DEF OnceInv, PastInv, Past, Now
<1> QED BY <1>1, <1>2, <1>3, <1>4, <1>5 DEF Next, Terminated

\* No integrator integrates a tick twice, recovering or not, even where the
\* value it recovers from is stale.
THEOREM TicksOnce == Spec => []IntegratedOnce
<1>1. OnceInv => IntegratedOnce
  <2> SUFFICES ASSUME OnceInv, NEW c \in Cell, NEW i \in DOMAIN last[c],
                      NEW j \in DOMAIN last[c], last[c][i] = last[c][j]
               PROVE  i = j
    BY DEF IntegratedOnce
  <2>1. last[c] \in Seq(Stamps \cup {Unset})
    BY DEF OnceInv, ExactInv, TypeInv, TypeOK, Chains
  <2>2. i \in Int /\ j \in Int /\ last[c][i] \in Stamps \cup {Unset}
    BY <2>1
  <2>3. last[c][i][1] \in Int /\ last[c][i][2] \in Int
    BY <2>2 DEF Stamps, Unset, Ticks
  <2>4. ~(i < j) /\ ~(j < i)
    BY <2>3 DEF OnceInv, PastInv, Ordered, Earlier
  <2> QED BY <2>2, <2>4
<1> QED BY <1>1, OnceInit, OnceStep, PTL DEF Spec
=============================================================================
