---------------------------- MODULE UnitPipelines ----------------------------
(***************************************************************************)
(* The units of one subgroup: the input pipeline of its I core and the     *)
(* output pipeline of its T core, tick after tick, with ticks restarted by *)
(* the deadlock recovery.  (process_i.c, process_t.c)                      *)
(*                                                                         *)
(* Both cores may have an INTEGRATOR in their pipeline, FORWARD and        *)
(* BACKPROP: it combines the unit's value with what it holds from the last *)
(* tick.  A restarted tick computes its units again, some of them for the  *)
(* first time; the integrators keep a value to recover from.  The value of *)
(* an integrator is modelled by the ticks it has integrated, in order; an  *)
(* output by the tick it was computed in and the point of the pipeline it  *)
(* was taken at.                                                           *)
(***************************************************************************)
EXTENDS Integers, Sequences, FiniteSets

CONSTANTS
  Units,         \* units of the subgroup
  MaxTick,       \* the last tick of a FORWARD phase, global_max_ticks - 1
  NumExamples,
  MaxRestarts    \* bound on the number of restarts

ASSUME PipelineAssumption ==
  /\ Units \in Nat \ {0} /\ MaxTick \in Nat \ {0}
  /\ NumExamples \in Nat \ {0} /\ MaxRestarts \in Nat

F == "FORWARD"
B == "BACKPROP"
Unit == 0 .. Units - 1

\* an integrator of every unit, in both cores and in both directions
Cell == {"I", "T"} \X {F, B} \X Unit
InFwd(u) == <<"I", F, u>>     \* i_last_integr_net
OutFwd(u) == <<"T", F, u>>     \* t_last_integr_output
OutBkp(u) == <<"T", B, u>>     \* t_last_integr_output_deriv
InBkp(u) == <<"I", B, u>>     \* i_last_integr_delta

VARIABLES
  training,          \* xcfg.training
  enabled,           \* the cores with an INTEGRATOR, in_integr_en, out_integr_en
  example, phase, tick,
  top,               \* ghost: the last tick of the FORWARD phase
  dlrv,              \* recovering from deadlock
  restarts,
  last,              \* the integrators: the ticks integrated
  saved,             \* their values to recover from, the .._dlrv arrays
  done,              \* units computed since the tick was (re)started
  computed,          \* ghost: units computed since the tick was started
  late,              \* ghost: units first computed in a restarted tick
  t_outputs,
  t_output_history,  \* by tick, for restore_outputs
  t_instant_outputs  \* by tick, from before the integrator

unit_vars == <<last, saved, done, computed, late>>
output_vars == <<t_outputs, t_output_history, t_instant_outputs>>
stage_vars == <<training, enabled, restarts>>
vars == <<stage_vars, example, phase, tick, top, dlrv, unit_vars, output_vars>>

Now == <<example, tick>>
Unset == <<0, 0>>      \* memory no one has written yet

Ticks == 1 .. MaxTick
Stamps == (1 .. NumExamples) \X Ticks
Outputs == (Stamps \cup {Unset}) \X {"instant", "integrated"}
NoOutputs == [u \in Unit |-> <<Unset, "instant">>]

Init ==
  /\ training \in BOOLEAN /\ enabled \in SUBSET {"I", "T"}
  /\ example = 1 /\ phase = F /\ tick = 1 /\ top = 0
  /\ dlrv = FALSE /\ restarts = 0
  /\ last = [c \in Cell |-> <<>>]
  /\ saved = [c \in Cell |-> <<Unset>>]
  /\ done = {} /\ computed = {} /\ late = {}
  /\ t_outputs = NoOutputs
  /\ t_output_history = [k \in Ticks |-> NoOutputs]
  /\ t_instant_outputs = [k \in Ticks |-> NoOutputs]

(***************************************************************************)
(* in_integr, out_integr, out_integr_back and in_integr_back, of a set of  *)
(* units.                                                                  *)
(***************************************************************************)
Integrators(units) == {c \in units : c[1] \in enabled}

\* mutant: the value to recover from is taken from the first attempt
Save_always(c) == last[c]
Save(c) == IF dlrv THEN saved[c] ELSE last[c]

Integrate(units) ==
  /\ units \cap done = {}
  /\ saved' = [c \in Cell |-> IF c \in Integrators(units) THEN Save(c) ELSE saved[c]]
  /\ last' = [c \in Cell |-> IF c \in Integrators(units) THEN Append(saved'[c], Now)
                                                         ELSE last[c]]
  /\ done' = done \cup units
  /\ computed' = computed \cup units
  /\ late' = late \cup (IF dlrv THEN units \ computed ELSE {})
  /\ UNCHANGED <<stage_vars, example, phase, tick, top, dlrv>>

(***************************************************************************)
(* The computations.                                                       *)
(***************************************************************************)
if_process(u) ==
  /\ phase = F
  /\ Integrate({InFwd(u)})
  /\ UNCHANGED output_vars

\* compute_out and store_output
Instant == <<Now, "instant">>
Computed == <<Now, IF "T" \in enabled THEN "integrated" ELSE "instant">>

tf_process(u) ==
  /\ phase = F /\ InFwd(u) \in done
  /\ Integrate({OutFwd(u)})
  /\ t_outputs' = [t_outputs EXCEPT ![u] = Computed]
  /\ t_instant_outputs' =
       IF "T" \in enabled THEN [t_instant_outputs EXCEPT ![tick][u] = Instant]
                          ELSE t_instant_outputs
  /\ t_output_history' =
       IF training THEN [t_output_history EXCEPT ![tick][u] = Computed]
                   ELSE t_output_history

\* compute_out_back, of all units at the start of the tick
\* mutant: the logistic derivative is taken of the integrated output
InstantOutputs_none == t_outputs
InstantOutputs == IF "T" \in enabled THEN t_instant_outputs[tick] ELSE t_outputs

tb_process ==
  /\ phase = B
  /\ Integrate({OutBkp(u) : u \in Unit})
  /\ t_outputs' = InstantOutputs
  /\ UNCHANGED <<t_output_history, t_instant_outputs>>

ib_process(u) ==
  /\ phase = B /\ OutBkp(u) \in done
  /\ Integrate({InBkp(u)})
  /\ UNCHANGED output_vars

(***************************************************************************)
(* Ticks.                                                                  *)
(***************************************************************************)
\* mutant: the scoreboard is not reset
TickInit_keepsDone == dlrv' = FALSE /\ done' = done /\ computed' = {}
TickInit == dlrv' = FALSE /\ done' = {} /\ computed' = {}

\* i_advance_example and t_init_outputs; the values to recover from are kept
\* mutant: the integrators start an example where they ended the last
AdvanceExample_keeps ==
  /\ example' = example + 1 /\ phase' = F /\ tick' = 1 /\ top' = 0 /\ late' = {}
  /\ UNCHANGED <<last, saved>>
AdvanceExample ==
  /\ example' = example + 1 /\ phase' = F /\ tick' = 1 /\ top' = 0 /\ late' = {}
  /\ last' = [c \in Cell |-> IF c[1] \in enabled THEN <<>> ELSE last[c]]
  /\ UNCHANGED saved

\* if_advance_tick and tf_advance_tick; stop is tick_stop at the end of the
\* last event
F_AdvanceTick(stop) ==
  /\ phase = F /\ example <= NumExamples
  /\ \A u \in Unit : OutFwd(u) \in done
  /\ tick = MaxTick => stop
  /\ TickInit
  /\ \/ /\ ~stop
        /\ tick' = tick + 1
        /\ UNCHANGED <<example, phase, top, last, saved, late>>
     \/ /\ stop /\ training
        /\ phase' = B /\ top' = tick
        /\ UNCHANGED <<example, tick, last, saved, late>>
     \/ /\ stop /\ ~training
        /\ AdvanceExample
  /\ UNCHANGED <<stage_vars, output_vars>>

\* mutant: the outputs are not restored
restore_outputs_not(k) == t_outputs
restore_outputs(k) == t_output_history[k]

\* ib_advance_tick and tb_advance_tick; the tick ends after every unit's
\* delta has been through the input pipeline and the weight cores
B_AdvanceTick ==
  /\ phase = B
  /\ \A u \in Unit : InBkp(u) \in done
  /\ TickInit
  /\ \/ /\ tick = 1
        /\ AdvanceExample
        /\ UNCHANGED t_outputs
     \/ /\ tick > 1
        /\ tick' = tick - 1
        /\ t_outputs' = restore_outputs(tick - 1)
        /\ UNCHANGED <<example, phase, top, last, saved, late>>
  /\ UNCHANGED <<stage_vars, t_output_history, t_instant_outputs>>

(***************************************************************************)
(* A tick is restarted when it does not end because a packet has been      *)
(* lost, in this subgroup or another, and whatever could be computed has   *)
(* been: the weight and sum cores then send their values again.            *)
(***************************************************************************)
Restart ==
  /\ example <= NumExamples /\ restarts < MaxRestarts
  /\ phase = B => \A u \in Unit : OutBkp(u) \in done
  /\ restarts' = restarts + 1
  /\ dlrv' = TRUE /\ done' = {}
  /\ UNCHANGED <<training, enabled, example, phase, tick, top>>
  /\ UNCHANGED <<last, saved, computed, late, output_vars>>

Terminated == example > NumExamples /\ UNCHANGED vars

Next ==
  \/ /\ example <= NumExamples
     /\ \/ \E u \in Unit : if_process(u) \/ tf_process(u) \/ ib_process(u)
        \/ tb_process
        \/ \E stop \in BOOLEAN : F_AdvanceTick(stop)
        \/ B_AdvanceTick
        \/ Restart
  \/ Terminated

Spec == Init /\ [][Next]_vars

(***************************************************************************)
(* Properties.                                                             *)
(***************************************************************************)
Chains == Seq(Stamps \cup {Unset})

\* The state is well formed: an integrator holds ticks of the stage, an
\* output one tick.
TypeOK ==
  /\ training \in BOOLEAN /\ enabled \subseteq {"I", "T"} /\ dlrv \in BOOLEAN
  /\ example \in 1 .. NumExamples + 1 /\ phase \in {F, B} /\ tick \in Ticks
  /\ top \in 0 .. MaxTick /\ restarts \in 0 .. MaxRestarts
  /\ last \in [Cell -> Chains] /\ saved \in [Cell -> Chains]
  /\ done \subseteq computed /\ computed \subseteq Cell /\ late \subseteq Cell
  /\ t_outputs \in [Unit -> Outputs]
  /\ t_output_history \in [Ticks -> [Unit -> Outputs]]
  /\ t_instant_outputs \in [Ticks -> [Unit -> Outputs]]

\* The ticks of this phase before the current one, and up to it, in the order
\* of the phase.
Before == IF phase = F THEN [j \in 1 .. tick - 1 |-> <<example, j>>]
                       ELSE [j \in 1 .. top - tick |-> <<example, top + 1 - j>>]
UpTo == Append(Before, Now)

Active(c) == c[1] \in enabled /\ c[2] = phase

\* However often its ticks are restarted, an integrator holds each tick of
\* the phase exactly once and in order, as long as every one of them was
\* first computed before the restart (process_i.c, process_t.c: the value to
\* recover from).
IntegratorExact ==
  \A c \in Cell \ late : Active(c) => last[c] = IF c \in computed THEN UpTo ELSE Before

\* No tick is ever integrated twice, recovering or not.
IntegratedOnce ==
  \A c \in Cell : Active(c) =>
    \A i, j \in DOMAIN last[c] : last[c][i] = last[c][j] => i = j

\* The logistic derivative of a BACKPROP tick is taken of the output this
\* tick had in the FORWARD phase, before the integrator, whether the tick has
\* been restarted or not.
DerivativeOfTick ==
  (phase = B /\ done # {}) => \A u \in Unit : t_outputs[u] = Instant

\* Stated of the integrators in their comments, which remember the last value
\* in case of deadlock recovery and use it there: a restart makes no
\* difference to what is integrated.
RestartUnnoticed ==
  \A c \in Cell : (Active(c) /\ c \in computed) => last[c] = UpTo
=============================================================================
