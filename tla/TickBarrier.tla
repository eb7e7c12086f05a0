---------------------------- MODULE TickBarrier ----------------------------
(***************************************************************************)
(* What the tick protocol of the machine promises: the cores go through    *)
(* the ticks of a stage in lockstep.  A core moves to its next position    *)
(* only while every other core is where it was or already where it goes;   *)
(* so no core is ever two ticks away from another, and all cores take the  *)
(* same turn where the stop decision can go either way.  At the end of an  *)
(* epoch a core may finish the stage, at once or later; from then on no    *)
(* core goes on to another tick.                                           *)
(***************************************************************************)
EXTENDS Integers

CONSTANTS Procs, Training, NumEpochs, NumExamples, NumTicks

VARIABLES pos,    \* the stamp of the tick each core is in
          fin     \* the cores that have finished the stage

vars == <<pos, fin>>

Positions == (0 .. NumEpochs) \X (0 .. NumExamples - 1)
               \X {"F", "B"} \X (1 .. NumTicks)

First == <<0, 0, "F", 1>>

\* the first tick of the example after the one of p
NextExample(p) ==
  IF p[2] + 1 = NumExamples THEN <<p[1] + 1, 0, "F", 1>>
                            ELSE <<p[1], p[2] + 1, "F", 1>>

\* the tick after p in the same phase: BACKPROP counts down
NextTick(p) == <<p[1], p[2], p[3], IF p[3] = "F" THEN p[4] + 1 ELSE p[4] - 1>>

\* where a core may go from p: a FORWARD tick either continues or is the
\* last one of the example's FORWARD phase
Succ(p) ==
  {q \in IF p[3] = "F"
           THEN {NextTick(p), IF Training THEN <<p[1], p[2], "B", p[4]>>
                                          ELSE NextExample(p)}
           ELSE {IF p[4] = 1 THEN NextExample(p) ELSE NextTick(p)}
     : q \in Positions}

\* the first tick of an epoch but the first one
EpochOver(p) == p[1] > 0 /\ p[2] = 0 /\ p[3] = "F" /\ p[4] = 1

Init == pos = [c \in Procs |-> First] /\ fin = {}

Move(c) ==
  \E q \in Succ(pos[c]) :
    /\ pos' = [pos EXCEPT ![c] = q]
    /\ \A d \in Procs : pos[d] \in {pos[c], q}
    /\ \A d \in fin : pos[d] # pos[c]
    /\ fin' \in {fin, IF EpochOver(q) THEN fin \cup {c} ELSE fin}

Finish(c) ==
  /\ EpochOver(pos[c])
  /\ \A d \in Procs : pos[d] = pos[c] \/ pos[c] \in Succ(pos[d])
  /\ fin' = fin \cup {c}
  /\ UNCHANGED pos

Next == \E c \in Procs : Move(c) \/ Finish(c)

Spec == Init /\ [][Next]_vars
=============================================================================
