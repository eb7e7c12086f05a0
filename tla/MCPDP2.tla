------------------------------- MODULE MCPDP2 -------------------------------
(***************************************************************************)
(* Instances of PDP2 for TLC.                                              *)
(***************************************************************************)
EXTENDS PDP2Flow

TwoGroups == <<1, 2>>     \* the Bias group and an output group, a subgroup each
OutputOnly == {2}
\* the kinds of core that are timely: all of them, or the threshold cores only
AllKinds == {"W", "S", "I", "T"}
OnlyT == {"T"}

\* Bound of the run Ticks (its CONSTRAINT): the FORWARD phase of the first
\* example lasts three ticks, that of the second one two (what a longer phase
\* leaves behind is what a shorter one could take for its own).
LongThenShort ==
  LET r == tc[LastSub]
  IN r.phase = F /\ r.tick = 2 /\ r.advance => (r.tick_stop <=> r.example_cnt = 1)
=============================================================================
