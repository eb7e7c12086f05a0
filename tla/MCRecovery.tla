----------------------------- MODULE MCRecovery -----------------------------
(***************************************************************************)
(* Instances of Recovery for TLC.                                          *)
(***************************************************************************)
EXTENDS Recovery

TwoGroups == <<1, 2>>
OutputOnly == {2}
AllKinds == {"W", "S", "I", "T"}
\* everything a tick consists of, but not the packets that end it
InTick == {"fwd", "bkp", "fsgn", "bsgn", "crit"}
=============================================================================
