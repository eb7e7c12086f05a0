--------------------------- MODULE MCUnitPipelines ---------------------------
(***************************************************************************)
(* Instances of UnitPipelines for TLC.                                     *)
(***************************************************************************)
EXTENDS UnitPipelines
=============================================================================
