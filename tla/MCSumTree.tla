------------------------------ MODULE MCSumTree ------------------------------
(***************************************************************************)
(* Instances of SumTree for TLC.                                           *)
(***************************************************************************)
EXTENDS SumTree
=============================================================================
