--------------------------- MODULE MCCriterionChain ---------------------------
(***************************************************************************)
(* Instances of CriterionChain for TLC: a group with several subgroups,    *)
(* the last output group, and one that has a single subgroup.              *)
(***************************************************************************)
EXTENDS CriterionChain

Five == 1 .. 5
ThreeGroups == 1 .. 3
FiveGroup == [s \in Five |-> CASE s \in 1 .. 2 -> 1 [] s \in 3 .. 4 -> 2 [] s = 5 -> 3]
FiveLast == [g \in ThreeGroups |-> CASE g = 1 -> 2 [] g = 2 -> 4 [] g = 3 -> 5]
=============================================================================
