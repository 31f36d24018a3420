---------------------------- MODULE MCCadBuild -----------------------------
(***************************************************************************)
(* Constants for checking CadBuild.                                        *)
(***************************************************************************)
EXTENDS CadBuild

Three == <<AllTypes, AllTypes, AllTypes, {"blend", "pattern", "boolean"}>>
Patterned == <<{"solid"}, {"solid"}, {"pattern"}>>
Combined == [i \in 1..5 |-> IF i < 5 THEN {"solid"} ELSE {"boolean"}]
OneSided == {Round, [left |-> 3, right |-> 3], [left |-> 1, right |-> 3], [left |-> 3, right |-> 1]}
=============================================================================
