------------------------- MODULE MCArtifactDelivery -------------------------
(***************************************************************************)
(* Instances of ArtifactDelivery for TLC.  Neither the workers nor the     *)
(* kinds of files are told apart by any definition, and the invariants     *)
(* are about all of them.                                                  *)
(***************************************************************************)
EXTENDS ArtifactDelivery, TLC

Symmetry == Permutations(Workers) \cup Permutations(Kinds)
=============================================================================
