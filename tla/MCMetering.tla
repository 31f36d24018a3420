---------------------------- MODULE MCMetering -----------------------------
(***************************************************************************)
(* Constants for checking Metering.                                        *)
(***************************************************************************)
EXTENDS Metering

Interchangeable == Permutations(Workers)
=============================================================================
