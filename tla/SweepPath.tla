----------------------------- MODULE SweepPath -----------------------------
(***************************************************************************)
(* The bends of a planar sweep path and the rule that none turns tighter   *)
(* than the profile reaches into it                                        *)
(* (packages/build123d-adapter/cad_engine_build123d/sweeps.py,             *)
(* require_bends_clear_the_profile).                                       *)
(*                                                                         *)
(* A path leaves the origin straight and bends by quarter turns.           *)
(* Directions are counted in quarter turns to the left of the one it       *)
(* leaves in.  The profile reaches so far to the left and to the right of  *)
(* the path; a planar path carries it without twisting, so these never     *)
(* change on the way.                                                      *)
(***************************************************************************)
EXTENDS Integers, Sequences, FiniteSets

Sides == {"left", "right"}
Round == [left |-> 1, right |-> 1]
Symmetric(profile) == profile.left = profile.right

Turns(path, k, side) == Cardinality({i \in 1..(k - 1) : path[i].side = side})

\* Where the path heads before its k-th bend, and where that bend has its centre.
Heading(path, k) == (Turns(path, k, "left") - Turns(path, k, "right")) % 4
Centre(path, k) == (Heading(path, k) + IF path[k].side = "left" THEN 1 ELSE 3) % 4

\* What the rule is about: the reach on the side the centre is on.
Tight(path, profile, k) == path[k].radius <= profile[path[k].side]

\* What the code compares: the centre's direction with the right-hand side of
\* the direction the path leaves in.  Anything but straight left of it is right.
MeasuredSide(path, k) == IF Centre(path, k) = 1 THEN "left" ELSE "right"
\* Wrong on purpose: a bend as tight as the profile reaches passes.
MeasuredTightLoosely(path, profile, k) ==
  path[k].radius < profile[MeasuredSide(path, k)]

MeasuredTight(path, profile, k) ==
  path[k].radius <= profile[MeasuredSide(path, k)]

SweepRefused(path, profile) ==
  \E k \in DOMAIN path : MeasuredTight(path, profile, k)
=============================================================================
