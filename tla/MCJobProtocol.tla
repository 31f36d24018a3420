--------------------------- MODULE MCJobProtocol ---------------------------
(***************************************************************************)
(* Constants for checking JobProtocol with its diagnostics: a drawing job  *)
(* that needs the model and, where two jobs are wanted, a plain build; one *)
(* machine that can do anything and says nothing of Codex, or says that it *)
(* is out of quota or gone, or that it has no manifest or no slot.         *)
(***************************************************************************)
EXTENDS Diagnostics

CONSTANTS draw, build, AI, CAD, v1, hole

MCNeeds ==
  [j \in Jobs |-> [capabilities |-> IF j = draw THEN {AI, CAD} ELSE {CAD},
                   cad_ir |-> v1, keys |-> {hole}]]

\* An able worker without a word about Codex, the same one out of quota for a
\* second or without its CLI, one with no manifest, and one that is busy.
Able == [capabilities |-> {AI, CAD}, cad_ir |-> {v1}, manifest |-> {hole}, codex |-> None,
         slots |-> TRUE]

MCReports ==
  {Able,
   [Able EXCEPT !.codex = [state |-> "PAUSED", retry_after |-> 1]],
   [Able EXCEPT !.codex = [state |-> "UNAVAILABLE", retry_after |-> None]],
   [Able EXCEPT !.manifest = None, !.codex = [state |-> "AVAILABLE", retry_after |-> None]],
   [Able EXCEPT !.slots = FALSE]}
=============================================================================
