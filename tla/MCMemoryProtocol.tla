-------------------------- MODULE MCMemoryProtocol --------------------------
(***************************************************************************)
(* Constants for checking MemoryProtocol: the instance of MCJobProtocol.   *)
(***************************************************************************)
EXTENDS MemoryProtocol

CONSTANTS draw, build, AI, CAD, v1, hole

MCNeeds ==
  [j \in Jobs |-> [capabilities |-> IF j = draw THEN {AI, CAD} ELSE {CAD},
                   cad_ir |-> v1, keys |-> {hole}]]

Able == [capabilities |-> {AI, CAD}, cad_ir |-> {v1}, manifest |-> {hole}, codex |-> None,
         slots |-> TRUE]

MCReports ==
  {Able, [Able EXCEPT !.codex = [state |-> "UNAVAILABLE", retry_after |-> None]]}
=============================================================================
