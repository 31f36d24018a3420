---------------------------- MODULE MCJobCosts -----------------------------
(***************************************************************************)
(* Constants for checking JobCosts.                                        *)
(***************************************************************************)
EXTENDS JobCosts

Profile ==
  [version |-> 1, default_model |-> 1, model |-> 3, unit |-> 7, worker |-> 11, licence |-> 2,
   vps |-> 5, minute |-> 13, included |-> 1, analysis_fee |-> 40, cad_fee |-> 30,
   repair_fee |-> 20, percent |-> 0, fixed |-> 3, margin |-> 1, risk |-> 0,
   minimum |-> 0, step |-> 10]

\* One with a commission under a reserve, a minimum that binds and a coarse step.
Versions ==
  {Profile,
   [Profile EXCEPT !.version = 2, !.percent = 1, !.risk = 2, !.minimum = 60, !.step = 50]}

Fine == {[Profile EXCEPT !.step = 1]}

Session(s, f) == [Event EXCEPT !.type = "CAD_SESSION", !.stage = "CAD_STARTUP",
                               !.start = s, !.finish = f]
Operation(s, f) == [Event EXCEPT !.start = s, !.finish = f]
Run(role, source, model, tokens) ==
  [Event EXCEPT !.type = "AI_RUN", !.role = role, !.source = source, !.model = model,
                !.tokens = tokens]

Ledger ==
  {Session(0, 2), Operation(1, 3), Operation(0, 4), Operation(3, 3), Operation(2, Never)}
    \cup {Run("GEOMETRY_REASONING", "STRUCTURED", "contradicted", 2),
          Run("REPAIR", "UNKNOWN", "none", 0), Run("REPAIR", "SUMMARY", "terra", 1)}
    \cup {[Event EXCEPT !.type = "HUMAN_REVIEW", !.minutes = 1]}

Short == {Session(0, 2), Run("REPAIR", "SUMMARY", "terra", 1)}
Interchangeable == Permutations(Callers)
=============================================================================
