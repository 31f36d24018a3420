------------------------------ MODULE Costing -------------------------------
(***************************************************************************)
(* The price of a job as a function of its ledger, a pricing profile and   *)
(* nothing else (app/costing/engine.py), and what the audit of a ledger    *)
(* looks for (app/ledger/audit.py).                                        *)
(*                                                                         *)
(* An event has a role if it is a run of the model, and a span in seconds. *)
(* Money is counted in thousandths and a ratio in quarters, so every       *)
(* amount below is an integer: the decimal arithmetic of the code is exact *)
(* on them, apart from the four decimals a breakdown is shown with.        *)
(***************************************************************************)
EXTENDS Integers, FiniteSets, SequencesExt

Never == -1                \* the finish of a span that was not closed

\* An event of the ledger; what a kind has no field for keeps the value below.
\* "model" is the model a run may be attributed to: "none" if it named none,
\* "contradicted" if the CLI reported another one than was asked for.
Event == [type |-> "CAD_OPERATION", stage |-> "FEATURE_BUILD", role |-> "none", start |-> 0,
          finish |-> Never, success |-> TRUE, source |-> "UNKNOWN", model |-> "none",
          tokens |-> 0, minutes |-> 0]

Total(Amount(_), events) == FoldSet(LAMBDA e, sum : Amount(e) + sum, 0, events)
Count(events, Test(_)) == Cardinality({e \in events : Test(e)})

(***************************************************************************)
(* Counters (derive_counters).                                             *)
(***************************************************************************)
Runs(events, roles) == Count(events, LAMBDA e : e.type = "AI_RUN" /\ e.role \in roles)

Counters(events) ==
  [analysis_runs |-> Runs(events, {"DRAWING_EXTRACTION", "GEOMETRY_REASONING"}),
   clarification_cycles |-> Runs(events, {"CLARIFICATION"}),
   planning_runs |-> Runs(events, {"CAD_PLANNING"}),
   cad_ir_generation_runs |-> Runs(events, {"CAD_IR_COMPILATION"}),
   repair_runs |-> Runs(events, {"REPAIR"}),
   schema_repair_runs |-> Count(events, LAMBDA e : e.type = "REPAIR_ITERATION"),
   cad_build_attempts |-> Count(events, LAMBDA e : e.type = "CAD_SESSION"),
   cad_feature_failures |->
     Count(events, LAMBDA e : e.type = "CAD_OPERATION" /\ ~e.success),
   geometry_validation_runs |->
     Count(events, LAMBDA e : e.type = "VALIDATION" /\ e.stage = "GEOMETRY_VALIDATION"),
   export_attempts |->
     Count(events, LAMBDA e : \/ e.type = "EXPORT"
                              \/ e.type = "CAD_OPERATION" /\ e.stage = "EXPORT"),
   human_review_minutes |-> Total(LAMBDA e : e.minutes, events)]

(***************************************************************************)
(* Time (billable_seconds): spans in order, merged while they overlap.     *)
(***************************************************************************)
Closed(events) == {e \in events : e.finish # Never /\ e.finish > e.start}

Spans(events) == {<<e.start, e.finish>> : e \in Closed(events)}

InOrder(s, t) == s[1] < t[1] \/ (s[1] = t[1] /\ s[2] <= t[2])

\* Wrong on purpose: a span inside the current one shortens it.
MergedInto(state, span) ==
  IF state.end = Never \/ span[1] > state.end
  THEN [total |-> state.total + state.end - state.begin, begin |-> span[1], end |-> span[2]]
  ELSE [state EXCEPT !.end = span[2]]

Merged(state, span) ==
  IF state.end = Never \/ span[1] > state.end
  THEN [total |-> state.total + state.end - state.begin, begin |-> span[1], end |-> span[2]]
  ELSE IF span[2] > state.end THEN [state EXCEPT !.end = span[2]]
  ELSE state

\* Each span once, in order; and what a list of them comes to.
Sorted(spans) ==
  CHOOSE list \in [1..Cardinality(spans) -> spans] :
     \A i, j \in DOMAIN list : i < j => InOrder(list[i], list[j]) /\ list[i] # list[j]

MergedAll(list) == FoldLeft(Merged, [total |-> 0, begin |-> Never, end |-> Never], list)

BillableSeconds(events) ==
  LET last == MergedAll(Sorted(Spans(events)))
  IN  last.total + last.end - last.begin

\* What adding the events up would bill: two of the same span count twice.
Naive(events) == Total(LAMBDA e : e.finish - e.start, Closed(events))

(***************************************************************************)
(* The model (_run_units, _ai_cost_status, billable_model).                *)
(***************************************************************************)
Attributed(e) == e.model \notin {"none", "contradicted"}

AiRuns(events) == {e \in events : e.type = "AI_RUN"}

RunUnits(e, profile) ==
  IF e.type # "AI_RUN" \/ e.source = "UNKNOWN" THEN 0
  ELSE e.tokens * (IF Attributed(e) THEN profile.model ELSE profile.default_model)

AiCostStatus(events) ==
  LET attributed == {e \in AiRuns(events) : Attributed(e)}
  IN  IF attributed = AiRuns(events) THEN "ATTRIBUTED"
      ELSE IF attributed # {} THEN "PARTIAL" ELSE "UNVERIFIABLE"

(***************************************************************************)
(* The price (calculate_cost).  It has to cover the costs, the surcharge,  *)
(* a reserve on the costs and a commission that is a share of the price    *)
(* itself, and leave the margin.                                           *)
(***************************************************************************)
Excess(actual, included) == IF actual > included THEN actual - included ELSE 0

BaseCost(events, profile) ==
  Total(LAMBDA e : RunUnits(e, profile), events) * profile.unit
    + BillableSeconds(events) * (profile.worker + profile.licence)
    + profile.vps
    + Counters(events).human_review_minutes * profile.minute

Surcharge(events, profile) ==
  Excess(Counters(events).analysis_runs, profile.included) * profile.analysis_fee
    + Excess(Counters(events).cad_build_attempts, profile.included) * profile.cad_fee
    + Excess(Counters(events).repair_runs, profile.included) * profile.repair_fee

\* (1 - m) - p(1 + r), in sixteenths; no price can be had unless it is positive.
Denominator(profile) ==
  4 * (4 - profile.margin) - profile.percent * (4 + profile.risk)

\* (B + fixed)(1 + r) + S, in quarters of a thousandth.
Numerator(events, profile) ==
  (BaseCost(events, profile) + profile.fixed) * (4 + profile.risk)
    + 4 * Surcharge(events, profile)

CeilDiv(n, d) == (n + d - 1) \div d

\* Up to a whole step, then to hundredths, half up.
RoundUp(n, d, step) == ((CeilDiv(n, d * step) * step + 5) \div 10) * 10

Bigger(m, n) == IF m >= n THEN m ELSE n

\* Wrong on purpose: the commission is left out of what the reserve is taken on.
PriceWithoutReserve(events, profile) ==
  LET d == 4 * (4 - profile.margin) - 4 * profile.percent
  IN  RoundUp(Bigger(4 * Numerator(events, profile), profile.minimum * d), d, profile.step)

Price(events, profile) ==
  LET d == Denominator(profile)
  IN  RoundUp(Bigger(4 * Numerator(events, profile), profile.minimum * d), d, profile.step)

\* What a price has to pay for before there is a margin, in sixteenths.
PreMargin(events, profile, price) ==
  (4 * BaseCost(events, profile) + profile.percent * price + 4 * profile.fixed)
    * (4 + profile.risk)
    + 16 * Surcharge(events, profile)

Margin(events, profile, price) ==
  Bigger(16 * price - PreMargin(events, profile, price), 0)

(***************************************************************************)
(* The audit.  It has nothing to say of keys that are not unique: the      *)
(* table the events come from keeps them so.                               *)
(***************************************************************************)
Audit(events, from, to, required) ==
  (IF \E e \in events : e.finish = Never THEN {"UNFINISHED_INTERVAL"} ELSE {})
  \cup (IF BillableSeconds(events) > to - from THEN {"BILLABLE_EXCEEDS_WALL_CLOCK"} ELSE {})
  \cup (IF required \subseteq {e.stage : e \in events} THEN {} ELSE {"STAGE_NOT_MEASURED"})
  \cup (IF \E e \in AiRuns(events) : e.source = "UNKNOWN" THEN {"AI_RUN_USAGE_UNKNOWN"} ELSE {})
  \cup (IF \E e \in AiRuns(events) : e.source # "UNKNOWN" /\ e.tokens = 0
        THEN {"AI_RUN_ZERO_TOKENS"} ELSE {})
  \cup (IF \E e \in AiRuns(events) : e.model = "contradicted"
        THEN {"CODEX_MODEL_MISMATCH"} ELSE {})
  \cup (IF \E e \in AiRuns(events) : e.model = "none"
        THEN {"CODEX_MODEL_UNATTRIBUTED"} ELSE {})
  \cup (IF Naive(events) > BillableSeconds(events) THEN {"NESTED_SPANS_DEDUPLICATED"} ELSE {})
=============================================================================
