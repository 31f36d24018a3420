---------------------------- MODULE OrderStates ----------------------------
(***************************************************************************)
(* orders/state_machine.py and orders/progress.py: which status may follow *)
(* which, which statuses are somebody's decision, and what the customer is *)
(* told.                                                                   *)
(***************************************************************************)

OrderStatuses ==
  {"DRAFT", "UPLOADED", "INPUT_VALIDATION", "WAITING_FOR_LOCAL_WORKER",
   "DRAWING_ANALYSIS", "WAITING_FOR_USER_ANSWERS", "PLAN_READY",
   "WAITING_FOR_PLAN_APPROVAL", "QUEUED_FOR_CAD", "CAD_BUILDING",
   "CAD_VALIDATION", "AUTO_REPAIR", "MANUAL_REVIEW", "READY", "FAILED",
   "CANCELLED", "EXPIRED", "PAUSED"}

\* ALLOWED_TRANSITIONS
Allowed(status) ==
  CASE status = "DRAFT"            -> {"UPLOADED", "CANCELLED", "EXPIRED"}
    [] status = "UPLOADED"         -> {"INPUT_VALIDATION", "CANCELLED", "EXPIRED"}
    [] status = "INPUT_VALIDATION" ->
         {"WAITING_FOR_LOCAL_WORKER", "MANUAL_REVIEW", "FAILED", "CANCELLED"}
    [] status = "WAITING_FOR_LOCAL_WORKER" ->
         {"DRAWING_ANALYSIS", "MANUAL_REVIEW", "CANCELLED", "EXPIRED"}
    [] status = "DRAWING_ANALYSIS" ->
         {"WAITING_FOR_USER_ANSWERS", "PLAN_READY", "MANUAL_REVIEW", "FAILED"}
    [] status = "WAITING_FOR_USER_ANSWERS" ->
         {"DRAWING_ANALYSIS", "MANUAL_REVIEW", "CANCELLED", "EXPIRED"}
    [] status = "PLAN_READY"       -> {"WAITING_FOR_PLAN_APPROVAL", "MANUAL_REVIEW"}
    [] status = "WAITING_FOR_PLAN_APPROVAL" -> {"QUEUED_FOR_CAD", "CANCELLED", "EXPIRED"}
    [] status = "QUEUED_FOR_CAD"   ->
         {"CAD_BUILDING", "MANUAL_REVIEW", "FAILED", "CANCELLED"}
    [] status = "CAD_BUILDING"     -> {"CAD_VALIDATION", "MANUAL_REVIEW", "FAILED"}
    [] status = "CAD_VALIDATION"   -> {"READY", "AUTO_REPAIR", "MANUAL_REVIEW", "FAILED"}
    [] status = "AUTO_REPAIR"      -> {"CAD_BUILDING", "MANUAL_REVIEW", "FAILED"}
    [] status = "MANUAL_REVIEW"    ->
         {"DRAWING_ANALYSIS", "PLAN_READY", "QUEUED_FOR_CAD", "READY", "FAILED", "CANCELLED"}
    [] OTHER                       -> {}

\* A decision outranks whatever the pipeline is doing.
Decided == {"CANCELLED", "EXPIRED", "MANUAL_REVIEW", "READY", "FAILED"}

\* What a leased job of each type means for its order.
LeasedMeans(type) ==
  CASE type \in {"ANALYZE_DRAWING", "COMPILE_CAD_IR"} -> "DRAWING_ANALYSIS"
    [] type = "BUILD_CAD"    -> "CAD_BUILDING"
    [] type = "VALIDATE_CAD" -> "CAD_VALIDATION"

\* What a job says about its order, given what it delivered.
PipelineStatus(type, jobStatus, kinds) ==
  CASE "MODEL" \in kinds     -> "READY"
    [] "MODEL" \notin kinds /\ "QUESTIONS" \in kinds -> "WAITING_FOR_USER_ANSWERS"
    [] kinds \cap {"MODEL", "QUESTIONS"} = {} ->
         CASE jobStatus = "FAILED" -> "FAILED"
           [] jobStatus = "PAUSED" -> "PAUSED"
           [] jobStatus = "LEASED" -> LeasedMeans(type)
           [] OTHER                -> "WAITING_FOR_LOCAL_WORKER"

OrderStatus(status, type, jobStatus, kinds) ==
  IF status \in Decided THEN status ELSE PipelineStatus(type, jobStatus, kinds)
=============================================================================
