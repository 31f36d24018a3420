----------------------------- MODULE OrderDesk -----------------------------
(***************************************************************************)
(* One order: its row, the jobs of its rounds, the customer who answers or *)
(* cancels, the operator who decides, and the workers that finish builds.  *)
(* Orders share no row and no job, so one is enough.                       *)
(*                                                                         *)
(* The API handlers are made of several transactions; each is an action,   *)
(* and what a handler has read before is kept until its next one:          *)
(*   - a completion commits the job, reads the order, then moves it to     *)
(*     MANUAL_REVIEW with the version it read (complete_job,               *)
(*     _hold_for_review): holds;                                           *)
(*   - a round is started by the upload, by answers or by an operator who  *)
(*     asks for changes: it enqueues a job, then points the order at it    *)
(*     (create_drawing_job, answer_drawing_questions, _restart_reading):   *)
(*     rounds.                                                             *)
(* A job moves as JobLifecycle says; the API may die between transactions. *)
(***************************************************************************)
EXTENDS OrderStates, Integers, FiniteSets

CONSTANTS Jobs,            \* job ids the order may use, which bounds its rounds
          First,           \* the job the upload creates
          Bodies,          \* the answers a customer may send, the notes of an operator
          Settings,        \* the ways the service may be used, of which one is taken
          RoundLimit,      \* clarification rounds after which answers are refused
          None

VARIABLES setting,         \* the way it is used: fixed from the start
          order,           \* the row of the orders table
          jobs,            \* status of each job's row, and its idempotency key
          asked,           \* jobs whose stored questions file has questions in it
          artifacts,       \* the kinds of artifact rows each job delivered
          holds,           \* _hold_for_review, per job whose completion calls it
          rounds,          \* rounds being started, per new job
          page,            \* what the operator's page shows: a version and a job
          reviews,         \* the order_reviews table, with the job looked at
          answered         \* jobs whose questions were answered: only remembered

vars == <<setting, order, jobs, asked, artifacts, holds, rounds, page, reviews, answered>>

ASSUME DeskAssumption ==
  /\ First \in Jobs /\ IsFiniteSet(Jobs)
  /\ RoundLimit \in Nat
  /\ Settings \subseteq
       [drawing : BOOLEAN,                  \* FALSE: a manual CAD-IR order
        hold : BOOLEAN,                     \* settings.hold_for_review
        submissions : Nat,                  \* answer requests in flight at once
        replays : BOOLEAN,                  \* completions may be delivered twice
        crashes : BOOLEAN,                  \* the API may die between transactions
        outlast : BOOLEAN,                  \* no build ends before the handler that queued it
        staff : SUBSET OrderStatuses,       \* set through POST /orders/{id}/transition
        versions : Nat]                     \* bound: past it nobody moves the order by hand
  /\ None \notin Jobs \cup Bodies \cup OrderStatuses

JobStatuses == {"ABSENT", "PENDING", "LEASED", "PAUSED", "COMPLETED", "FAILED"}

JobType == IF setting.drawing THEN "ANALYZE_DRAWING" ELSE "BUILD_CAD"

\* What a worker may deliver.  A drawing's delivery always has a questions file:
\* "QUESTIONS" says it is not empty, which it may be beside a model as well.
Outcomes ==
  IF setting.drawing
  THEN {{"ANALYSIS", "MODEL"}, {"ANALYSIS", "QUESTIONS"}, {"ANALYSIS", "QUESTIONS", "MODEL"}}
  ELSE {{"MODEL"}}

Origins == {"upload", "answers", "review"}
NoHold == [step |-> "none", version |-> 0]

\* The key of a round's job: who asked, in which round, with what body.
Key == [by : Origins, round : Nat, body : Bodies \cup {None}]
Round == [key : Key, queued : BOOLEAN]

ASSUME NullAssumption == None \notin Round

Init ==
  /\ setting \in Settings
  /\ order = [status |-> None, version |-> 0, latest |-> None, round |-> 0]
  /\ jobs = [j \in Jobs |-> [status |-> "ABSENT", key |-> None]]
  /\ asked = {} /\ answered = {}
  /\ artifacts = [j \in Jobs |-> {}]
  /\ holds = [j \in Jobs |-> NoHold]
  /\ rounds = [j \in Jobs |-> None]
  /\ page = None
  /\ reviews = {}
-----------------------------------------------------------------------------
Exists == order.status # None

Status(j) == jobs[j].status

\* A job id no handler has used.
Fresh(j) == Status(j) = "ABSENT" /\ rounds[j] = None /\ j # First

\* Wrong on purpose: the version the page showed is not compared.
MayMoveAnyVersion(target, version) == Exists /\ target \in Allowed(order.status)

\* OrderStateService.transition under the row lock.
MayMove(target, version) ==
  /\ Exists
  /\ order.version = version
  /\ target \in Allowed(order.status)

Move(target) ==
  order' = [order EXCEPT !.status = target, !.version = @ + 1]

\* What GET /drawing-jobs/{id} answers; None stands for its 404.
CustomerSees ==
  IF ~Exists \/ Status(order.latest) = "ABSENT" THEN None
  ELSE OrderStatus(order.status, JobType, Status(order.latest), artifacts[order.latest])
-----------------------------------------------------------------------------
(* Starting a round.                                                       *)

\* create_drawing_job, create_manual_cad_job: the row is written first.
Create ==
  /\ ~Exists
  /\ order' = [order EXCEPT !.status = "WAITING_FOR_LOCAL_WORKER", !.latest = First]
  /\ rounds' = [rounds EXCEPT ![First] =
       [key |-> [by |-> "upload", round |-> 0, body |-> None], queued |-> FALSE]]
  /\ UNCHANGED <<setting, jobs, asked, artifacts, holds, page, reviews, answered>>

\* answer_drawing_questions, up to the enqueue: the latest job's questions file
\* and the round number are read, and nothing else about the order or the job,
\* neither a status nor a model beside the questions.
Answer(j, body) ==
  /\ Exists /\ setting.drawing
  /\ order.latest \in asked
  /\ order.round < RoundLimit
  /\ Fresh(j)
  /\ Cardinality({k \in Jobs : rounds[k] # None /\ rounds[k].key.by = "answers"})
       < setting.submissions
  /\ rounds' = [rounds EXCEPT ![j] =
       [key |-> [by |-> "answers", round |-> order.round + 1, body |-> body],
        queued |-> FALSE]]
  /\ answered' = answered \cup {order.latest}
  /\ UNCHANGED <<setting, order, jobs, asked, artifacts, holds, page, reviews>>

\* The unique key refuses a second job for the same request, and the handler
\* ends there.
EnqueueRound(j) ==
  /\ rounds[j] # None /\ ~rounds[j].queued
  /\ IF \E k \in Jobs : jobs[k].key = rounds[j].key
     THEN rounds' = [rounds EXCEPT ![j] = None] /\ UNCHANGED jobs
     ELSE /\ jobs' = [jobs EXCEPT ![j] = [status |-> "PENDING", key |-> rounds[j].key]]
          /\ rounds' = [rounds EXCEPT ![j] =
               IF @.key.by = "upload" THEN None ELSE [@ EXCEPT !.queued = TRUE]]
  /\ UNCHANGED <<setting, order, asked, artifacts, holds, page, reviews, answered>>

\* Wrong on purpose: the order is pointed at the job before it is queued.
RecordRoundEarly(j) ==
  /\ rounds[j] # None
  /\ order' = [order EXCEPT !.latest = j, !.round = rounds[j].key.round]
  /\ rounds' = IF rounds[j].queued THEN [rounds EXCEPT ![j] = None] ELSE rounds
  /\ UNCHANGED <<setting, jobs, asked, artifacts, holds, page, reviews, answered>>

\* record_round: neither the status nor the version is looked at or changed.
RecordRound(j) ==
  /\ rounds[j] # None /\ rounds[j].queued
  /\ order' = [order EXCEPT !.latest = j, !.round = rounds[j].key.round]
  /\ rounds' = [rounds EXCEPT ![j] = None]
  /\ UNCHANGED <<setting, jobs, asked, artifacts, holds, page, reviews, answered>>
-----------------------------------------------------------------------------
(* The jobs.                                                               *)

JobMoves == {<<"PENDING", "LEASED">>, <<"LEASED", "PENDING">>, <<"LEASED", "FAILED">>,
             <<"LEASED", "PAUSED">>, <<"PAUSED", "PENDING">>}

\* Claimed, returned by the sweep, failed, paused or resumed.
MoveJob(j, status) ==
  /\ <<Status(j), status>> \in JobMoves
  /\ jobs' = [jobs EXCEPT ![j].status = status]
  /\ UNCHANGED <<setting, order, asked, artifacts, holds, rounds, page, reviews, answered>>

\* An attempt uploads its questions file, with questions or without; the upload
\* of an attempt before it is overwritten.
StoreQuestions(j, asks) ==
  /\ setting.drawing /\ Status(j) = "LEASED"
  /\ asked' = IF asks THEN asked \cup {j} ELSE asked \ {j}
  /\ UNCHANGED <<setting, order, jobs, artifacts, holds, rounds, page, reviews, answered>>

\* The rows are those of the files, and a round that has its answers builds: only
\* a round without them stops to ask, and then a model is one an earlier attempt
\* left in its directory (Pipeline.cs, DrawingPipeline.cs).
Delivers(j, kinds) ==
  /\ "QUESTIONS" \in kinds <=> j \in asked
  /\ jobs[j].key.by = "answers" => "MODEL" \in kinds

\* _hold_for_review begins, unless the operator has said it need not.
Held(j) == IF setting.hold THEN [holds EXCEPT ![j].step = "read"] ELSE holds

\* Wrong on purpose: questions are held for review as a model is.
CompleteJobAndHold(j, kinds) ==
  /\ Status(j) = "LEASED"
  /\ Delivers(j, kinds)
  /\ setting.outlast => rounds[j] = None
  /\ jobs' = [jobs EXCEPT ![j].status = "COMPLETED"]
  /\ artifacts' = [artifacts EXCEPT ![j] = kinds]
  /\ holds' = Held(j)
  /\ UNCHANGED <<setting, order, asked, rounds, page, reviews, answered>>

\* complete_job, up to the hold.  A completion with a model goes on to it.
CompleteJob(j, kinds) ==
  /\ Status(j) = "LEASED"
  /\ Delivers(j, kinds)
  /\ setting.outlast => rounds[j] = None
  /\ jobs' = [jobs EXCEPT ![j].status = "COMPLETED"]
  /\ artifacts' = [artifacts EXCEPT ![j] = kinds]
  /\ holds' = IF "MODEL" \in kinds THEN Held(j) ELSE holds
  /\ UNCHANGED <<setting, order, asked, rounds, page, reviews, answered>>

\* The acknowledgement of a second delivery runs the hold again.
ReplayCompletion(j) ==
  /\ setting.replays
  /\ Status(j) = "COMPLETED" /\ "MODEL" \in artifacts[j]
  /\ holds[j] = NoHold
  /\ holds' = Held(j)
  /\ UNCHANGED <<setting, order, jobs, asked, artifacts, rounds, page, reviews, answered>>

HoldReads(j) ==
  /\ holds[j].step = "read" /\ Exists
  /\ holds' = [holds EXCEPT ![j] = [step |-> "move", version |-> order.version]]
  /\ UNCHANGED <<setting, order, jobs, asked, artifacts, rounds, page, reviews, answered>>

\* Wrong on purpose: the status the order has is not looked at.
HoldMovesAnyway(j) ==
  /\ holds[j].step = "move"
  /\ holds' = [holds EXCEPT ![j] = NoHold]
  /\ IF order.version = holds[j].version THEN Move("MANUAL_REVIEW") ELSE UNCHANGED order
  /\ UNCHANGED <<setting, jobs, asked, artifacts, rounds, page, reviews, answered>>

\* Wrong on purpose: only an order stored as being read is held.
HoldMovesFromReading(j) ==
  /\ holds[j].step = "move"
  /\ holds' = [holds EXCEPT ![j] = NoHold]
  /\ IF order.status = "DRAWING_ANALYSIS" /\ MayMove("MANUAL_REVIEW", holds[j].version)
     THEN Move("MANUAL_REVIEW")
     ELSE UNCHANGED order
  /\ UNCHANGED <<setting, jobs, asked, artifacts, rounds, page, reviews, answered>>

\* A refusal is logged and swallowed.
HoldMoves(j) ==
  /\ holds[j].step = "move"
  /\ holds' = [holds EXCEPT ![j] = NoHold]
  /\ IF MayMove("MANUAL_REVIEW", holds[j].version)
     THEN Move("MANUAL_REVIEW")
     ELSE UNCHANGED order
  /\ UNCHANGED <<setting, jobs, asked, artifacts, rounds, page, reviews, answered>>
-----------------------------------------------------------------------------
(* The people.                                                             *)

\* The operator's queue shows an order that waits for review.
OpenPage ==
  /\ order.status = "MANUAL_REVIEW"
  /\ page' = [version |-> order.version, latest |-> order.latest]
  /\ UNCHANGED <<setting, order, jobs, asked, artifacts, holds, rounds, reviews, answered>>

Audit(decision, target) ==
  reviews' = reviews \cup
    {[decision |-> decision, before |-> order.version, after |-> target,
      looked_at |-> page.latest]}

\* SqlOrderRepository.review: the status and its audit row together.
Decide(decision, target) ==
  /\ page # None /\ order.version < setting.versions
  /\ MayMove(target, page.version)
  /\ Move(target)
  /\ Audit(decision, target)
  /\ UNCHANGED <<setting, jobs, asked, artifacts, holds, page, answered>>

Approve == Decide("approve", "READY") /\ UNCHANGED rounds
Reject == Decide("reject", "FAILED") /\ UNCHANGED rounds

\* An order with no drawing has nothing to read again, and the restart is
\* skipped (_restart_reading).  The note is part of the key.
RequestChanges ==
  /\ Decide("request_changes", "DRAWING_ANALYSIS")
  /\ IF ~setting.drawing THEN UNCHANGED rounds
     ELSE \E j \in Jobs, note \in Bodies :
            /\ Fresh(j)
            /\ rounds' = [rounds EXCEPT ![j] =
                 [key |-> [by |-> "review", round |-> order.round + 1, body |-> note],
                  queued |-> FALSE]]

\* POST /orders/{id}/transition: a customer may only cancel, staff may ask for
\* anything the state machine allows.  A refused request changes nothing.
TransitionOrder(target) ==
  /\ order.version < setting.versions
  /\ MayMove(target, order.version)
  /\ Move(target)
  /\ UNCHANGED <<setting, jobs, asked, artifacts, holds, rounds, page, reviews, answered>>

\* The API process dies with the handlers it was running.
Crash ==
  /\ setting.crashes
  /\ holds' = [j \in Jobs |-> NoHold]
  /\ rounds' = [j \in Jobs |-> None]
  /\ UNCHANGED <<setting, order, jobs, asked, artifacts, page, reviews, answered>>

Next ==
  \/ Create
  \/ \E j \in Jobs, body \in Bodies : Answer(j, body)
  \/ \E j \in Jobs : EnqueueRound(j)
  \/ \E j \in Jobs : RecordRound(j)
  \/ \E j \in Jobs, status \in JobStatuses : MoveJob(j, status)
  \/ \E j \in Jobs, asks \in BOOLEAN : StoreQuestions(j, asks)
  \/ \E j \in Jobs, kinds \in Outcomes : CompleteJob(j, kinds)
  \/ \E j \in Jobs : ReplayCompletion(j)
  \/ \E j \in Jobs : HoldReads(j)
  \/ \E j \in Jobs : HoldMoves(j)
  \/ OpenPage
  \/ Approve
  \/ Reject
  \/ RequestChanges
  \/ \E target \in {"CANCELLED"} \cup setting.staff : TransitionOrder(target)
  \/ Crash

Spec == Init /\ [][Next]_vars

\* A handler that is running goes on to its next transaction.
Fairness ==
  \A j \in Jobs : /\ WF_vars(HoldReads(j) \/ HoldMoves(j))
                 /\ WF_vars(EnqueueRound(j) \/ RecordRound(j))

FairSpec == Spec /\ Fairness
-----------------------------------------------------------------------------
(* Properties.                                                             *)

OrderRow == [status : OrderStatuses \cup {None}, version : Nat,
             latest : Jobs \cup {None}, round : Nat]
JobRow == [status : JobStatuses, key : Key \cup {None}]
Hold == [step : {"none", "read", "move"}, version : Nat]

\* The rows and the handlers in flight are what the schema allows.
TypeOK ==
  /\ setting \in Settings
  /\ order \in OrderRow
  /\ jobs \in [Jobs -> JobRow]
  /\ asked \subseteq Jobs /\ answered \subseteq Jobs
  /\ artifacts \in [Jobs -> {{}} \cup Outcomes]
  /\ holds \in [Jobs -> Hold]
  /\ rounds \in [Jobs -> Round \cup {None}]
  /\ page \in [version : Nat, latest : Jobs] \cup {None}

\* An order that is past its first job never points at a job that was not
\* queued, wherever the API dies (main.py, answer_drawing_questions: "a round
\* recorded against a job that was never queued is an order pointing at
\* nothing").
RoundsPointAtQueuedJobs ==
  Exists /\ order.latest # First => Status(order.latest) # "ABSENT"

\* One answer at a time, every completion delivered once and after its handler,
\* no crash, and staff decide through the review endpoint.
Careful ==
  /\ setting.submissions = 1 /\ setting.staff = {}
  /\ setting.outlast /\ ~setting.replays /\ ~setting.crashes

\* Questions were answered of a job that delivers, or has delivered, a model too:
\* the order is pointed away from it, whatever has become of it.
Crossed == \E j \in answered : "MODEL" \in artifacts[j]

\* What the operator's queue holds, and what was released, is an order whose
\* answering job has a model to look at, unless answers crossed a model.
HeldOrderHasModel ==
  Careful /\ order.status \in {"MANUAL_REVIEW", "READY"} =>
    "MODEL" \in artifacts[order.latest] \/ Crossed

\* An approval is of the job the operator was shown, and that job is still the
\* one the customer is given, unless answers crossed a model (ADR-038: an
\* approval of whatever it is now is an approval of something the operator has
\* not looked at).
ReleasedIsWhatWasSeen ==
  Careful /\ order.status = "READY" =>
    \/ \A review \in reviews : review.after = "READY" => review.looked_at = order.latest
    \/ Crossed

\* The model a customer is given was looked at by whoever approved it (ADR-038:
\* "no part reaches a customer without somebody having looked at it").
NoPartIsUnseen ==
  Careful /\ order.status = "READY" /\ "MODEL" \in artifacts[order.latest] =>
    \E review \in reviews : review.after = "READY" /\ review.looked_at = order.latest

\* What the customer must not be told for long (ADR-038: no part reaches a
\* customer without somebody having looked at it).
UnreviewedReady == CustomerSees = "READY" /\ order.status # "READY"

\* An unreviewed order that reads as READY does not stay so: the hold comes, or
\* the new round does.
UnreviewedReadyEnds ==
  Careful /\ setting.hold /\ setting.drawing /\ UnreviewedReady ~> ~UnreviewedReady \/ Crossed

\* The same of an order without a drawing, which has nothing to read again.
EveryUnreviewedReadyEnds == Careful /\ setting.hold /\ UnreviewedReady ~> ~UnreviewedReady

\* Once an order has ended its customer is told the same for ever, whatever
\* completions, holds and rounds are still under way.
AnEndIsAnEnd ==
  [][order.status \in {"READY", "FAILED", "CANCELLED", "EXPIRED"} =>
       order'.status = order.status /\ CustomerSees' \in {CustomerSees, order.status}]_vars
=============================================================================
