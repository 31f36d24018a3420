-------------------------- MODULE OrderDeskProofs --------------------------
(***************************************************************************)
(* Two things that hold of an order however it is used, with any number of *)
(* rounds, concurrent answers, replayed completions and crashes: it never  *)
(* points at a job that was not queued, and once it has ended its customer *)
(* is told the same for ever.  And two that hold while it is used with     *)
(* care, until answers cross a model: what is held or released has a       *)
(* model, and what is released is what the operator saw.  The customer's   *)
(* page only uses the desk, so what holds of every order holds under it.   *)
(*                                                                         *)
(* None is inductive.  A round that is about to be recorded must have been *)
(* queued (QueuedRoundsAreJobs), and a queued job stays one, which is a    *)
(* fact about every handler; without it a late round would turn the end of *)
(* an order into a page that is not found.  The last two need Steady: that *)
(* a careful desk has one thing going on at a time.  The last part is      *)
(* about the customer's page: a write is refused for good only if it was   *)
(* not alone.                                                              *)
(***************************************************************************)
EXTENDS Studio, FiniteSetTheorems, TLAPS

-----------------------------------------------------------------------------
(* The types.                                                              *)

LEMMA RowsOfAnOrder ==
  ASSUME NEW row \in OrderRow, NEW j \in Jobs
  PROVE  /\ \A status \in OrderStatuses :
              [row EXCEPT !.status = status, !.latest = j] \in OrderRow
         /\ \A n \in Nat : [row EXCEPT !.latest = j, !.round = n] \in OrderRow
BY DEF OrderRow

LEMMA RowsOfAJob ==
  ASSUME NEW row \in JobRow, NEW status \in JobStatuses
  PROVE  [row EXCEPT !.status = status] \in JobRow
BY DEF JobRow

LEMMA RowsOfAHold ==
  /\ NoHold \in Hold
  /\ \A hold \in Hold : [hold EXCEPT !.step = "read"] \in Hold
  /\ \A n \in Nat : [step |-> "move", version |-> n] \in Hold
BY DEF Hold, NoHold

LEMMA RowsOfARound ==
  ASSUME NEW by \in Origins, NEW n \in Nat, NEW body \in Bodies \cup {None}
  PROVE  [key |-> [by |-> by, round |-> n, body |-> body], queued |-> FALSE] \in Round
<1>1. [by |-> by, round |-> n, body |-> body] \in Key
  BY DEF Key
<1>2. FALSE \in BOOLEAN
  OBVIOUS
<1> QED BY <1>1, <1>2 DEF Round

LEMMA QueuedIsARound ==
  ASSUME NEW round \in Round
  PROVE  [round EXCEPT !.queued = TRUE] \in Round
<1>1. TRUE \in BOOLEAN
  OBVIOUS
<1> QED BY <1>1 DEF Round

LEMMA AllowedAreStatuses ==
  ASSUME NEW status
  PROVE  Allowed(status) \subseteq OrderStatuses
BY DEF Allowed, OrderStatuses

LEMMA OutcomesStand == setting' = setting => Outcomes' = Outcomes
BY DEF Outcomes

LEMMA InitTypeOK == Init => TypeOK
<1> SUFFICES ASSUME Init
             PROVE  TypeOK
  OBVIOUS
<1>1. order \in OrderRow /\ jobs \in [Jobs -> JobRow]
  BY DEF Init, OrderRow, JobRow, JobStatuses
<1> QED BY <1>1, RowsOfAHold DEF Init, TypeOK

LEMMA MoveKeepsOrder ==
  ASSUME order \in OrderRow, NEW version, NEW target, MayMove(target, version), Move(target)
  PROVE  order' \in OrderRow
<1>1. order' = [status |-> target, version |-> order.version + 1,
                latest |-> order.latest, round |-> order.round]
  BY DEF OrderRow, Move
<1>2. order.version + 1 \in Nat /\ order.round \in Nat /\ order.latest \in Jobs \cup {None}
  BY DEF OrderRow
<1>3. target \in OrderStatuses \cup {None}
  BY AllowedAreStatuses DEF MayMove
<1> QED BY <1>1, <1>2, <1>3 DEF OrderRow

\* A handler that starts or records a round.
LEMMA RoundStepKeepsType ==
  ASSUME TypeOK, NEW j \in Jobs,
         \/ \E body \in Bodies : Answer(j, body)
         \/ EnqueueRound(j) \/ RecordRound(j)
  PROVE  TypeOK'
<1> USE DEF TypeOK
<1>0. order.round \in Nat /\ order.round + 1 \in Nat
  BY DEF OrderRow
<1>1. ASSUME NEW body \in Bodies, Answer(j, body)
      PROVE  TypeOK'
  <2>1. [key |-> [by |-> "answers", round |-> order.round + 1, body |-> body],
         queued |-> FALSE] \in Round
    BY <1>0, RowsOfARound DEF Origins
  <2>2. answered' \subseteq Jobs
    BY <1>1 DEF Answer
  <2> QED BY <1>1, <2>1, <2>2, OutcomesStand DEF Answer
<1>2. CASE EnqueueRound(j)
  <2>1. rounds[j] \in Round /\ rounds[j].key \in Key
    BY <1>2 DEF EnqueueRound, Round
  <2>2. rounds' \in [Jobs -> Round \cup {None}]
    BY <1>2, <2>1, QueuedIsARound DEF EnqueueRound
  <2>3. jobs' \in [Jobs -> JobRow]
    <3>1. [status |-> "PENDING", key |-> rounds[j].key] \in JobRow
      BY <2>1 DEF JobRow, JobStatuses
    <3> QED BY <1>2, <3>1 DEF EnqueueRound
  <2> QED BY <1>2, <2>2, <2>3, OutcomesStand DEF EnqueueRound
<1>3. CASE RecordRound(j)
  <2>1. rounds[j].key.round \in Nat
    BY <1>3 DEF RecordRound, Round, Key
  <2> QED BY <1>3, <2>1, RowsOfAnOrder, OutcomesStand DEF RecordRound
<1> QED BY <1>1, <1>2, <1>3

LEMMA JobStepKeepsType ==
  ASSUME TypeOK, NEW j \in Jobs,
         \/ \E status \in JobStatuses : MoveJob(j, status)
         \/ \E asks \in BOOLEAN : StoreQuestions(j, asks)
         \/ \E kinds \in Outcomes : CompleteJob(j, kinds)
         \/ ReplayCompletion(j) \/ HoldReads(j) \/ HoldMoves(j)
  PROVE  TypeOK'
<1> USE DEF TypeOK
<1>1. CASE \E status \in JobStatuses : MoveJob(j, status)
  BY <1>1, RowsOfAJob, OutcomesStand DEF MoveJob
<1>2. ASSUME NEW kinds \in Outcomes, CompleteJob(j, kinds)
      PROVE  TypeOK'
  <2>1. jobs' \in [Jobs -> JobRow]
    BY <1>2, RowsOfAJob DEF CompleteJob, JobStatuses
  <2>2. holds' \in [Jobs -> Hold]
    BY <1>2, RowsOfAHold DEF CompleteJob, Held
  <2>3. artifacts' \in [Jobs -> {{}} \cup Outcomes]
    BY <1>2 DEF CompleteJob
  <2> QED BY <1>2, <2>1, <2>2, <2>3, OutcomesStand DEF CompleteJob
<1>3. CASE ReplayCompletion(j)
  BY <1>3, RowsOfAHold, OutcomesStand DEF ReplayCompletion, Held
<1>4. CASE HoldReads(j)
  <2>1. order.version \in Nat
    BY DEF OrderRow
  <2> QED BY <1>4, <2>1, RowsOfAHold, OutcomesStand DEF HoldReads
<1>5. CASE HoldMoves(j)
  <2>1. order' \in OrderRow
    BY <1>5, MoveKeepsOrder DEF HoldMoves
  <2> QED BY <1>5, <2>1, RowsOfAHold, OutcomesStand DEF HoldMoves
<1>6. CASE \E asks \in BOOLEAN : StoreQuestions(j, asks)
  BY <1>6, OutcomesStand DEF StoreQuestions
<1> QED BY <1>1, <1>2, <1>3, <1>4, <1>5, <1>6

\* An order in the table has been given its first job.
HasAJob == Exists => order.latest \in Jobs

\* What the operator and the customer do, and the loss of the process.
LEMMA PeopleStepKeepsType ==
  ASSUME TypeOK, HasAJob,
         \/ Create \/ OpenPage \/ Approve \/ Reject \/ RequestChanges
         \/ \E target \in {"CANCELLED"} \cup setting.staff : TransitionOrder(target)
         \/ Crash
  PROVE  TypeOK'
<1> USE DEF TypeOK
<1>0. order.round + 1 \in Nat /\ order.version \in Nat
  BY DEF OrderRow
<1>1. CASE Create
  <2>1. [key |-> [by |-> "upload", round |-> 0, body |-> None], queued |-> FALSE] \in Round
    BY RowsOfARound DEF Origins
  <2>2. order' \in OrderRow
    BY <1>1, RowsOfAnOrder, DeskAssumption DEF Create, OrderStatuses
  <2>3. rounds' \in [Jobs -> Round \cup {None}]
    BY <1>1, <2>1 DEF Create
  <2> QED BY <1>1, <2>2, <2>3, OutcomesStand DEF Create
<1>2. CASE OpenPage
  <2>1. order.latest \in Jobs
    BY <1>2, DeskAssumption DEF OpenPage, HasAJob, Exists, OrderStatuses
  <2> QED BY <1>0, <1>2, <2>1, OutcomesStand DEF OpenPage
<1>3. CASE Approve
  BY <1>3, MoveKeepsOrder, OutcomesStand DEF Approve, Decide
<1>4. CASE Reject
  BY <1>4, MoveKeepsOrder, OutcomesStand DEF Reject, Decide
<1>5. CASE RequestChanges
  <2>1. order' \in OrderRow
    BY <1>5, MoveKeepsOrder DEF RequestChanges, Decide
  <2>2. \A note \in Bodies :
          [key |-> [by |-> "review", round |-> order.round + 1, body |-> note],
           queued |-> FALSE] \in Round
    BY <1>0, RowsOfARound DEF Origins
  <2>3. rounds' \in [Jobs -> Round \cup {None}]
    BY <1>5, <2>2 DEF RequestChanges
  <2> QED BY <1>5, <2>1, <2>3, OutcomesStand DEF RequestChanges, Decide
<1>6. CASE \E target \in {"CANCELLED"} \cup setting.staff : TransitionOrder(target)
  BY <1>6, MoveKeepsOrder, OutcomesStand DEF TransitionOrder
<1>7. CASE Crash
  BY <1>7, RowsOfAHold, OutcomesStand DEF Crash
<1> QED BY <1>1, <1>2, <1>3, <1>4, <1>5, <1>6, <1>7

LEMMA StepKeepsType == TypeOK /\ HasAJob /\ [Next]_vars => TypeOK'
<1> SUFFICES ASSUME TypeOK, HasAJob, [Next]_vars
             PROVE  TypeOK'
  OBVIOUS
<1>1. CASE UNCHANGED vars
  BY <1>1, OutcomesStand DEF vars, TypeOK
<1>2. CASE Next
  BY <1>2, RoundStepKeepsType, JobStepKeepsType, PeopleStepKeepsType DEF Next
<1> QED BY <1>1, <1>2
-----------------------------------------------------------------------------
(* Rounds and the jobs they name.                                          *)

\* A round past its enqueue has a job.
QueuedRoundsAreJobs ==
  \A j \in Jobs : rounds[j] # None /\ rounds[j].queued => Status(j) # "ABSENT"

IInv == TypeOK /\ HasAJob /\ QueuedRoundsAreJobs /\ RoundsPointAtQueuedJobs

\* A job that was queued is in the table for good.
LEMMA QueuedForGood ==
  ASSUME TypeOK, [Next]_vars, NEW j \in Jobs, Status(j) # "ABSENT"
  PROVE  Status(j)' # "ABSENT"
<1> USE DEF Status, TypeOK
<1>1. CASE \E k \in Jobs : EnqueueRound(k)
  BY <1>1 DEF EnqueueRound
<1>2. CASE \E k \in Jobs, status \in JobStatuses : MoveJob(k, status)
  BY <1>2 DEF MoveJob, JobMoves, JobRow
<1>3. CASE \E k \in Jobs, kinds \in Outcomes : CompleteJob(k, kinds)
  BY <1>3 DEF CompleteJob, JobRow
<1>4. CASE jobs' = jobs
  BY <1>4
<1> QED
  BY <1>1, <1>2, <1>3, <1>4
     DEF Next, vars, Create, Answer, RecordRound, StoreQuestions, ReplayCompletion, HoldReads,
         HoldMoves, OpenPage, Approve, Reject, RequestChanges, Decide, TransitionOrder, Crash

\* What the order points at changes when it is written, and with a round whose
\* job is queued.
LEMMA PointedAnew ==
  ASSUME IInv, [Next]_vars
  PROVE  \/ ~Exists /\ order'.latest = First
         \/ order'.latest = order.latest /\ (Exists <=> Exists')
         \/ order'.latest \in Jobs /\ Status(order'.latest) # "ABSENT" /\ (Exists <=> Exists')
<1> USE DEF IInv, TypeOK, OrderRow
<1>1. CASE Create
  BY <1>1 DEF Create
<1>2. CASE \E j \in Jobs : RecordRound(j)
  BY <1>2 DEF RecordRound, QueuedRoundsAreJobs, Exists
<1>3. ASSUME NEW target, NEW version, MayMove(target, version), Move(target)
      PROVE  order'.latest = order.latest /\ Exists /\ Exists'
  BY <1>3, AllowedAreStatuses, DeskAssumption DEF MayMove, Move, Exists
<1>4. CASE \E j \in Jobs : HoldMoves(j)
  BY <1>3, <1>4 DEF HoldMoves, Exists
<1>5. CASE Approve \/ Reject \/ RequestChanges
  BY <1>3, <1>5 DEF Approve, Reject, RequestChanges, Decide
<1>6. CASE \E target \in {"CANCELLED"} \cup setting.staff : TransitionOrder(target)
  BY <1>3, <1>6 DEF TransitionOrder
<1>7. CASE order' = order
  BY <1>7 DEF Exists
<1> QED
  BY <1>1, <1>2, <1>4, <1>5, <1>6, <1>7
     DEF Next, vars, Answer, EnqueueRound, MoveJob, StoreQuestions, CompleteJob, ReplayCompletion,
         HoldReads, OpenPage, Crash

LEMMA StepKeepsQueuedRounds ==
  ASSUME IInv, [Next]_vars
  PROVE  QueuedRoundsAreJobs'
<1> SUFFICES ASSUME NEW j \in Jobs, (rounds[j] # None /\ rounds[j].queued)'
             PROVE  Status(j)' # "ABSENT"
  BY DEF QueuedRoundsAreJobs
<1> USE DEF IInv, TypeOK
<1>1. CASE rounds'[j] = rounds[j]
  BY <1>1, QueuedForGood DEF QueuedRoundsAreJobs
<1>2. CASE EnqueueRound(j)
  BY <1>2 DEF EnqueueRound, Status
<1>3. ASSUME NEW k \in Jobs, NEW key,
             rounds' = [rounds EXCEPT ![k] = [key |-> key, queued |-> FALSE]]
      PROVE  Status(j)' # "ABSENT"
  <2>1. k # j
    <3> SUFFICES ASSUME k = j
                 PROVE  FALSE
      OBVIOUS
    <3>1. rounds'[j] = [key |-> key, queued |-> FALSE]
      BY <1>3
    <3>2. ~rounds'[j].queued
      BY <3>1
    <3> QED BY <3>2
  <2> QED BY <1>1, <1>3, <2>1
<1>4. CASE \E k \in Jobs : RecordRound(k)
  BY <1>1, <1>4 DEF RecordRound
<1>5. CASE \E k \in Jobs : EnqueueRound(k) /\ k # j
  BY <1>1, <1>5 DEF EnqueueRound
<1>6. CASE Crash
  BY <1>6 DEF Crash
<1>7. CASE Create
  BY <1>3, <1>7, DeskAssumption DEF Create
<1>8. CASE RequestChanges
  <2>1. CASE setting.drawing
    BY <1>3, <1>8, <2>1 DEF RequestChanges
  <2>2. CASE ~setting.drawing
    BY <1>1, <1>8, <2>2 DEF RequestChanges
  <2> QED BY <2>1, <2>2
<1>9. CASE \E k \in Jobs, body \in Bodies : Answer(k, body)
  BY <1>3, <1>9 DEF Answer
<1> QED
  BY <1>1, <1>2, <1>4, <1>5, <1>6, <1>7, <1>8, <1>9
     DEF Next, vars, MoveJob, StoreQuestions, CompleteJob, ReplayCompletion, HoldReads, HoldMoves,
         OpenPage, Approve, Reject, Decide, TransitionOrder

LEMMA InitIInv == Init => IInv
BY InitTypeOK DEF Init, IInv, HasAJob, QueuedRoundsAreJobs, RoundsPointAtQueuedJobs, Exists

LEMMA StepKeepsIInv == IInv /\ [Next]_vars => IInv'
<1> SUFFICES ASSUME IInv, [Next]_vars
             PROVE  IInv'
  OBVIOUS
<1>1. TypeOK'
  BY StepKeepsType DEF IInv
<1>2. HasAJob'
  BY PointedAnew, DeskAssumption DEF IInv, HasAJob
<1>3. QueuedRoundsAreJobs'
  BY StepKeepsQueuedRounds
<1>4. RoundsPointAtQueuedJobs'
  <2> SUFFICES ASSUME Exists', order'.latest # First
               PROVE  Status(order.latest)' # "ABSENT"
    BY DEF RoundsPointAtQueuedJobs
  <2>1. order'.latest \in Jobs /\ Status(order'.latest) # "ABSENT"
    BY PointedAnew DEF IInv, HasAJob, RoundsPointAtQueuedJobs
  <2> QED BY <2>1, QueuedForGood DEF IInv, Status
<1> QED BY <1>1, <1>2, <1>3, <1>4 DEF IInv

LEMMA Invariant == Spec => []IInv
BY InitIInv, StepKeepsIInv, PTL DEF Spec

\* The rows and the handlers in flight keep their types, whatever the rounds.
THEOREM TypeCorrect == Spec => []TypeOK
<1>1. IInv => TypeOK
  BY DEF IInv
<1> QED BY <1>1, Invariant, PTL

\* answer_drawing_questions and _restart_reading queue the job of a round before
\* they point the order at it, so no crash leaves an order pointing at nothing.
THEOREM RoundsArePointedAt == Spec => []RoundsPointAtQueuedJobs
<1>1. IInv => RoundsPointAtQueuedJobs
  BY DEF IInv
<1> QED BY <1>1, Invariant, PTL

\* An end has no transition out of it (ALLOWED_TRANSITIONS) and outranks what the
\* jobs say (order_status), and a late round leaves the customer's page in place.
LEMMA EndStands ==
  ASSUME IInv, [Next]_vars, order.status \in {"READY", "FAILED", "CANCELLED", "EXPIRED"}
  PROVE  order'.status = order.status /\ CustomerSees' \in {CustomerSees, order.status}
<1> USE DEF IInv, TypeOK, OrderRow
<1>0. Exists /\ Allowed(order.status) = {} /\ order.status \in Decided
  BY DeskAssumption DEF Exists, Allowed, Decided, OrderStatuses
<1>1. ASSUME NEW target, NEW version
      PROVE  ~MayMove(target, version)
  BY <1>0 DEF MayMove
<1>2. order'.status = order.status
  BY <1>0, <1>1
     DEF Next, vars, Create, Answer, EnqueueRound, RecordRound, MoveJob, StoreQuestions,
         CompleteJob, ReplayCompletion, HoldReads, HoldMoves, OpenPage, Approve, Reject,
         RequestChanges, Decide, TransitionOrder, Crash
<1>3. CustomerSees = IF Status(order.latest) = "ABSENT" THEN None ELSE order.status
  BY <1>0 DEF CustomerSees, OrderStatus
<1>4. CustomerSees' = IF Status(order.latest)' = "ABSENT" THEN None ELSE order.status
  BY <1>0, <1>2 DEF CustomerSees, OrderStatus, Exists
<1>5. Status(order.latest) # "ABSENT" => Status(order.latest)' # "ABSENT"
  <2>1. \/ order'.latest = order.latest
        \/ order'.latest \in Jobs /\ Status(order'.latest) # "ABSENT"
    BY <1>0, PointedAnew
  <2>2. order.latest \in Jobs
    BY <1>0 DEF HasAJob
  <2> QED BY <2>1, <2>2, QueuedForGood DEF Status
<1> QED BY <1>2, <1>3, <1>4, <1>5

\* Once an order has ended its customer is told the same for ever.
THEOREM EndsStand == Spec => AnEndIsAnEnd
<1>1. IInv /\ [Next]_vars =>
        [order.status \in {"READY", "FAILED", "CANCELLED", "EXPIRED"} =>
           order'.status = order.status /\ CustomerSees' \in {CustomerSees, order.status}]_vars
  BY EndStands
<1> QED BY <1>1, Invariant, PTL DEF Spec, AnEndIsAnEnd
-----------------------------------------------------------------------------
(* A careful desk.  While answers come one at a time, completions once and *)
(* after their handler, and nothing crashes, an order has one thing going  *)
(* on: a round in hand, or a job at work, or a hold, or a review.          *)

InHand(j) == rounds[j] # None

\* However the desk is used, a round takes a job nobody has queued, and only a
\* completed job has delivered.
NothingBefore == ~Exists => \A j \in Jobs : Status(j) = "ABSENT" /\ ~InHand(j)

RoundsAreNew == \A j \in Jobs : InHand(j) /\ ~rounds[j].queued => Status(j) = "ABSENT"

DeliveredIsCompleted == \A j \in Jobs : artifacts[j] # {} => Status(j) = "COMPLETED"

AskingIsQueued == \A j \in asked : Status(j) # "ABSENT"

DeskInv == IInv /\ NothingBefore /\ RoundsAreNew /\ DeliveredIsCompleted /\ AskingIsQueued

\* Why a round was started is still so when it is recorded.
Follows(round) ==
  /\ round.key.by = "upload" => order.latest = First /\ Status(First) = "ABSENT"
  /\ round.key.by = "answers" => order.latest \in answered
  /\ round.key.by = "review" =>
       "MODEL" \in artifacts[order.latest] /\ order.status = "DRAWING_ANALYSIS"

RoundsFollow ==
  \A j \in Jobs : InHand(j) =>
    /\ Follows(rounds[j])
    /\ (rounds[j].key.by = "upload") <=> (j = First)
    /\ \A k \in Jobs : InHand(k) => k = j

WorkIsKnown ==
  \A j \in Jobs :
    Status(j) \in {"PENDING", "LEASED", "PAUSED"} =>
      InHand(j) \/ j = order.latest \/ j \in answered

HoldsFollow ==
  \A j \in Jobs : holds[j].step # "none" =>
    /\ j = order.latest /\ "MODEL" \in artifacts[j] /\ order.status # "MANUAL_REVIEW"
    /\ \A k \in Jobs : ~InHand(k)

\* A page that can still be decided on shows the order as it is.
PageFollows ==
  page # None =>
    /\ page.version <= order.version
    /\ page.version = order.version =>
         order.status = "MANUAL_REVIEW" /\ page.latest = order.latest

ReviewsFollow ==
  \A review \in reviews :
    review.after = "READY" => order.status = "READY" /\ review.looked_at = order.latest

HeldHasModel ==
  order.status \in {"MANUAL_REVIEW", "READY"} => "MODEL" \in artifacts[order.latest]

Steady ==
  /\ RoundsFollow /\ WorkIsKnown /\ HoldsFollow
  /\ HeldHasModel /\ PageFollows /\ ReviewsFollow

LEMMA AnsweredHaveNone ==
  ASSUME ~Crossed, NEW j \in answered
  PROVE  "MODEL" \notin artifacts[j]
BY DEF Crossed

\* What a round or a job becomes.
LEMMA NewRoundStands ==
  ASSUME TypeOK, NEW j \in Jobs, NEW key, Status(j) = "ABSENT",
         rounds' = [rounds EXCEPT ![j] = [key |-> key, queued |-> FALSE]], jobs' = jobs,
         RoundsAreNew
  PROVE  RoundsAreNew'
BY DEF TypeOK, RoundsAreNew, InHand, Status

LEMMA StepKeepsDeskInv == DeskInv /\ [Next]_vars => DeskInv'
<1> SUFFICES ASSUME DeskInv, [Next]_vars
             PROVE  DeskInv'
  OBVIOUS
<1>1. IInv'
  BY StepKeepsIInv DEF DeskInv
<1> USE DEF DeskInv, IInv, TypeOK, Status, InHand
<1>2. CASE UNCHANGED <<jobs, rounds, artifacts, asked>> /\ (Exists => Exists')
  BY <1>1, <1>2 DEF NothingBefore, RoundsAreNew, DeliveredIsCompleted, AskingIsQueued
<1>0. asked' = asked => AskingIsQueued'
  <2> SUFFICES ASSUME asked' = asked, NEW j \in asked
               PROVE  Status(j)' # "ABSENT"
    BY DEF AskingIsQueued
  <2> QED BY QueuedForGood DEF AskingIsQueued
<1>3. CASE Create
  <2>1. RoundsAreNew'
    BY <1>3, NewRoundStands, DeskAssumption DEF Create, NothingBefore
  <2>2. Exists'
    BY <1>3, DeskAssumption DEF Create, Exists, OrderStatuses
  <2> QED BY <1>0, <1>1, <1>3, <2>1, <2>2 DEF Create, NothingBefore, DeliveredIsCompleted
<1>4. ASSUME NEW j \in Jobs, NEW body \in Bodies, Answer(j, body)
      PROVE  DeskInv'
  <2>1. RoundsAreNew'
    BY <1>4, NewRoundStands DEF Answer, Fresh
  <2> QED BY <1>0, <1>1, <1>4, <2>1 DEF Answer, NothingBefore, DeliveredIsCompleted, Exists
<1>5. ASSUME NEW j \in Jobs, EnqueueRound(j)
      PROVE  DeskInv'
  <2>1. InHand(j) /\ ~rounds[j].queued /\ Status(j) = "ABSENT" /\ Exists /\ Exists'
    BY <1>5 DEF EnqueueRound, RoundsAreNew, NothingBefore, Exists
  <2>2. CASE \E k \in Jobs : jobs[k].key = rounds[j].key
    BY <1>0, <1>1, <1>5, <2>1, <2>2
       DEF EnqueueRound, NothingBefore, RoundsAreNew, DeliveredIsCompleted
  <2>3. CASE ~\E k \in Jobs : jobs[k].key = rounds[j].key
    <3> DEFINE left == IF rounds[j].key.by = "upload" THEN None
                       ELSE [rounds[j] EXCEPT !.queued = TRUE]
    <3>1. jobs' = [jobs EXCEPT ![j] = [status |-> "PENDING", key |-> rounds[j].key]]
          /\ rounds' = [rounds EXCEPT ![j] = left] /\ UNCHANGED <<artifacts, asked>>
      BY <1>5, <2>3 DEF EnqueueRound
    <3>2. left = None \/ left.queued
      BY <2>1 DEF Round
    <3> HIDE DEF left
    <3>3. artifacts[j] = {}
      BY <2>1 DEF DeliveredIsCompleted
    <3> QED BY <1>0, <1>1, <2>1, <3>1, <3>2, <3>3 DEF NothingBefore, RoundsAreNew, DeliveredIsCompleted
  <2> QED BY <2>2, <2>3
<1>6. ASSUME NEW j \in Jobs, RecordRound(j)
      PROVE  DeskInv'
  <2>1. Exists /\ order'.status = order.status
    BY <1>6 DEF RecordRound, NothingBefore, OrderRow
  <2> QED BY <1>0, <1>1, <1>6, <2>1
          DEF RecordRound, NothingBefore, RoundsAreNew, DeliveredIsCompleted, Exists
<1>7. ASSUME NEW j \in Jobs, UNCHANGED <<order, rounds>>, Status(j) # "ABSENT",
             \/ \E status \in JobStatuses : MoveJob(j, status)
             \/ \E kinds \in Outcomes : CompleteJob(j, kinds)
             \/ \E asks \in BOOLEAN : StoreQuestions(j, asks)
      PROVE  DeskInv'
  <2>1. \A k \in Jobs : Status(k)' # Status(k) => Status(k) # "ABSENT"
    BY <1>7 DEF MoveJob, CompleteJob, StoreQuestions, JobRow
  <2>2. Exists /\ Exists'
    BY <1>7 DEF NothingBefore, Exists
  <2>3. RoundsAreNew'
    BY <1>7, <2>1 DEF RoundsAreNew
  <2>4. DeliveredIsCompleted'
    BY <1>7 DEF MoveJob, JobMoves, CompleteJob, StoreQuestions, JobRow, DeliveredIsCompleted
  <2>5. AskingIsQueued'
    BY <1>0, <1>7 DEF MoveJob, CompleteJob, StoreQuestions, AskingIsQueued
  <2> QED BY <1>1, <2>2, <2>3, <2>4, <2>5 DEF NothingBefore
<1>8. CASE Crash
  BY <1>0, <1>1, <1>8 DEF Crash, NothingBefore, RoundsAreNew, DeliveredIsCompleted, Exists
<1>9. CASE RequestChanges
  <2>1. Exists /\ Exists'
    BY <1>9, AllowedAreStatuses, DeskAssumption
       DEF RequestChanges, Decide, MayMove, Move, Exists, OrderRow
  <2>2. RoundsAreNew'
    <3>1. CASE setting.drawing
      BY <1>9, <3>1, NewRoundStands DEF RequestChanges, Decide, Fresh
    <3>2. CASE ~setting.drawing
      BY <1>9, <3>2 DEF RequestChanges, Decide, RoundsAreNew
    <3> QED BY <3>1, <3>2
  <2> QED BY <1>0, <1>1, <1>9, <2>1, <2>2 DEF RequestChanges, Decide, NothingBefore, DeliveredIsCompleted
<1>10. ASSUME NEW target, NEW version, MayMove(target, version), Move(target)
       PROVE  Exists /\ Exists'
  BY <1>10, AllowedAreStatuses, DeskAssumption DEF MayMove, Move, Exists, OrderRow
<1>11. CASE \/ \E j \in Jobs : ReplayCompletion(j) \/ HoldReads(j) \/ HoldMoves(j)
            \/ OpenPage \/ Approve \/ Reject
            \/ \E target \in {"CANCELLED"} \cup setting.staff : TransitionOrder(target)
            \/ UNCHANGED vars
  <2>1. UNCHANGED <<jobs, rounds, artifacts, asked>>
    BY <1>11 DEF ReplayCompletion, HoldReads, HoldMoves, OpenPage, Approve, Reject, Decide,
                 TransitionOrder, vars
  <2>2. Exists => Exists'
    BY <1>10, <1>11 DEF ReplayCompletion, HoldReads, HoldMoves, OpenPage, Approve, Reject, Decide,
                 TransitionOrder, vars, Exists
  <2> QED BY <1>2, <2>1, <2>2
<1>12. CASE \E j \in Jobs, status \in JobStatuses : MoveJob(j, status)
  BY <1>7, <1>12 DEF MoveJob, JobMoves
<1>13. CASE \E j \in Jobs, kinds \in Outcomes : CompleteJob(j, kinds)
  BY <1>7, <1>13 DEF CompleteJob
<1>14. CASE \E j \in Jobs, asks \in BOOLEAN : StoreQuestions(j, asks)
  BY <1>7, <1>14 DEF StoreQuestions
<1> QED BY <1>3, <1>4, <1>5, <1>6, <1>8, <1>9, <1>11, <1>12, <1>13, <1>14 DEF Next

\* A model delivered stays, and so does an answer: what has crossed has crossed.
LEMMA CrossedForGood ==
  ASSUME DeskInv, [Next]_vars, Crossed
  PROVE  Crossed'
<1> USE DEF DeskInv, IInv, TypeOK
<1>1. answered \subseteq answered'
  BY DEF Next, vars, Create, Answer, EnqueueRound, RecordRound, MoveJob, StoreQuestions,
         CompleteJob, ReplayCompletion, HoldReads, HoldMoves, OpenPage, Approve, Reject,
         RequestChanges, Decide, TransitionOrder, Crash
<1>2. \A j \in Jobs : artifacts[j] # {} => artifacts'[j] = artifacts[j]
  <2>1. CASE \E j \in Jobs, kinds \in Outcomes : CompleteJob(j, kinds)
    BY <2>1 DEF CompleteJob, DeliveredIsCompleted
  <2>2. CASE artifacts' = artifacts
    BY <2>2
  <2> QED BY <2>1, <2>2
          DEF Next, vars, Create, Answer, EnqueueRound, RecordRound, MoveJob, StoreQuestions,
              ReplayCompletion, HoldReads, HoldMoves, OpenPage, Approve, Reject,
              RequestChanges, Decide, TransitionOrder, Crash
<1>3. PICK j \in answered : "MODEL" \in artifacts[j]
  BY DEF Crossed
<1>4. j \in answered' /\ artifacts'[j] = artifacts[j]
  BY <1>1, <1>2, <1>3
<1> QED BY <1>3, <1>4 DEF Crossed

\* Between two steps of a careful desk, with no answers that crossed a model.
CarefulNow == DeskInv /\ Careful /\ Steady /\ ~Crossed /\ ~Crossed'

LEMMA NothingFollowsReady == Allowed("READY") = {}
BY DEF Allowed

\* A step that leaves the order, its rounds and its deliveries alone, and whose
\* jobs and holds still belong to what is in hand.
LEMMA StandsStill ==
  ASSUME CarefulNow, UNCHANGED <<order, rounds, artifacts, reviews, answered>>,
         WorkIsKnown', HoldsFollow', PageFollows',
         Status(First)' = "ABSENT" \/ Status(First) # "ABSENT"
  PROVE  Steady'
BY DEF CarefulNow, Steady, RoundsFollow, Follows, InHand, HeldHasModel, ReviewsFollow, Status

LEMMA JobsAreSteady ==
  ASSUME CarefulNow, NEW j \in Jobs,
         \/ \E status \in JobStatuses : MoveJob(j, status)
         \/ \E asks \in BOOLEAN : StoreQuestions(j, asks)
         \/ \E kinds \in Outcomes : CompleteJob(j, kinds)
         \/ ReplayCompletion(j) \/ HoldReads(j)
  PROVE  Steady'
<1> USE DEF CarefulNow, DeskInv, IInv, TypeOK
<1>1. CASE \E status \in JobStatuses : MoveJob(j, status)
  <2>1. \A k \in Jobs : Status(k)' \in {"PENDING", "LEASED", "PAUSED"} =>
          Status(k) \in {"PENDING", "LEASED", "PAUSED"}
    BY <1>1 DEF MoveJob, JobMoves, Status, JobRow
  <2>2. WorkIsKnown' /\ HoldsFollow' /\ PageFollows'
    BY <1>1, <2>1 DEF MoveJob, Steady, WorkIsKnown, HoldsFollow, PageFollows, InHand
  <2>3. Status(First)' = Status(First) \/ Status(First) # "ABSENT"
    BY <1>1, DeskAssumption DEF MoveJob, JobMoves, Status, JobRow
  <2> QED BY <1>1, <2>2, <2>3, StandsStill DEF MoveJob
<1>2. ASSUME NEW kinds \in Outcomes, CompleteJob(j, kinds)
      PROVE  Steady'
  <2>1. UNCHANGED <<order, rounds, page, reviews, answered>>
        /\ ~InHand(j) /\ Status(j) = "LEASED"
        /\ artifacts' = [artifacts EXCEPT ![j] = kinds] /\ artifacts[j] = {}
    BY <1>2 DEF CompleteJob, Careful, InHand, DeliveredIsCompleted
  <2>2. j = order.latest \/ j \in answered
    BY <2>1 DEF Steady, WorkIsKnown
  <2>3. WorkIsKnown'
    BY <1>2, <2>1 DEF CompleteJob, Status, Steady, WorkIsKnown, InHand, JobRow
  <2>4. CASE j \in answered
    <3>1. "MODEL" \notin kinds
      BY <2>1, <2>4 DEF Crossed
    <3>2. holds' = holds
      BY <1>2, <3>1 DEF CompleteJob
    <3>3. \A k \in Jobs : "MODEL" \in artifacts'[k] <=> "MODEL" \in artifacts[k]
      BY <2>1, <3>1
    <3>4. \A k \in Jobs : Status(k) = "ABSENT" <=> Status(k)' = "ABSENT"
      BY <1>2, <2>1 DEF CompleteJob, Status, JobRow
    <3>5. RoundsFollow'
      <4> SUFFICES ASSUME NEW k \in Jobs, InHand(k)'
                   PROVE  /\ Follows(rounds[k])'
                          /\ (rounds[k].key.by = "upload")' <=> (k = First)
                          /\ \A l \in Jobs : InHand(l)' => l = k
        BY DEF RoundsFollow
      <4>1. InHand(k) /\ Follows(rounds[k]) /\ order.latest \in Jobs
        BY <2>1 DEF Steady, RoundsFollow, InHand, NothingBefore, HasAJob
      <4>2. Follows(rounds[k])'
        BY <2>1, <3>3, <3>4, <4>1, DeskAssumption DEF Follows
      <4> QED BY <2>1, <4>1, <4>2 DEF Steady, RoundsFollow, InHand
    <3>6. HeldHasModel'
      <4> SUFFICES ASSUME order.status \in {"MANUAL_REVIEW", "READY"}
                   PROVE  "MODEL" \in artifacts'[order.latest]
        BY <2>1 DEF HeldHasModel
      <4>1. order.latest \in Jobs
        BY DeskAssumption DEF HasAJob, Exists, OrderStatuses
      <4> QED BY <3>3, <4>1 DEF Steady, HeldHasModel
    <3>7. HoldsFollow' /\ PageFollows' /\ ReviewsFollow'
      BY <2>1, <3>2, <3>3
         DEF Steady, HoldsFollow, PageFollows, ReviewsFollow, InHand
    <3> QED BY <2>3, <3>5, <3>6, <3>7 DEF Steady
  <2>5. CASE j = order.latest /\ j \notin answered
    <3>1. \A k \in Jobs : ~InHand(k)
      <4> SUFFICES ASSUME NEW k \in Jobs, InHand(k)
                   PROVE  FALSE
        OBVIOUS
      <4>1. Follows(rounds[k]) /\ rounds[k].key.by \in Origins
        BY DEF Steady, RoundsFollow, InHand, Round, Key
      <4> QED BY <2>1, <2>5, <4>1, DeskAssumption
              DEF Follows, Origins, Steady, RoundsFollow, InHand
    <3>2. order.status \notin {"MANUAL_REVIEW", "READY"}
      BY <2>1, <2>5 DEF Steady, HeldHasModel
    <3>3. \A k \in Jobs : holds[k].step = "none"
      BY <2>1, <2>5 DEF Steady, HoldsFollow
    <3>4. RoundsFollow' /\ HeldHasModel' /\ PageFollows' /\ ReviewsFollow'
      BY <2>1, <3>1, <3>2
         DEF Steady, RoundsFollow, InHand, HeldHasModel, PageFollows, ReviewsFollow
    <3>5. HoldsFollow'
      BY <1>2, <2>1, <2>5, <3>1, <3>2, <3>3 DEF CompleteJob, Held, HoldsFollow, InHand, Hold
    <3> QED BY <2>3, <3>4, <3>5 DEF Steady
  <2> QED BY <2>2, <2>4, <2>5
<1>3. CASE ReplayCompletion(j)
  BY <1>3 DEF ReplayCompletion, Careful
<1>4. CASE HoldReads(j)
  <2>1. \A k \in Jobs : holds'[k].step # "none" => holds[k].step # "none"
    BY <1>4 DEF HoldReads
  <2>2. WorkIsKnown' /\ HoldsFollow' /\ PageFollows'
    BY <1>4, <2>1 DEF HoldReads, Steady, WorkIsKnown, HoldsFollow, PageFollows, InHand, Status
  <2> QED BY <1>4, <2>2, StandsStill DEF HoldReads, Status
<1>5. CASE \E asks \in BOOLEAN : StoreQuestions(j, asks)
  <2>1. WorkIsKnown' /\ HoldsFollow' /\ PageFollows'
    BY <1>5 DEF StoreQuestions, Steady, WorkIsKnown, HoldsFollow, PageFollows, InHand, Status
  <2> QED BY <1>5, <2>1, StandsStill DEF StoreQuestions, Status
<1> QED BY <1>1, <1>2, <1>3, <1>4, <1>5

\* The hold moves the one order whose job has a model, with nothing else going on.
LEMMA HoldIsSteady ==
  ASSUME CarefulNow, NEW j \in Jobs, HoldMoves(j)
  PROVE  Steady'
<1> USE DEF CarefulNow, DeskInv, IInv, TypeOK
<1>1. /\ j = order.latest /\ "MODEL" \in artifacts[j]
      /\ \A k \in Jobs : ~InHand(k)
      /\ UNCHANGED <<jobs, artifacts, rounds, page, reviews, answered>>
  BY DEF HoldMoves, Steady, HoldsFollow
<1>2. \A k \in Jobs : holds'[k].step = "none"
  <2>1. \A k \in Jobs \ {j} : holds[k].step = "none"
    BY <1>1 DEF Steady, HoldsFollow
  <2> QED BY <2>1 DEF HoldMoves, NoHold
<1>3. /\ order'.latest = order.latest
      /\ \/ order' = order
         \/ order'.version = order.version + 1 /\ order.status # "READY"
  <2>1. CASE MayMove("MANUAL_REVIEW", holds[j].version)
    <3>1. order' = [order EXCEPT !.status = "MANUAL_REVIEW", !.version = @ + 1]
      BY <2>1 DEF HoldMoves, Move
    <3>2. order.status # "READY"
      BY <2>1, NothingFollowsReady DEF MayMove
    <3> QED BY <3>1, <3>2 DEF OrderRow
  <2>2. CASE ~MayMove("MANUAL_REVIEW", holds[j].version)
    <3>1. order' = order
      BY <2>2 DEF HoldMoves
    <3> QED BY <3>1
  <2> QED BY <2>1, <2>2
<1>4. RoundsFollow' /\ WorkIsKnown' /\ HoldsFollow'
  BY <1>1, <1>2, <1>3 DEF Steady, RoundsFollow, WorkIsKnown, HoldsFollow, InHand, Status
<1>5. HeldHasModel'
  BY <1>1, <1>3 DEF HeldHasModel
<1>6. PageFollows'
  BY <1>1, <1>3 DEF Steady, PageFollows, OrderRow
<1>7. ReviewsFollow'
  BY <1>1, <1>3 DEF Steady, ReviewsFollow
<1> QED BY <1>4, <1>5, <1>6, <1>7 DEF Steady

LEMMA RoundsAreSteady ==
  ASSUME CarefulNow, NEW j \in Jobs,
         \/ \E body \in Bodies : Answer(j, body)
         \/ EnqueueRound(j) \/ RecordRound(j)
  PROVE  Steady'
<1> USE DEF CarefulNow, DeskInv, IInv, TypeOK
<1>1. ASSUME NEW body \in Bodies, Answer(j, body)
      PROVE  Steady'
  <2>1. order.latest \in asked /\ Exists /\ Fresh(j) /\ order.latest \in Jobs
        /\ UNCHANGED <<order, jobs, artifacts, holds, page, reviews>>
        /\ answered' = answered \cup {order.latest}
    BY <1>1 DEF Answer, HasAJob
  <2>0. "MODEL" \notin artifacts[order.latest] /\ Status(order.latest) # "ABSENT"
    BY <2>1 DEF CarefulNow, Crossed, AskingIsQueued
  <2>2. \A k \in Jobs : ~InHand(k)
    <3> DEFINE answers == {k \in Jobs : rounds[k] # None /\ rounds[k].key.by = "answers"}
    <3>1. answers = {}
      <4>1. IsFiniteSet(answers)
        BY DeskAssumption, FS_Subset
      <4>2. Cardinality(answers) < 1
        BY <1>1 DEF Answer, Careful
      <4>3. Cardinality(answers) = 0
        BY <4>1, <4>2, FS_CardinalityType
      <4> QED BY <4>1, <4>3, FS_EmptySet
    <3> SUFFICES ASSUME NEW k \in Jobs, InHand(k)
                 PROVE  FALSE
      OBVIOUS
    <3>2. Follows(rounds[k]) /\ rounds[k].key.by \in {"upload", "review"}
      BY <3>1 DEF Steady, RoundsFollow, InHand, Round, Key, Origins
    <3> QED BY <2>0, <3>2 DEF Follows
  <2>3. \A k \in Jobs : InHand(k)' => k = j
    BY <1>1, <2>2 DEF Answer, InHand
  <2>4. rounds'[j].key.by = "answers"
    BY <1>1 DEF Answer
  <2>5. RoundsFollow'
    BY <2>1, <2>3, <2>4 DEF RoundsFollow, Follows, Fresh
  <2>6. \A k \in Jobs : holds[k].step = "none"
    BY <2>0 DEF Steady, HoldsFollow
  <2>7. WorkIsKnown' /\ HoldsFollow'
    BY <2>1, <2>2, <2>6 DEF Steady, WorkIsKnown, HoldsFollow, Status
  <2> QED BY <2>1, <2>5, <2>7 DEF Steady, HeldHasModel, PageFollows, ReviewsFollow
<1>2. CASE EnqueueRound(j)
  <2>1. InHand(j) /\ UNCHANGED <<order, artifacts, holds, page, reviews, answered>>
        /\ rounds[j] \in Round /\ Status(j) = "ABSENT"
    BY <1>2 DEF EnqueueRound, InHand, RoundsAreNew
  <2>2. \A k \in Jobs \ {j} : rounds[k] = None /\ rounds'[k] = None
        /\ Status(k)' = Status(k)
    BY <1>2, <2>1 DEF EnqueueRound, Steady, RoundsFollow, InHand, Status
  <2>3. InHand(j)' => rounds'[j].key = rounds[j].key /\ rounds[j].key.by # "upload"
    BY <1>2, <2>1 DEF EnqueueRound, InHand, Round
  <2>4. RoundsFollow'
    <3>1. Follows(rounds[j]) /\ (rounds[j].key.by = "upload" <=> j = First)
      BY <2>1 DEF Steady, RoundsFollow
    <3> QED BY <2>1, <2>2, <2>3, <3>1 DEF RoundsFollow, Follows, InHand
  <2>5. Status(j)' \in {"PENDING", "LEASED", "PAUSED"} => InHand(j)' \/ j = order.latest
    <3>1. CASE rounds[j].key.by = "upload"
      BY <2>1, <3>1 DEF Steady, RoundsFollow, Follows
    <3>2. CASE rounds[j].key.by # "upload"
      <4>1. jobs' = jobs \/ rounds' = [rounds EXCEPT ![j] = [rounds[j] EXCEPT !.queued = TRUE]]
        BY <1>2, <3>2 DEF EnqueueRound
      <4>2. [rounds[j] EXCEPT !.queued = TRUE] # None
        BY <2>1, QueuedIsARound, NullAssumption
      <4> QED BY <2>1, <4>1, <4>2 DEF InHand, Status
    <3> QED BY <3>1, <3>2
  <2>6. WorkIsKnown'
    BY <2>1, <2>2, <2>5 DEF Steady, WorkIsKnown, InHand
  <2>7. HoldsFollow'
    BY <2>1 DEF Steady, HoldsFollow
  <2> QED BY <2>1, <2>4, <2>6, <2>7 DEF Steady, HeldHasModel, PageFollows, ReviewsFollow
<1>3. CASE RecordRound(j)
  <2>1. /\ InHand(j) /\ rounds[j].queued /\ rounds[j] \in Round
        /\ UNCHANGED <<jobs, artifacts, holds, page, reviews, answered>>
        /\ order'.latest = j /\ order'.status = order.status /\ order'.version = order.version
        /\ rounds' = [rounds EXCEPT ![j] = None]
    BY <1>3 DEF RecordRound, InHand, OrderRow
  <2>2. Follows(rounds[j]) /\ \A k \in Jobs : InHand(k) => k = j
    BY <2>1 DEF Steady, RoundsFollow
  <2>3. rounds[j].key.by \in {"answers", "review"} /\ order.latest \in Jobs
    <3>1. rounds[j].key.by # "upload"
      BY <2>1, <2>2 DEF Follows, QueuedRoundsAreJobs, Steady, RoundsFollow, InHand
    <3>2. Exists
      BY <2>1 DEF NothingBefore
    <3> QED BY <2>1, <3>1, <3>2 DEF Round, Key, Origins, HasAJob
  <2>4. \A k \in Jobs : ~InHand(k)'
    BY <2>1, <2>2 DEF InHand
  <2>5. Status(order.latest) = "COMPLETED" \/ order.latest \in answered
    BY <2>2, <2>3 DEF Follows, DeliveredIsCompleted
  <2>6. order.status \notin {"MANUAL_REVIEW", "READY"}
    BY <2>2, <2>3, AnsweredHaveNone DEF Follows, Steady, HeldHasModel
  <2>7. \A k \in Jobs : holds[k].step = "none"
    BY <2>1 DEF Steady, HoldsFollow
  <2>8. WorkIsKnown'
    BY <2>1, <2>2, <2>5 DEF Steady, WorkIsKnown, Status
  <2>9. PageFollows' /\ ReviewsFollow' /\ HeldHasModel'
    BY <2>1, <2>6 DEF Steady, PageFollows, ReviewsFollow, HeldHasModel
  <2> QED BY <2>1, <2>4, <2>7, <2>8, <2>9 DEF Steady, RoundsFollow, HoldsFollow
<1> QED BY <1>1, <1>2, <1>3

\* What moves the order by hand and starts no round.
LEMMA PeopleAreSteady ==
  ASSUME CarefulNow,
         \/ Create \/ OpenPage \/ Approve \/ Reject \/ RequestChanges
         \/ TransitionOrder("CANCELLED")
  PROVE  Steady'
<1> USE DEF CarefulNow, DeskInv, IInv, TypeOK
<1>1. CASE Create
  <2>1. ~Exists /\ (\A k \in Jobs : Status(k) = "ABSENT" /\ ~InHand(k) /\ artifacts[k] = {})
    BY <1>1 DEF Create, NothingBefore, DeliveredIsCompleted
  <2>2. \A k \in Jobs : holds[k].step = "none"
    BY <2>1 DEF Steady, HoldsFollow
  <2>3. /\ order'.status = "WAITING_FOR_LOCAL_WORKER" /\ order'.latest = First
        /\ order'.version = order.version
        /\ UNCHANGED <<jobs, artifacts, holds, page, reviews, answered>>
    BY <1>1 DEF Create, OrderRow
  <2>4. (\A k \in Jobs : InHand(k)' => k = First) /\ rounds'[First].key.by = "upload"
    BY <1>1, <2>1, DeskAssumption DEF Create, InHand
  <2>5. RoundsFollow'
    BY <2>1, <2>3, <2>4, DeskAssumption DEF RoundsFollow, Follows, Status
  <2>6. order.status \notin {"MANUAL_REVIEW", "READY"}
    BY <2>1, DeskAssumption DEF Exists, OrderStatuses
  <2>7. PageFollows' /\ ReviewsFollow'
    BY <2>3, <2>6 DEF Steady, PageFollows, ReviewsFollow
  <2> QED BY <2>1, <2>2, <2>3, <2>5, <2>6, <2>7
          DEF Steady, WorkIsKnown, HoldsFollow, HeldHasModel, Status
<1>2. CASE OpenPage
  <2>1. PageFollows'
    BY <1>2 DEF OpenPage, PageFollows, OrderRow
  <2>2. WorkIsKnown' /\ HoldsFollow'
    BY <1>2 DEF OpenPage, Steady, WorkIsKnown, HoldsFollow, InHand, Status
  <2> QED BY <1>2, <2>1, <2>2, StandsStill DEF OpenPage, Status
<1>3. ASSUME NEW target, NEW version, MayMove(target, version), Move(target)
      PROVE  /\ order'.status = target /\ order'.latest = order.latest
             /\ order'.version = order.version + 1 /\ order.status # "READY"
  BY <1>3, DeskAssumption DEF MayMove, Move, Allowed, OrderRow
<1>4. ASSUME NEW decision, NEW target, Decide(decision, target)
      PROVE  /\ page # None /\ page.version = order.version /\ page.latest = order.latest
             /\ order.status = "MANUAL_REVIEW"
             /\ order'.status = target /\ order'.latest = order.latest
             /\ order'.version = order.version + 1
             /\ \A k \in Jobs : holds[k].step = "none" /\ ~InHand(k)
             /\ "MODEL" \in artifacts[order.latest]
             /\ PageFollows' /\ (ReviewsFollow)'
             /\ UNCHANGED <<setting, jobs, artifacts, holds, answered>>
  <2>1. page # None /\ page.version = order.version
    BY <1>4 DEF Decide, MayMove
  <2>2. order.status = "MANUAL_REVIEW" /\ page.latest = order.latest
    BY <2>1 DEF Steady, PageFollows
  <2>3. order'.status = target /\ order'.latest = order.latest /\ order'.version = order.version + 1
    BY <1>3, <1>4 DEF Decide
  <2>4. \A k \in Jobs : holds[k].step = "none"
    BY <2>2 DEF Steady, HoldsFollow
  <2>5. "MODEL" \in artifacts[order.latest] /\ order.latest \in Jobs
    BY <2>2, DeskAssumption DEF Steady, HeldHasModel, HasAJob, Exists, OrderStatuses
  <2>6. \A k \in Jobs : ~InHand(k)
    <3> SUFFICES ASSUME NEW k \in Jobs, InHand(k)
                 PROVE  FALSE
      OBVIOUS
    <3>1. Follows(rounds[k]) /\ rounds[k].key.by \in Origins
      BY DEF Steady, RoundsFollow, InHand, Round, Key
    <3> QED BY <2>2, <2>5, <3>1, AnsweredHaveNone DEF Follows, Origins, DeliveredIsCompleted
  <2>7. PageFollows'
    BY <1>4, <2>1, <2>3 DEF Decide, PageFollows, OrderRow
  <2>8. ReviewsFollow'
    <3>1. reviews' = reviews \cup
            {[decision |-> decision, before |-> order.version, after |-> target,
              looked_at |-> page.latest]}
      BY <1>4 DEF Decide, Audit
    <3>2. \A review \in reviews : review.after # "READY"
      BY <2>2 DEF Steady, ReviewsFollow
    <3> QED BY <2>2, <2>3, <3>1, <3>2 DEF ReviewsFollow
  <2> QED BY <1>4, <2>1, <2>2, <2>3, <2>4, <2>5, <2>6, <2>7, <2>8 DEF Decide
<1>5. CASE Approve \/ Reject
  <2>1. PICK decision, target : Decide(decision, target) /\ UNCHANGED rounds
    BY <1>5 DEF Approve, Reject
  <2> QED BY <1>4, <2>1
          DEF Steady, RoundsFollow, WorkIsKnown, HoldsFollow, HeldHasModel, InHand, Status
<1>6. CASE RequestChanges
  <2>1. Decide("request_changes", "DRAWING_ANALYSIS")
    BY <1>6 DEF RequestChanges
  <2>2. RoundsFollow'
    <3>1. CASE setting.drawing
      <4>1. PICK j \in Jobs, note \in Bodies :
              /\ Fresh(j)
              /\ rounds' = [rounds EXCEPT ![j] =
                   [key |-> [by |-> "review", round |-> order.round + 1, body |-> note],
                    queued |-> FALSE]]
        BY <1>6, <3>1 DEF RequestChanges
      <4>2. (\A k \in Jobs : InHand(k)' => k = j) /\ rounds'[j].key.by = "review" /\ j # First
        BY <1>4, <2>1, <4>1 DEF InHand, Fresh
      <4> QED BY <1>4, <2>1, <4>2 DEF RoundsFollow, Follows
    <3>2. CASE ~setting.drawing
      BY <1>4, <1>6, <2>1, <3>2 DEF RequestChanges, RoundsFollow, InHand
    <3> QED BY <3>1, <3>2
  <2>3. WorkIsKnown' /\ HoldsFollow' /\ HeldHasModel'
    BY <1>4, <2>1 DEF Steady, WorkIsKnown, HoldsFollow, HeldHasModel, Status
  <2> QED BY <1>4, <2>1, <2>2, <2>3 DEF Steady
<1>7. CASE TransitionOrder("CANCELLED")
  <2>1. /\ order'.status = "CANCELLED" /\ order'.latest = order.latest
        /\ order'.version = order.version + 1 /\ order.status # "READY"
        /\ order.status # "DRAWING_ANALYSIS"
        /\ UNCHANGED <<jobs, artifacts, holds, rounds, page, reviews, answered>>
    BY <1>3, <1>7 DEF TransitionOrder, MayMove, Allowed
  <2>2. RoundsFollow'
    BY <2>1 DEF Steady, RoundsFollow, Follows, InHand, Status
  <2>3. WorkIsKnown' /\ HoldsFollow' /\ HeldHasModel'
    BY <2>1 DEF Steady, WorkIsKnown, HoldsFollow, HeldHasModel, InHand, Status
  <2>4. PageFollows' /\ ReviewsFollow'
    BY <2>1 DEF Steady, PageFollows, ReviewsFollow, OrderRow
  <2> QED BY <2>2, <2>3, <2>4 DEF Steady
<1> QED BY <1>1, <1>2, <1>5, <1>6, <1>7

CarefulInv == DeskInv /\ (Careful => Steady \/ Crossed)

LEMMA StepKeepsCare == CarefulInv /\ [Next]_vars => CarefulInv'
<1> SUFFICES ASSUME CarefulInv, [Next]_vars
             PROVE  CarefulInv'
  OBVIOUS
<1>1. DeskInv'
  BY StepKeepsDeskInv DEF CarefulInv
<1>2. setting' = setting
  BY DEF Next, vars, Create, Answer, EnqueueRound, RecordRound, MoveJob, StoreQuestions,
         CompleteJob, ReplayCompletion, HoldReads, HoldMoves, OpenPage, Approve, Reject, RequestChanges,
         Decide, TransitionOrder, Crash
<1>3. ASSUME Careful, ~Crossed'
      PROVE  Steady'
  <2>1. CarefulNow
    BY <1>3, CrossedForGood DEF CarefulInv, CarefulNow
  <2>2. CASE UNCHANGED vars
    BY <2>1, <2>2
       DEF vars, CarefulNow, Steady, RoundsFollow, Follows, WorkIsKnown, HoldsFollow,
           HeldHasModel, PageFollows, ReviewsFollow, InHand, Status
  <2>3. CASE Crash
    BY <1>3, <2>3 DEF Crash, Careful
  <2>4. CASE Next /\ ~Crash
    BY <1>3, <2>1, <2>4, JobsAreSteady, HoldIsSteady, RoundsAreSteady, PeopleAreSteady
       DEF Next, Careful
  <2> QED BY <2>2, <2>3, <2>4
<1> QED BY <1>1, <1>2, <1>3 DEF CarefulInv, Careful

LEMMA CareIsKept == Spec => []CarefulInv
<1>1. Init => CarefulInv
  <2> SUFFICES ASSUME Init
               PROVE  CarefulInv
    OBVIOUS
  <2>1. DeskInv
    BY InitIInv
       DEF Init, DeskInv, NothingBefore, RoundsAreNew, DeliveredIsCompleted, AskingIsQueued,
           Status, InHand
  <2>2. Steady
    BY DeskAssumption
       DEF Init, Steady, RoundsFollow, WorkIsKnown, HoldsFollow, HeldHasModel, PageFollows,
           ReviewsFollow, Status, InHand, NoHold, OrderStatuses
  <2> QED BY <2>1, <2>2 DEF CarefulInv
<1> QED BY <1>1, StepKeepsCare, PTL DEF Spec

\* Used with care, an order is held for review, and released, only while the job
\* it points at has delivered a model, unless questions delivered beside a model
\* were answered: nothing else takes the model from under the operator.
THEOREM HeldOrdersHaveModels == Spec => []HeldOrderHasModel
<1>1. CarefulInv => HeldOrderHasModel
  BY DEF CarefulInv, Steady, HeldHasModel, HeldOrderHasModel
<1> QED BY <1>1, CareIsKept, PTL

\* Used with care, a released order is the one its operator was shown: no round
\* slips between the page and the approval, or after it, but by such an answer.
THEOREM ReleasesAreOfWhatWasSeen == Spec => []ReleasedIsWhatWasSeen
<1>1. CarefulInv => ReleasedIsWhatWasSeen
  BY DEF CarefulInv, Steady, ReviewsFollow, ReleasedIsWhatWasSeen
<1> QED BY <1>1, CareIsKept, PTL
-----------------------------------------------------------------------------
(* The page.  What it submits is refused for good only if something else   *)
(* of the browser came between.                                            *)

\* A recovery nothing came between: the only token on its way is the page's
\* own, and it is the one the row holds; what is sent again carries it.
RecoveryIsAlone ==
  write.again /\ ~write.overlapped =>
    /\ write.step \in {"none", "recovering", "sent"}
    /\ write.step \in {"recovering", "sent"} => other = None
    /\ write.step = "recovering" =>
         /\ tab.me # None
         /\ tab.got \in {None, IF server.live THEN server.csrf ELSE Refused}
    /\ write.step = "sent" => Authorised /\ tab.me = None

\* The browser's side is typed as far as the recovery looks at it.
PageIsTyped ==
  /\ server \in [live : BOOLEAN, csrf : Tokens]
  /\ tab = [session |-> tab.session, me |-> tab.me, got |-> tab.got,
            poll |-> tab.poll, reply |-> tab.reply, shown |-> tab.shown]
  /\ write = [step |-> write.step, header |-> write.header, again |-> write.again,
              overlapped |-> write.overlapped]
  /\ write.again \in BOOLEAN /\ write.overlapped \in BOOLEAN
  /\ write.step = "refused" => write.again
  /\ tab.me = None => tab.got = None

PageInv == PageIsTyped /\ RecoveryIsAlone

LEMMA TokensAreNumbers ==
  /\ Tokens \subseteq Nat /\ None \notin Tokens
  /\ Refused \notin Tokens /\ Refused # None
BY TokensAssumption DEF Tokens, Refused

LEMMA ReissueIsTyped ==
  ASSUME PageIsTyped, Reissue
  PROVE  /\ server.live /\ server' = [live |-> server.live, csrf |-> server.csrf + 1]
         /\ server.csrf + 1 \in Tokens
<1>1. server.csrf + 1 \in Tokens
  BY TokensAssumption DEF PageIsTyped, Reissue, Tokens
<1> QED BY <1>1 DEF PageIsTyped, Reissue

\* Another tab's request marks the recovery it comes between.
LEMMA OverlapsAreNoted ==
  ASSUME PageInv, Overlap, UNCHANGED tab, server' \in [live : BOOLEAN, csrf : Tokens]
  PROVE  PageInv'
<1>1. CASE Overlapped
  <2>1. write' = [step |-> write.step, header |-> write.header, again |-> write.again,
                  overlapped |-> TRUE]
    BY <1>1 DEF Overlap, PageInv, PageIsTyped
  <2>2. write.step # "refused"
    BY <1>1 DEF Overlapped
  <2> QED BY <2>1, <2>2 DEF PageInv, PageIsTyped, RecoveryIsAlone
<1>2. CASE ~Overlapped
  <2>1. write' = write
    BY <1>2 DEF Overlap
  <2>2. RecoveryIsAlone'
    BY <1>2, <2>1 DEF Overlapped, PageInv, RecoveryIsAlone
  <2> QED BY <2>1, <2>2 DEF PageInv, PageIsTyped
<1> QED BY <1>1, <1>2

LEMMA OthersKeepThePage ==
  ASSUME PageInv, OtherIsServed \/ OtherArrives \/ SessionEnds
  PROVE  PageInv'
<1>1. server' \in [live : BOOLEAN, csrf : Tokens] /\ Overlap /\ UNCHANGED tab
  <2>1. CASE OtherIsServed
    <3>1. server' = [live |-> server.live, csrf |-> server.csrf + 1]
          /\ server.csrf + 1 \in Tokens
      BY <2>1, ReissueIsTyped DEF OtherIsServed, PageInv
    <3> QED BY <2>1, <3>1 DEF OtherIsServed, PageInv, PageIsTyped
  <2>2. CASE OtherArrives
    BY <2>2 DEF OtherArrives, PageInv, PageIsTyped
  <2>3. CASE SessionEnds
    BY <2>3 DEF SessionEnds, PageInv, PageIsTyped
  <2> QED BY <2>1, <2>2, <2>3
<1> QED BY <1>1, OverlapsAreNoted

LEMMA AskingKeepsThePage ==
  ASSUME PageInv, MeIsServed \/ MeArrives \/ MeIsRefused
  PROVE  PageInv'
<1> USE DEF PageInv
<1>1. CASE MeIsServed /\ server.live
  <2>1. Reissue /\ tab' = [tab EXCEPT !.got = server.csrf + 1]
        /\ tab.me # None /\ tab.got = None /\ UNCHANGED <<other, write>>
    BY <1>1 DEF MeIsServed
  <2>2. server' = [live |-> server.live, csrf |-> server.csrf + 1] /\ server.csrf + 1 \in Tokens
    BY <2>1, ReissueIsTyped
  <2>3. tab' = [session |-> tab.session, me |-> tab.me, got |-> server.csrf + 1,
                poll |-> tab.poll, reply |-> tab.reply, shown |-> tab.shown]
    BY <2>1 DEF PageIsTyped
  <2>4. PageIsTyped'
    BY <2>1, <2>2, <2>3 DEF PageIsTyped
  <2>5. server'.live /\ server'.csrf = server.csrf + 1
        /\ tab'.got = server.csrf + 1 /\ tab'.me = tab.me
    BY <1>1, <2>2, <2>3
  <2> QED BY <2>1, <2>4, <2>5 DEF RecoveryIsAlone
<1>2. CASE MeIsServed /\ ~server.live
  <2>1. UNCHANGED server /\ tab' = [tab EXCEPT !.got = Refused]
        /\ tab.me # None /\ UNCHANGED <<other, write>>
    BY <1>2 DEF MeIsServed
  <2>2. tab' = [session |-> tab.session, me |-> tab.me, got |-> Refused,
                poll |-> tab.poll, reply |-> tab.reply, shown |-> tab.shown]
    BY <2>1 DEF PageIsTyped
  <2>3. PageIsTyped'
    BY <2>1, <2>2 DEF PageIsTyped
  <2> QED BY <1>2, <2>1, <2>2, <2>3 DEF RecoveryIsAlone, Authorised
<1>3. CASE MeArrives
  <2>1. tab.got \in Tokens /\ cookie' = tab.got /\ UNCHANGED <<server, other>>
    BY <1>3 DEF MeArrives, SetCookie
  <2>2. tab' = [session |-> tab.got, me |-> None, got |-> None,
                poll |-> "asked", reply |-> None, shown |-> tab.shown]
    BY <1>3 DEF MeArrives, SignedInAs, PageIsTyped
  <2>3. CASE write.step = "recovering"
    <3>1. write' = [step |-> "sent", header |-> tab.got, again |-> write.again,
                    overlapped |-> write.overlapped]
      BY <1>3, <2>1, <2>3 DEF MeArrives, PageIsTyped
    <3>2. write.again /\ ~write.overlapped => server.live /\ tab.got = server.csrf
      BY <2>1, <2>3, TokensAreNumbers DEF RecoveryIsAlone
    <3>3. PageIsTyped'
      BY <2>1, <2>2, <3>1 DEF PageIsTyped
    <3> QED BY <2>1, <2>2, <2>3, <3>1, <3>2, <3>3 DEF RecoveryIsAlone, Authorised
  <2>4. CASE write.step # "recovering"
    <3>1. write' = write
      BY <1>3, <2>4 DEF MeArrives
    <3>2. PageIsTyped'
      BY <2>1, <2>2, <3>1 DEF PageIsTyped
    <3> QED BY <2>1, <2>2, <2>4, <3>1, <3>2 DEF RecoveryIsAlone, Authorised
  <2> QED BY <2>3, <2>4
<1>4. CASE MeIsRefused
  <2>1. tab' = [session |-> None, me |-> None, got |-> None,
                poll |-> "off", reply |-> None, shown |-> tab.shown]
        /\ UNCHANGED <<server, other>>
    BY <1>4 DEF MeIsRefused, SignedOut, PageIsTyped
  <2>2. write' = NoWrite \/ (write.step # "recovering" /\ write' = write)
    BY <1>4 DEF MeIsRefused
  <2>3. CASE write' = NoWrite
    <3>1. PageIsTyped'
      BY <2>1, <2>3 DEF PageIsTyped, NoWrite
    <3> QED BY <2>3, <3>1 DEF RecoveryIsAlone, NoWrite
  <2>4. CASE write.step # "recovering" /\ write' = write
    <3>1. PageIsTyped'
      BY <2>1, <2>4 DEF PageIsTyped
    <3> QED BY <2>1, <2>4, <3>1 DEF RecoveryIsAlone, Authorised
  <2> QED BY <2>2, <2>3, <2>4
<1> QED BY <1>1, <1>2, <1>3, <1>4

LEMMA OpeningKeepsThePage ==
  ASSUME PageInv, Open \/ SignIn
  PROVE  PageInv'
<1> USE DEF PageInv
<1>1. CASE Open
  <2>1. tab' = [session |-> None, me |-> "mount", got |-> None,
                poll |-> "off", reply |-> None, shown |-> None]
        /\ write.step = "none" /\ UNCHANGED <<server, other, write>>
    BY <1>1 DEF Open, Closed
  <2>2. PageIsTyped'
    BY <2>1, TokensAssumption DEF PageIsTyped, Purposes
  <2> QED BY <2>1, <2>2 DEF RecoveryIsAlone
<1>2. CASE SignIn
  <2>1. server' = [live |-> TRUE, csrf |-> server.csrf + 1] /\ server.csrf + 1 \in Tokens
        /\ ~server.live /\ tab.me = None /\ UNCHANGED <<other, write>>
    BY <1>2, TokensAssumption DEF SignIn, PageIsTyped, Tokens
  <2>2. tab' = [session |-> tab.session, me |-> "confirm", got |-> tab.got,
                poll |-> tab.poll, reply |-> tab.reply, shown |-> tab.shown]
    BY <1>2 DEF SignIn, PageIsTyped
  <2>3. PageIsTyped'
    BY <2>1, <2>2, TokensAssumption DEF PageIsTyped, Purposes
  <2>4. write.again /\ ~write.overlapped => write.step = "none"
    BY <2>1 DEF RecoveryIsAlone, Authorised
  <2> QED BY <2>1, <2>3, <2>4 DEF RecoveryIsAlone
<1> QED BY <1>1, <1>2

\* The polling effect changes neither what the page asks nor what it was told.
LEMMA PollsKeepThePage ==
  ASSUME PageInv, PollIsServed \/ PollArrives \/ TimerFires \/ PollFails
  PROVE  PageInv'
<1>1. UNCHANGED <<server, other, write>> /\ tab'.me = tab.me /\ tab'.got = tab.got
      /\ tab' = [session |-> tab'.session, me |-> tab'.me, got |-> tab'.got,
                 poll |-> tab'.poll, reply |-> tab'.reply, shown |-> tab'.shown]
  <2>1. CASE PollIsServed
    BY <2>1 DEF PollIsServed, SignedOut, PageInv, PageIsTyped
  <2>2. CASE PollArrives
    BY <2>2 DEF PollArrives, PageInv, PageIsTyped
  <2>3. CASE TimerFires \/ PollFails
    BY <2>3 DEF TimerFires, PollFails, PageInv, PageIsTyped
  <2> QED BY <2>1, <2>2, <2>3
<1> QED BY <1>1 DEF PageInv, PageIsTyped, RecoveryIsAlone, Authorised

LEMMA WritesKeepThePage ==
  ASSUME PageInv, Submit \/ WriteIsAccepted \/ WriteIsTooLate \/ Recover \/ WriteIsRefused
  PROVE  PageInv'
<1> USE DEF PageInv
<1>1. CASE Submit
  <2>1. write' = [step |-> "sent", header |-> cookie, again |-> FALSE, overlapped |-> FALSE]
    BY <1>1 DEF Submit, NoWrite
  <2>2. UNCHANGED <<server, other, tab>>
    BY <1>1 DEF Submit
  <2>3. write'.again = FALSE /\ write'.overlapped = FALSE /\ write'.step = "sent"
        /\ write'.header = cookie
    BY <2>1
  <2>4. PageIsTyped'
    BY <2>1, <2>2, <2>3 DEF PageIsTyped
  <2> QED BY <2>3, <2>4 DEF RecoveryIsAlone
<1>2. CASE WriteIsAccepted
  <2>1. write' = NoWrite /\ UNCHANGED <<server, other>>
    BY <1>2 DEF WriteIsAccepted
  <2>2. tab' = [session |-> tab.session, me |-> tab.me, got |-> tab.got,
                poll |-> tab.poll, reply |-> tab.reply, shown |-> None]
    BY <1>2 DEF WriteIsAccepted, PageIsTyped
  <2> QED BY <2>1, <2>2 DEF PageIsTyped, RecoveryIsAlone, NoWrite
<1>3. CASE WriteIsTooLate
  BY <1>3 DEF WriteIsTooLate, PageIsTyped, RecoveryIsAlone, NoWrite
<1>4. CASE Recover
  <2>1. write' = [step |-> "recovering", header |-> write.header, again |-> TRUE,
                  overlapped |-> other # None]
        /\ UNCHANGED <<server, other>> /\ tab.me = None
    BY <1>4 DEF Recover, PageIsTyped
  <2>2. tab' = [session |-> tab.session, me |-> "recover", got |-> tab.got,
                poll |-> tab.poll, reply |-> tab.reply, shown |-> tab.shown]
    BY <1>4 DEF Recover, PageIsTyped
  <2>3. tab.got = None /\ "recover" # None
    BY <2>1, TokensAssumption DEF PageIsTyped, Purposes
  <2>4. PageIsTyped'
    BY <2>1, <2>2, <2>3 DEF PageIsTyped
  <2> QED BY <2>1, <2>2, <2>3, <2>4 DEF RecoveryIsAlone
<1>5. CASE WriteIsRefused
  <2>1. write' = [step |-> "refused", header |-> write.header, again |-> write.again,
                  overlapped |-> write.overlapped]
        /\ UNCHANGED <<server, tab>> /\ write.step = "sent" /\ ~Authorised /\ write.again
    BY <1>5 DEF WriteIsRefused, PageIsTyped
  <2>2. write.overlapped
    BY <2>1 DEF RecoveryIsAlone, PageIsTyped
  <2> QED BY <2>1, <2>2 DEF PageIsTyped, RecoveryIsAlone
<1> QED BY <1>1, <1>2, <1>3, <1>4, <1>5

\* Answers the page submits are refused a second time only if another tab's
\* request overlapped the recovery, or the session ended under it.
THEOREM RecoveriesWork == StudioSpec => []AWriteAloneGetsThrough
<1>1. StudioInit => PageInv
  <2> SUFFICES ASSUME StudioInit
               PROVE  PageInv
    OBVIOUS
  <2>1. server = [live |-> TRUE, csrf |-> 1] /\ 1 \in Tokens /\ tab = Closed /\ write = NoWrite
    BY TokensAssumption DEF StudioInit, Tokens
  <2> QED BY <2>1 DEF PageInv, PageIsTyped, RecoveryIsAlone, Closed, NoWrite
<1>2. PageInv /\ [StudioNext]_allVars => PageInv'
  <2> SUFFICES ASSUME PageInv, [StudioNext]_allVars
               PROVE  PageInv'
    OBVIOUS
  <2>1. CASE DeskMoves \/ UNCHANGED allVars
    <3>1. UNCHANGED <<server, other, tab, write>>
      BY <2>1 DEF DeskMoves, allVars, studioVars
    <3> QED BY <3>1 DEF PageInv, PageIsTyped, RecoveryIsAlone, Authorised
  <2>2. CASE StudioNext /\ ~DeskMoves
    BY <2>2, OthersKeepThePage, AskingKeepsThePage, OpeningKeepsThePage, PollsKeepThePage,
       WritesKeepThePage DEF StudioNext
  <2> QED BY <2>1, <2>2
<1>3. PageInv => AWriteAloneGetsThrough
  BY DEF PageInv, PageIsTyped, RecoveryIsAlone, AWriteAloneGetsThrough
<1> QED BY <1>1, <1>2, <1>3, PTL DEF StudioSpec

-----------------------------------------------------------------------------
(* The desk behind the page.                                               *)

\* Of all the steps of a browser only an accepted answer touches the order, and
\* it is the desk's own Answer.
LEMMA PageStepsAreTheDesks == [StudioNext]_allVars => [Next]_vars
<1> SUFFICES ASSUME [StudioNext]_allVars
             PROVE  [Next]_vars
  OBVIOUS
<1>1. CASE DeskMoves
  BY <1>1 DEF DeskMoves
<1>2. CASE WriteIsAccepted
  BY <1>2 DEF WriteIsAccepted, Next
<1>3. CASE OtherIsServed \/ OtherArrives \/ SessionEnds \/ MeIsServed \/ MeArrives \/ MeIsRefused
  BY <1>3 DEF OtherIsServed, OtherArrives, SessionEnds, MeIsServed, MeArrives, MeIsRefused
<1>4. CASE Open \/ SignIn \/ PollIsServed \/ PollArrives \/ TimerFires \/ PollFails
  BY <1>4 DEF Open, SignIn, PollIsServed, PollArrives, TimerFires, PollFails
<1>5. CASE Submit \/ WriteIsTooLate \/ Recover \/ WriteIsRefused
  BY <1>5 DEF Submit, WriteIsTooLate, Recover, WriteIsRefused
<1>6. CASE UNCHANGED allVars
  BY <1>6 DEF allVars
<1> QED BY <1>1, <1>2, <1>3, <1>4, <1>5, <1>6 DEF StudioNext

\* Whatever a customer's tabs do, lose, repeat or send late, the desk behind them
\* is the one OrderDesk describes: the page adds no way of moving an order.
THEOREM ThePageUsesTheDesk == StudioSpec => Spec
<1>1. StudioInit => Init
  BY DEF StudioInit
<1> QED BY <1>1, PageStepsAreTheDesks, PTL DEF StudioSpec, Spec

\* So what every order keeps is kept under the page: an end its customer was told
\* stays the answer to every later poll, however many tabs ask.
THEOREM EndsStandUnderThePage == StudioSpec => AnEndIsAnEnd
BY ThePageUsesTheDesk, EndsStand, PTL
=============================================================================
