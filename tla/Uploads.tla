------------------------------- MODULE Uploads -------------------------------
(***************************************************************************)
(* A customer uploads drawings: the quota (main._within_quota,             *)
(* accounts/limits.py, orders/repository.quota_counts), the quarantine and *)
(* the sanitizer (app/input), and main.create_drawing_job around them.     *)
(*                                                                         *)
(* The handler is a coroutine of the one API process.  It counts, awaits   *)
(* the body, and from the last byte on holds the event loop until it       *)
(* answers: uploads overlap only while their bodies arrive.  Operators,    *)
(* workers and the customer's other requests are served by threads and     *)
(* interleave with all of it.  An order that is over keeps its start in    *)
(* the day's count and is otherwise gone from view.                        *)
(***************************************************************************)
EXTENDS Integers, Sequences, FiniteSets, OrderStates

CONSTANTS Requests,        \* uploads the customer may have open at once
          Orders,          \* bound: orders of the customer that are not over
          InFlightLimit,   \* OrderQuota.in_flight
          PerDay,          \* OrderQuota.per_day
          Window,          \* OrderQuota.window, in ticks of the clock
          StaffTargets,    \* where staff move an order by hand
          MostCrashes      \* bound: times the API process dies

VARIABLES orders,          \* the rows that are not over
          started,         \* how long ago each order of the day was started, latest first
          requests,        \* what each request is doing
          raw,             \* per request, files it left in the quarantine
          told,            \* what the last upload was told about the quota
          crashes

vars == <<orders, started, requests, raw, told, crashes>>

ASSUME UploadsAssumption ==
  /\ IsFiniteSet(Requests) /\ IsFiniteSet(Orders)
  /\ {InFlightLimit, PerDay, Window} \subseteq Nat \ {0} /\ MostCrashes \in Nat
  /\ StaffTargets \subseteq OrderStatuses

NoOrder == [status |-> "none", job |-> "none", back |-> FALSE]

\* back: an operator sent it back, or moved it by hand.
Row(status, job, back) ==
  IF Allowed(status) = {} THEN NoOrder ELSE [status |-> status, job |-> job, back |-> back]

Resting == [at |-> "rest", order |-> "none"]
At(r, place) == requests[r].at = place
Free == {o \in Orders : orders[o] = NoOrder}

(***************************************************************************)
(* The quota.                                                              *)
(***************************************************************************)
InFlightStatuses ==        \* _IN_FLIGHT
  {"WAITING_FOR_LOCAL_WORKER", "DRAWING_ANALYSIS", "WAITING_FOR_USER_ANSWERS",
   "QUEUED_FOR_CAD", "CAD_BUILDING", "CAD_VALIDATION", "AUTO_REPAIR"}

Counted == {o \in Orders : orders[o].status \in InFlightStatuses}

\* Those of a window ago are gone (Tick).
Recent == Len(started)

\* Wrong on purpose: the limit itself may be passed by one.
VerdictAbove ==
  IF Cardinality(Counted) > InFlightLimit THEN "in flight"
  ELSE IF Recent >= PerDay THEN "day" ELSE "in"

\* check_order_quota.
Verdict ==
  IF Cardinality(Counted) >= InFlightLimit THEN "in flight"
  ELSE IF Recent >= PerDay THEN "day" ELSE "in"

(***************************************************************************)
(* An upload.                                                              *)
(***************************************************************************)
LoopIsFree == \A r \in Requests : ~At(r, "cleaning") /\ ~At(r, "created")
Set(r, place) == requests' = [requests EXCEPT ![r] = place]

\* The bound: there is a row for everyone who is on the way to one.
Crowded == Cardinality(Free) <= Cardinality({r \in Requests : requests[r] # Resting})

\* The session is looked up and the quota counted.  A body that is not what it
\* declares to be, or too long, is refused before anything is stored.
Ask(r) ==
  /\ At(r, "rest") /\ LoopIsFree /\ ~Crowded
  /\ told' = Verdict
  /\ \/ /\ Verdict = "in"
        /\ Set(r, [Resting EXCEPT !.at = "receiving"])
        /\ raw' = [raw EXCEPT ![r] = @ + 1]
     \/ UNCHANGED <<requests, raw>>
  /\ UNCHANGED <<orders, started, crashes>>

\* Too long after all, empty, of another format, or the browser went away.
RefuseBody(r) ==
  /\ At(r, "receiving") /\ LoopIsFree
  /\ Set(r, Resting)
  /\ raw' = [raw EXCEPT ![r] = @ - 1]
  /\ UNCHANGED <<orders, started, told, crashes>>

Receive(r) ==
  /\ At(r, "receiving") /\ LoopIsFree
  /\ Set(r, [Resting EXCEPT !.at = "cleaning"])
  /\ UNCHANGED <<orders, started, raw, told, crashes>>

\* Wrong on purpose: only a page that was cleaned is discarded.
DiscardIfClean(r, clean) == raw' = IF clean THEN [raw EXCEPT ![r] = @ - 1] ELSE raw

\* The finally around the sanitizer.
Discard(r, clean) == raw' = [raw EXCEPT ![r] = @ - 1]

\* The sanitizer refuses the page (422) or cannot be asked (503).
RefusePage(r) ==
  /\ At(r, "cleaning")
  /\ Discard(r, FALSE)
  /\ Set(r, Resting)
  /\ UNCHANGED <<orders, started, told, crashes>>

\* The page is stored and the order written.
Clean(r) ==
  /\ At(r, "cleaning")
  /\ Discard(r, TRUE)
  /\ \E o \in Free :
        /\ orders' = [orders EXCEPT ![o] = Row("WAITING_FOR_LOCAL_WORKER", "none", FALSE)]
        /\ Set(r, [at |-> "created", order |-> o])
  /\ started' = <<0>> \o started
  /\ UNCHANGED <<told, crashes>>

\* The job of an order that was given up meanwhile is queued all the same.
Enqueue(r) ==
  /\ At(r, "created")
  /\ LET o == requests[r].order
     IN  orders' = IF orders[o].job = "none" /\ orders[o] # NoOrder
                   THEN [orders EXCEPT ![o].job = "live"] ELSE orders
  /\ Set(r, Resting)
  /\ UNCHANGED <<started, raw, told, crashes>>

\* The process dies and comes back: what was under way is gone, the files stay.
Crash ==
  /\ crashes < MostCrashes
  /\ crashes' = crashes + 1
  /\ requests' = [r \in Requests |-> Resting]
  /\ UNCHANGED <<orders, started, raw, told>>

(***************************************************************************)
(* What becomes of an order, and of the day.                               *)
(***************************************************************************)
Becomes(o, status, job, back) ==
  /\ orders' = [orders EXCEPT ![o] = Row(status, job, back)]
  /\ UNCHANGED <<started, requests, raw, told, crashes>>

\* The job fails, asks, or delivers a model, with which the order is held.
FailJob(o) ==
  /\ orders[o].job = "live"
  /\ Becomes(o, orders[o].status, "failed", orders[o].back)

AskCustomer(o) ==
  /\ orders[o].job = "live"
  /\ Becomes(o, orders[o].status, "asks", orders[o].back)

DeliverModel(o) ==
  /\ orders[o].job = "live"
  /\ Becomes(o, IF "MANUAL_REVIEW" \in Allowed(orders[o].status) THEN "MANUAL_REVIEW"
                ELSE orders[o].status, "model", orders[o].back)

Answer(o) ==
  /\ orders[o].job = "asks"
  /\ Becomes(o, orders[o].status, "live", orders[o].back)

Cancel(o) ==
  /\ "CANCELLED" \in Allowed(orders[o].status)
  /\ Becomes(o, "CANCELLED", orders[o].job, orders[o].back)

\* approve, reject and request_changes; the last reads the drawing again.
Decide(o) ==
  /\ orders[o].status = "MANUAL_REVIEW"
  /\ \/ Becomes(o, "READY", orders[o].job, orders[o].back)
     \/ Becomes(o, "FAILED", orders[o].job, orders[o].back)
     \/ Becomes(o, "DRAWING_ANALYSIS", "live", TRUE)

Move(o) ==
  \E status \in StaffTargets \cap Allowed(orders[o].status) :
     Becomes(o, status, orders[o].job, TRUE)

\* Wrong on purpose: an order counts for every day after the one it was started.
TickOnly ==
  /\ started' = [i \in DOMAIN started |->
                   IF started[i] + 1 < Window THEN started[i] + 1 ELSE started[i]]
  /\ UNCHANGED <<orders, requests, raw, told, crashes>>

\* Time passes: every start is one tick older, and those of a window ago are
\* counted no more.
Tick ==
  /\ LET young == {i \in DOMAIN started : started[i] + 1 < Window}
     IN  started' = [i \in 1..Cardinality(young) |-> started[i] + 1]
  /\ UNCHANGED <<orders, requests, raw, told, crashes>>

Init ==
  /\ orders = [o \in Orders |-> NoOrder]
  /\ started = << >>
  /\ requests = [r \in Requests |-> Resting]
  /\ raw = [r \in Requests |-> 0]
  /\ told = "in" /\ crashes = 0

Upload(r) == RefuseBody(r) \/ Receive(r) \/ RefusePage(r) \/ Clean(r) \/ Enqueue(r)

Progress(o) ==
  FailJob(o) \/ AskCustomer(o) \/ DeliverModel(o) \/ Answer(o) \/ Cancel(o) \/ Decide(o) \/ Move(o)

Next ==
  \/ \E r \in Requests : Ask(r) \/ Upload(r)
  \/ \E o \in Orders : Progress(o)
  \/ Crash \/ Tick

\* A customer who keeps asking, and who gives up an order when told that there
\* are too many.  Of the service only that it answers, and of time that it passes.
Fairness ==
  /\ WF_vars(Tick)
  /\ \A r \in Requests : WF_vars(Ask(r)) /\ WF_vars(Upload(r))
  /\ \A o \in Orders : WF_vars(told = "in flight" /\ Cancel(o))

Spec == Init /\ [][Next]_vars
FairSpec == Spec /\ Fairness
-----------------------------------------------------------------------------

\* The quota is read before the order is written (main.py:1103): uploads that
\* overlap may pass it together, and by no more than their number.  Beside them
\* a customer is over the limit only with orders the staff put back to work, and
\* a day's orders count whatever became of them.
QuotaIsShared ==
  /\ Cardinality({o \in Counted : ~orders[o].back}) < InFlightLimit + Cardinality(Requests)
  /\ Len(started) < PerDay + Cardinality(Requests)

\* What a customer uploaded is kept only as long as its request is at it, or if
\* the process died under it (quarantine.py).
RawFilesAreDiscarded ==
  \A r \in Requests :
     raw[r] <= crashes + (IF At(r, "receiving") \/ At(r, "cleaning") THEN 1 ELSE 0)

SentBack == Cardinality({o \in Counted : orders[o].back}) >= InFlightLimit

\* A customer who keeps asking, and gives up what the service lets them give up,
\* gets in again and again, as long as their places are not all taken by orders
\* that were sent back and that only the staff can end.
NobodyIsShutOut == []<>(told = "in" \/ SentBack \/ Crowded)

Busy(o) ==
  orders[o].job \in {"live", "asks"} \/ \E r \in Requests : requests[r].order = o

\* The limit "lifts when a build finishes" (limits.py:106): a customer who has
\* reached it has an order that is being worked on, or that waits for them.
LimitLifts == Cardinality(Counted) >= InFlightLimit => \E o \in Counted : Busy(o)
=============================================================================
