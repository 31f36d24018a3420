------------------------------ MODULE Metering ------------------------------
(***************************************************************************)
(* What a job consumed, from the worker that measures it to the ledger of  *)
(* the API: ResourceLedger.cs and Pipeline.cs of apps/local-worker, the    *)
(* resource-events handler of main.py and app/ledger/service.py.           *)
(*                                                                         *)
(* A run is one attempt at the job on one worker.  It keeps its            *)
(* measurements in memory and ships them in batches before it completes    *)
(* the job.  A request that lost its connection goes on inside the API     *)
(* while the worker sends the batch again, and the handler checks the      *)
(* lease in one transaction and records in another, so two deliveries of   *)
(* a batch, or a delivery and the end of a lease, may interleave.          *)
(***************************************************************************)
EXTENDS Integers, FiniteSets, SequencesExt

CONSTANTS Attempts,        \* Job.max_attempts
          Workers,         \* the machines an attempt may run on
          Repairs,         \* BuildFeedback.MaxBuildRepairs
          BatchSize,       \* ResourceLedgerShipper.BatchSize
          Tries,           \* ResourceLedgerShipper.MaxAttempts
          Backlog          \* bound: requests inside the API at once

VARIABLES job,             \* status, attempt and owner of the row
          runs,            \* per attempt, the worker's side
          requests,        \* the deliveries the API has been sent
          rows             \* the table resource_events, of this job

vars == <<job, runs, requests, rows>>

ASSUME MeteringAssumption ==
  {Attempts, BatchSize, Tries, Backlog} \subseteq Nat \ {0} /\ Repairs \in Nat

(***************************************************************************)
(* Measuring (ResourceLedger.Key, Begin, Add, Warn).  A measurement has a  *)
(* key the worker makes from the attempt and from what is measured, and    *)
(* contents (times, tokens) of which no two are alike: where it stands in  *)
(* the run that made it.                                                   *)
(***************************************************************************)
Key(a, what) == <<a, what>>

Noted(a, whats) ==         \* the events of a run with these measured as well
  LET n == Len(runs[a].events)
  IN  runs[a].events \o
        [i \in DOMAIN whats |-> [key |-> Key(a, whats[i]), id |-> <<a, n + i>>]]

Idle(w) == [worker |-> w, stage |-> "off", events |-> <<>>, repairs |-> 0,
            batch |-> 1, try |-> 1, booked |-> TRUE]

Ended == {"over", "thrown"}

Move(a, stage, whats) ==
  runs' = [runs EXCEPT ![a].stage = stage, ![a].events = Noted(a, whats)]

\* The claim, and the program that runs it.  A machine runs one job at a time.
Start(a) ==
  /\ job.status = "pending" /\ job.attempt = a - 1
  /\ \A b \in 1..(a - 1) : runs[b].worker = runs[a].worker => runs[b].stage \in Ended
  /\ job' = [status |-> "leased", attempt |-> a, owner |-> runs[a].worker]
  /\ runs' = [runs EXCEPT ![a].stage = "read"]
  /\ UNCHANGED <<requests, rows>>

\* The drawing is fetched, read and compiled.
Read(a) ==
  /\ runs[a].stage = "read"
  /\ Move(a, "build", <<<<"transfer:input", 1>>, <<"ai:drawing_analysis", 1>>>>)
  /\ UNCHANGED <<job, requests, rows>>

\* One CAD session, and an event under the code of each operation the engine
\* reports.  The one engine there is reports one, whatever the document holds
\* (Build123dProcessEngine.cs:274); one that reported a code twice would make a
\* key twice within a build.
BuildMeasures == <<<<"cad:session", 1>>, <<"cad:operation:document_build", 1>>>>

Build(a) ==
  /\ runs[a].stage = "build"
  /\ Move(a, "upload", BuildMeasures)
  /\ UNCHANGED <<job, requests, rows>>

\* A refused build is measured too; another document is asked for and built.
RepairBuild(a) ==
  /\ runs[a].stage = "build" /\ runs[a].repairs < Repairs
  /\ runs' = [runs EXCEPT ![a].repairs = @ + 1,
                          ![a].events = Noted(a, Append(BuildMeasures,
                                           <<"ai:build_repair", runs[a].repairs + 1>>))]
  /\ UNCHANGED <<job, requests, rows>>

\* A build that fails for good, or a program that is stopped, takes the buffer
\* with it.
GiveUp(a) ==
  /\ runs[a].stage = "build"
  /\ Move(a, "over", BuildMeasures)
  /\ UNCHANGED <<job, requests, rows>>

Upload(a) ==
  /\ runs[a].stage = "upload"
  /\ Move(a, "ship", <<<<"transfer:artifact", 1>>>>)
  /\ UNCHANGED <<job, requests, rows>>

\* _validate_owned: the lease, and the machine it names.
Owns(a) == job.status = "leased" /\ job.owner = runs[a].worker

(***************************************************************************)
(* Shipping (ResourceLedgerShipper).                                       *)
(***************************************************************************)
Least(m, n) == IF m <= n THEN m ELSE n
Batches(a) == (Len(runs[a].events) + BatchSize - 1) \div BatchSize
Batch(a, b) ==
  SubSeq(runs[a].events, (b - 1) * BatchSize + 1, Least(b * BatchSize, Len(runs[a].events)))

Current(a) == <<a, runs[a].batch, runs[a].try>>

\* The request is made: on the wire from now on.
Send(a) ==
  /\ runs[a].stage = "ship" /\ runs[a].batch <= Batches(a)
  /\ Current(a) \notin DOMAIN requests
  /\ Cardinality(DOMAIN requests) < Backlog
  /\ requests' = [r \in DOMAIN requests \cup {Current(a)} |->
                    IF r \in DOMAIN requests THEN requests[r]
                    ELSE [phase |-> "sent", seen |-> {}, answer |-> "none"]]
  /\ UNCHANGED <<job, runs, rows>>

Waiting(a) == runs[a].stage = "ship" /\ Current(a) \in DOMAIN requests

NextBatch(a, booked) ==
  runs' = [runs EXCEPT ![a].batch = @ + 1, ![a].try = 1, ![a].booked = @ /\ booked]

\* Another try, or on with the next batch once there are none left.
Again(a) ==
  IF runs[a].try < Tries
  THEN runs' = [runs EXCEPT ![a].try = @ + 1]
  ELSE NextBatch(a, FALSE)

Answered(a) ==
  /\ Waiting(a) /\ requests[Current(a)].phase = "over"
  /\ CASE requests[Current(a)].answer = "accepted" -> NextBatch(a, TRUE)
       [] requests[Current(a)].answer = "rejected" -> NextBatch(a, FALSE)
       [] requests[Current(a)].answer = "broken" -> Again(a)
  /\ requests' = Restrict(requests, DOMAIN requests \ {Current(a)})
  /\ UNCHANGED <<job, rows>>

\* HttpRequestException; what became of the request the worker never learns.
Disconnect(a) ==
  /\ Waiting(a) /\ requests[Current(a)].phase # "over"
  /\ Again(a)
  /\ UNCHANGED <<job, requests, rows>>

\* The client gives up after its 35 seconds: a TaskCanceledException, which is
\* neither the cancellation nor the exception the shipper catches.
TimeOut(a) ==
  /\ Waiting(a) /\ requests[Current(a)].phase # "over"
  /\ runs' = [runs EXCEPT ![a].stage = "thrown"]
  /\ UNCHANGED <<job, requests, rows>>

Complete(a) ==
  /\ runs[a].stage = "ship" /\ runs[a].batch > Batches(a)
  /\ runs' = [runs EXCEPT ![a].stage = "over"]
  /\ IF Owns(a)
     THEN job' = [job EXCEPT !.status = "done"]
     ELSE UNCHANGED job
  /\ UNCHANGED <<requests, rows>>

\* The lease runs out under a run that may still be going.
Lapse ==
  /\ job.status = "leased"
  /\ job' = [job EXCEPT !.status = IF job.attempt < Attempts THEN "pending" ELSE "failed"]
  /\ UNCHANGED <<runs, requests, rows>>

(***************************************************************************)
(* Recording (the handler, then ResourceLedgerService.record).             *)
(***************************************************************************)
Events(r) == Batch(r[1], r[2])
Unique(events) == \A i, j \in DOMAIN events : events[i].key = events[j].key => i = j

\* An answer that nobody waits for any more is forgotten.
Reply(r, answer) ==
  requests' = IF Waiting(r[1]) /\ r = Current(r[1])
              THEN [requests EXCEPT ![r].phase = "over", ![r].answer = answer]
              ELSE Restrict(requests, DOMAIN requests \ {r})

\* The contract is checked before the handler runs: a batch that uses a key
\* twice is refused whole.
CheckLease(r) ==
  /\ requests[r].phase = "sent"
  /\ IF Unique(Events(r)) /\ Owns(r[1])
     THEN requests' = [requests EXCEPT ![r].phase = "held"]
     ELSE Reply(r, "rejected")
  /\ UNCHANGED <<job, runs, rows>>

KeysOf(es) == {e.key : e \in es}
Row(e, r) == [key |-> e.key, id |-> e.id, by |-> r]

\* The rows its keys already have, as the transaction sees them.
ReadRows(r) ==
  /\ requests[r].phase = "held"
  /\ requests' = [requests EXCEPT
       ![r].phase = "read",
       ![r].seen = {[key |-> e.key, id |-> e.id] :
                      e \in {f \in rows : f.key \in KeysOf(ToSet(Events(r)))}}]
  /\ UNCHANGED <<job, runs, rows>>

\* A key that was seen with other contents.
Clashes(r) == ~(requests[r].seen \subseteq ToSet(Events(r)))

Fresh(r) == {Row(e, r) : e \in {f \in ToSet(Events(r)) : f.key \notin KeysOf(requests[r].seen)}}

\* Wrong on purpose: the unique key of the table is left out of the schema.
AdmitsAll(new) == TRUE

\* uq_resource_events_job_event_key.
Admits(new) == KeysOf(new) \cap KeysOf(rows) = {}

\* Wrong on purpose: what the table would refuse is left out of the flush.
FlushOfTheRest(r) ==
  /\ rows' = rows \cup {e \in Fresh(r) : Admits({e})}
  /\ Reply(r, "accepted")

Flush(r) ==
  IF Clashes(r) \/ ~Admits(Fresh(r))
  THEN Reply(r, "rejected") /\ UNCHANGED rows
  ELSE rows' = rows \cup Fresh(r) /\ Reply(r, "accepted")

Record(r) ==
  /\ requests[r].phase = "read"
  /\ Flush(r)
  /\ UNCHANGED <<job, runs>>

\* The API fails before it has committed.
Break(r) ==
  /\ requests[r].phase = "read"
  /\ Reply(r, "broken")
  /\ UNCHANGED <<job, runs, rows>>

(***************************************************************************)
(* A document an operator uploads is normalised before its job is queued,  *)
(* and the time is recorded there and then.  (It is given up when that     *)
(* fails, which leaves the ledger one row shorter.)                        *)
(***************************************************************************)
Normalized == Row([key |-> Key(1, <<"normalize:cad_ir", 1>>), id |-> <<0, 1>>], <<0, 0, 0>>)

Init ==
  /\ job = [status |-> "pending", attempt |-> 0, owner |-> "nobody"]
  /\ \E on \in [1..Attempts -> Workers] : runs = [a \in 1..Attempts |-> Idle(on[a])]
  /\ requests = <<>>
  /\ rows = {Normalized}

Next ==
  \/ \E a \in 1..Attempts :
        \/ Start(a) \/ Read(a) \/ Build(a) \/ RepairBuild(a) \/ GiveUp(a) \/ Upload(a)
        \/ Send(a) \/ Answered(a) \/ Disconnect(a) \/ TimeOut(a) \/ Complete(a)
  \/ \E r \in DOMAIN requests : CheckLease(r) \/ ReadRows(r) \/ Record(r) \/ Break(r)
  \/ Lapse

Spec == Init /\ [][Next]_vars
-----------------------------------------------------------------------------

Ids(es) == {e.id : e \in es}
Measured == Ids({Normalized}) \cup UNION {Ids(ToSet(runs[a].events)) : a \in DOMAIN runs}

\* However often a batch is sent, and whatever its deliveries overtake, a
\* measurement is in the ledger once and as it was measured (ledger/service.py:5,
\* "survive an arbitrary number of resends without ever counting a measurement
\* twice").
NothingCountedTwice ==
  /\ Ids(rows) \subseteq Measured
  /\ \A e, f \in rows : e.key = f.key \/ e.id = f.id => e = f

Booked(batch) == Ids(ToSet(batch)) \subseteq Ids(rows)
Absent(batch) == Ids(ToSet(batch)) \cap Ids(rows) = {}

\* A batch is in the ledger whole or not at all, and it is there whole when the
\* worker has been told so of every batch.
BatchesAreWhole ==
  \A a \in 1..Attempts :
     /\ runs[a].stage \notin {"read", "build", "upload"} =>
           \A b \in 1..Batches(a) : Booked(Batch(a, b)) \/ Absent(Batch(a, b))
     /\ runs[a].stage = "ship" /\ runs[a].booked =>
           \A b \in 1..(runs[a].batch - 1) : Booked(Batch(a, b))

\* Shipping the measurements never costs the job its model: the shipper "never
\* throws" (ResourceLedger.cs:297).
ShippingNeverThrows == \A a \in 1..Attempts : runs[a].stage # "thrown"

\* The API refuses no batch of the run that holds the job, unless it has it
\* already (ResourceLedger.cs:132, the reason the attempt is part of the key).
HoldersAreBooked ==
  \A r \in DOMAIN requests :
     requests[r].answer = "rejected" /\ Owns(r[1]) => Booked(Events(r))
=============================================================================
