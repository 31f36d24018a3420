------------------------------ MODULE JobRows ------------------------------
(***************************************************************************)
(* The rows the worker protocol keeps and the operations both of its       *)
(* implementations share: SqlWorkerProtocolService (workers/sql_protocol)  *)
(* and the in-memory WorkerProtocolService (workers/protocol).  Every      *)
(* operation is one transaction, so one action.                            *)
(*                                                                         *)
(* Time is kept as countdowns: a stored instant is how many seconds of the *)
(* service's clock are left before it.  Registration, claim and sweep read *)
(* the clock before they lock a row, so they compare with an instant up to *)
(* ClockLag in the past; a countdown is not told apart below -ClockLag.    *)
(*                                                                         *)
(* A job is its idempotency key: the unique key makes a second row for the *)
(* same request impossible.                                                *)
(***************************************************************************)
EXTENDS Integers, Sequences, FiniteSets

CONSTANTS Jobs,            \* the jobs that may be enqueued, by idempotency key
          Workers,         \* enrolled machines, by name
          MaxAttempts,     \* Job.max_attempts
          LeaseSeconds,    \* the length of a lease
          ClockLag,        \* how old the instant of a claim or sweep may be
          Horizon,         \* the furthest date a worker states
          Codes,           \* the failure codes workers report
          LeaseLost,       \* LEASE_LOST_CODE, the sweep's own
          Needs,           \* for each job, what a worker must declare
          AiDrawing,       \* the capability that needs the Codex CLI
          Builds,          \* is a machine's build one worker_version_accepted takes
          Reports,         \* what a worker may say of itself in a request
          None             \* SQL null

VARIABLES jobs,            \* the job rows
          workers,         \* the worker rows
          artifacts,       \* per job, the deliveries whose artifact rows exist
          spoken           \* workers that stated a Codex state since they enrolled

vars == <<jobs, workers, artifacts, spoken>>

Countdown == -ClockLag .. Horizon
Lags == 0 .. ClockLag

Statuses == {"ABSENT", "PENDING", "LEASED", "PAUSED", "COMPLETED", "FAILED"}

CodexWords == [state : {"AVAILABLE", "PAUSED", "UNAVAILABLE"},
               retry_after : Countdown \cup {None}]

Declared == (UNION {Needs[j].capabilities : j \in Jobs}) \cup {AiDrawing}
Keys == UNION {Needs[j].keys : j \in Jobs}
Versions == {Needs[j].cad_ir : j \in Jobs}

ASSUME ConstantsAssumption ==
  /\ MaxAttempts \in Nat \ {0}
  /\ ClockLag \in Nat
  /\ LeaseSeconds \in Nat /\ Horizon \in Nat
  /\ ClockLag < LeaseSeconds /\ LeaseSeconds <= Horizon
  /\ None \notin Int \cup Workers \cup Codes
  /\ LeaseLost \notin Codes \cup {None}
  /\ Builds \subseteq BOOLEAN

ASSUME ReportsAssumption ==
  Reports \subseteq [capabilities : SUBSET Declared, cad_ir : SUBSET Versions,
                     manifest : (SUBSET Keys) \cup {None},
                     codex : CodexWords \cup {None}, slots : BOOLEAN]
-----------------------------------------------------------------------------
NoJob == [status |-> "ABSENT", attempt |-> 0, lease_owner |-> None,
          lease_expires_at |-> None, failure_code |-> None, retry_after |-> None]

NoWorker == [enrolled |-> FALSE, accepted |-> FALSE, capabilities |-> {}, cad_ir |-> {},
             manifest |-> None, codex |-> None, slots |-> FALSE]

JobRow == [status : Statuses, attempt : 0 .. MaxAttempts,
           lease_owner : Workers \cup {None},
           lease_expires_at : Countdown \cup {None},
           failure_code : Codes \cup {LeaseLost, None},
           retry_after : Countdown \cup {None}]

WorkerRow == [enrolled : BOOLEAN, accepted : BOOLEAN, capabilities : SUBSET Declared,
              cad_ir : SUBSET Versions, manifest : (SUBSET Keys) \cup {None},
              codex : CodexWords \cup {None}, slots : BOOLEAN]

Init ==
  /\ jobs = [j \in Jobs |-> NoJob]
  /\ workers = [w \in Workers |-> NoWorker]
  /\ artifacts = [j \in Jobs |-> << >>]
  /\ spoken = {}
-----------------------------------------------------------------------------
(* The gates a job passes before a worker is given it.                     *)

\* Wrong on purpose: a lagging clock used in the wrong direction.
ExpiredEarly(row, lag) ==
  /\ row.status = "LEASED"
  /\ row.lease_expires_at # None
  /\ row.lease_expires_at <= lag

\* The lease of a row has run out, for a caller whose clock lags by lag.
Expired(row, lag) ==
  /\ row.status = "LEASED"
  /\ row.lease_expires_at # None
  /\ row.lease_expires_at + lag <= 0

\* Wrong on purpose: only a fresh word lifts an outage, its date does not.
ReachableWhenSaid(codex, lag) ==
  \/ codex = None
  \/ codex # None /\ codex.state = "AVAILABLE"

\* The caller's last word about Codex still means it can answer.
CodexIsReachable(codex, lag) ==
  \/ codex = None
  \/ codex # None /\ codex.state = "AVAILABLE"
  \/ codex # None /\ codex.retry_after # None /\ codex.retry_after + lag <= 0

UnmetCapabilities(manifest, required) ==
  IF manifest = None THEN required ELSE required \ manifest

Serves(row, j, lag) ==
  /\ Needs[j].capabilities \subseteq row.capabilities
  /\ Needs[j].cad_ir \in row.cad_ir
  /\ UnmetCapabilities(row.manifest, Needs[j].keys) = {}
  /\ AiDrawing \in Needs[j].capabilities => CodexIsReachable(row.codex, lag)

\* Wrong on purpose: the lease of the holder is not looked at.
OwnedByName(w, j) ==
  /\ jobs[j].status = "LEASED"
  /\ jobs[j].lease_owner = w

\* _validate_owned: only the live holder speaks for a job.
Owned(w, j) ==
  /\ jobs[j].status = "LEASED"
  /\ jobs[j].lease_owner = w
  /\ jobs[j].lease_expires_at # None
  /\ jobs[j].lease_expires_at > 0

\* The worker row a request leaves behind: the manifest and the Codex state
\* are overwritten only when the request carries them.
Heard(w, report) ==
  [workers[w] EXCEPT !.capabilities = report.capabilities,
                     !.cad_ir = report.cad_ir, !.slots = report.slots,
                     !.manifest = IF report.manifest = None THEN @ ELSE report.manifest,
                     !.codex = IF report.codex = None THEN @ ELSE report.codex]

Hear(w, report) ==
  /\ workers[w].enrolled
  /\ workers' = [workers EXCEPT ![w] = Heard(w, report)]
  /\ spoken' = IF report.codex = None THEN spoken ELSE spoken \cup {w}

\* The job row a claim leaves behind.
Granted(row, w, lag) ==
  [row EXCEPT !.status = "LEASED", !.lease_owner = w,
              !.lease_expires_at = LeaseSeconds - lag, !.attempt = @ + 1]
-----------------------------------------------------------------------------
(* The operations.                                                         *)

Enqueue(j) ==
  /\ jobs[j].status = "ABSENT"
  /\ jobs' = [jobs EXCEPT ![j] = [NoJob EXCEPT !.status = "PENDING"]]
  /\ UNCHANGED <<workers, artifacts, spoken>>

\* POST /workers/heartbeat, and a claim that finds nothing to give.
Heartbeat(w, report) ==
  /\ Hear(w, report)
  /\ UNCHANGED <<jobs, artifacts>>

Renewed(row) == [row EXCEPT !.lease_expires_at = LeaseSeconds]

RenewLease(w, j) ==
  /\ Owned(w, j)
  /\ jobs' = [jobs EXCEPT ![j] = Renewed(@)]
  /\ UNCHANGED <<workers, artifacts, spoken>>

Completed(row) ==
  [row EXCEPT !.status = "COMPLETED", !.lease_owner = None, !.lease_expires_at = None]

\* A completion of a COMPLETED job is acknowledged and changes nothing.
CompleteWithArtifacts(w, j) ==
  /\ Owned(w, j)
  /\ artifacts' = [artifacts EXCEPT ![j] = Append(@, w)]
  /\ jobs' = [jobs EXCEPT ![j] = Completed(@)]
  /\ UNCHANGED <<workers, spoken>>

\* Wrong on purpose: a pause costs the attempt.
FailedAtACost(row, code, retry_after) ==
  [row EXCEPT !.status = IF retry_after = None THEN "FAILED" ELSE "PAUSED",
              !.lease_owner = None, !.lease_expires_at = None,
              !.failure_code = code, !.retry_after = retry_after]

\* The row of a job whose worker has stopped trying.  A report with a date is a
\* pause, and a pause hands the attempt back.
Failed(row, code, retry_after) ==
  [row EXCEPT !.status = IF retry_after = None THEN "FAILED" ELSE "PAUSED",
              !.attempt = IF retry_after = None \/ @ = 0 THEN @ ELSE @ - 1,
              !.lease_owner = None, !.lease_expires_at = None,
              !.failure_code = code, !.retry_after = retry_after]

Fail(w, j, code, retry_after) ==
  /\ Owned(w, j)
  /\ jobs' = [jobs EXCEPT ![j] = Failed(@, code, retry_after)]
  /\ UNCHANGED <<workers, artifacts, spoken>>

\* Wrong on purpose: a job paused on its first attempt is not resumed.
WokenIfTried(row, lag) ==
  IF /\ row.status = "PAUSED" /\ row.attempt > 0
     /\ row.retry_after # None /\ row.retry_after + lag <= 0
  THEN [row EXCEPT !.status = "PENDING", !.retry_after = None, !.failure_code = None]
  ELSE row

\* The two halves of a sweep, on one row.
Woken(row, lag) ==
  IF row.status = "PAUSED" /\ row.retry_after # None /\ row.retry_after + lag <= 0
  THEN [row EXCEPT !.status = "PENDING", !.retry_after = None, !.failure_code = None]
  ELSE row

\* Wrong on purpose: a lapsed lease with attempts left is left to the next claim.
StuckWhenSpent(row, lag) ==
  (Expired(row, lag) \/ row.status = "PENDING") /\ row.attempt >= MaxAttempts

Stuck(row, lag) ==
  Expired(row, lag) \/ (row.status = "PENDING" /\ row.attempt >= MaxAttempts)

\* Wrong on purpose: the last attempt is taken away unused.
UnstuckTooSoon(row, lag) ==
  IF ~Stuck(row, lag) THEN row
  ELSE IF row.attempt + 1 < MaxAttempts
  THEN [row EXCEPT !.status = "PENDING", !.lease_owner = None, !.lease_expires_at = None]
  ELSE [row EXCEPT !.status = "FAILED", !.lease_owner = None, !.lease_expires_at = None,
                   !.failure_code = LeaseLost]

\* Wrong on purpose: the last holder stays on a row that failed.
UnstuckWithHolder(row, lag) ==
  IF ~Stuck(row, lag) THEN row
  ELSE IF row.attempt < MaxAttempts
  THEN [row EXCEPT !.status = "PENDING", !.lease_owner = None, !.lease_expires_at = None]
  ELSE [row EXCEPT !.status = "FAILED", !.lease_expires_at = None, !.failure_code = LeaseLost]

Unstuck(row, lag) ==
  IF ~Stuck(row, lag) THEN row
  ELSE IF row.attempt < MaxAttempts
  THEN [row EXCEPT !.status = "PENDING", !.lease_owner = None, !.lease_expires_at = None]
  ELSE [row EXCEPT !.status = "FAILED", !.lease_owner = None, !.lease_expires_at = None,
                   !.failure_code = LeaseLost]

\* One second of the clock.
Older(left) == IF left = None \/ left = -ClockLag THEN left ELSE left - 1

OlderWord(codex) ==
  IF codex = None THEN None ELSE [codex EXCEPT !.retry_after = Older(@)]

OlderRow(row) ==
  [row EXCEPT !.lease_expires_at = Older(@), !.retry_after = Older(@)]

Tick ==
  /\ jobs' = [j \in Jobs |-> OlderRow(jobs[j])]
  /\ workers' = [w \in Workers |-> [workers[w] EXCEPT !.codex = OlderWord(@)]]
  /\ UNCHANGED <<artifacts, spoken>>
-----------------------------------------------------------------------------
(* Each job's row is a JobLifecycle.  An attempt in use, or one that ended *)
(* in a report, is not a silence; every other attempt is.                  *)

Spent(j) ==
  \/ jobs[j].status \in {"LEASED", "COMPLETED"}
  \/ jobs[j].status = "FAILED" /\ jobs[j].failure_code # LeaseLost

Stage(status) ==
  CASE status = "ABSENT"    -> "absent"
    [] status = "PENDING"   -> "waiting"
    [] status = "LEASED"    -> "held"
    [] status = "PAUSED"    -> "resting"
    [] status = "COMPLETED" -> "done"
    [] status = "FAILED"    -> "dead"

Lapsed(j) == jobs[j].lease_expires_at # None /\ jobs[j].lease_expires_at <= 0

Lifecycle(j) == INSTANCE JobLifecycle WITH
  MaxSilences <- MaxAttempts,
  stage       <- Stage(jobs[j].status),
  holder      <- jobs[j].lease_owner,
  quiet       <- Lapsed(j),
  silences    <- jobs[j].attempt - (IF Spent(j) THEN 1 ELSE 0),
  delivered   <- artifacts[j]

\* The step leaves every job where its abstract job may go.
PromiseStep == \A j \in Jobs : [Lifecycle(j)!Next]_(Lifecycle(j)!vars)

-----------------------------------------------------------------------------
(* What holds of the rows under either implementation.                     *)

\* Every row has the columns and values the table allows.
TypeOK ==
  /\ jobs \in [Jobs -> JobRow]
  /\ workers \in [Workers -> WorkerRow]
  /\ artifacts \in [Jobs -> Seq(Workers)]
  /\ spoken \subseteq Workers

\* A lease has an owner and an instant exactly while the row is LEASED, a date
\* to resume exactly while it is PAUSED, and a reason exactly while it is
\* stopped: complete, fail, reap and a second claim all leave no half of the
\* last holder behind.
WholeRow(row) ==
  /\ (row.lease_owner # None) <=> (row.status = "LEASED")
  /\ (row.lease_expires_at # None) <=> (row.status = "LEASED")
  /\ (row.retry_after # None) <=> (row.status = "PAUSED")
  /\ (row.failure_code # None) <=> (row.status \in {"PAUSED", "FAILED"})

RowsAreWhole == \A j \in Jobs : WholeRow(jobs[j])

\* A worker that has said nothing about Codex since it enrolled is never kept
\* from a drawing job on account of Codex (protocol.py, codex_is_reachable:
\* "this gate can only ever withhold work from a worker that has stated it
\* cannot do that work").
SilenceIsAvailability ==
  \A w \in Workers : w \notin spoken => CodexIsReachable(workers[w].codex, 0)
=============================================================================
