---------------------------- MODULE JobProtocol ----------------------------
(***************************************************************************)
(* The worker protocol as it runs: SqlWorkerProtocolService over           *)
(* PostgreSQL.  Each call is one transaction that locks the rows it        *)
(* changes.  Claims and sweeps skip rows another transaction has locked,   *)
(* so a claim may be given any row it could take and a sweep may pass over *)
(* any set of rows.  Requests may arrive late, twice or never: RenewLease, *)
(* CompleteWithArtifacts and Fail are attempted by any worker at any time. *)
(***************************************************************************)
EXTENDS JobRows

\* Enrol a machine, or give a known one a new credential.  The Codex state of
\* the row survives.
Register(w, accepted) ==
  /\ workers' = [workers EXCEPT ![w] = [NoWorker EXCEPT !.enrolled = TRUE,
                                                        !.accepted = accepted,
                                                        !.codex = workers[w].codex]]
  /\ spoken' = spoken \ {w}
  /\ UNCHANGED <<jobs, artifacts>>

\* A row a claim may take: waiting, or leased to somebody who fell silent.
Candidate(row, lag) ==
  /\ row.status = "PENDING" \/ Expired(row, lag)
  /\ row.attempt < MaxAttempts

\* POST /workers/claim: the heartbeat it begins with, then the grant.  A machine
\* sends one claim at a time and the handler keeps the worker it has just heard,
\* so nothing comes between the two that either would see; a claim that dies in
\* between, finds nothing, or comes from a machine with no slot, is a Heartbeat.
Claim(w, report, j, lag) ==
  /\ report.slots
  /\ Hear(w, report)
  /\ Candidate(jobs[j], lag)
  /\ Serves(Heard(w, report), j, lag)
  /\ jobs' = [jobs EXCEPT ![j] = Granted(@, w, lag)]
  /\ UNCHANGED artifacts

\* One sweep of the reaper, past the rows in locked.
Reap(locked, lag) ==
  /\ jobs' = [j \in Jobs |-> IF j \in locked THEN jobs[j]
                             ELSE Unstuck(Woken(jobs[j], lag), lag)]
  /\ UNCHANGED <<workers, artifacts, spoken>>

\* A sweep that reaches j.
ReapReaches(j) ==
  \E locked \in SUBSET (Jobs \ {j}), lag \in Lags : Reap(locked, lag)

Reaper == \E locked \in SUBSET Jobs, lag \in Lags : Reap(locked, lag)

HolderActs ==
  \E w \in Workers, j \in Jobs :
    \/ RenewLease(w, j)
    \/ CompleteWithArtifacts(w, j)
    \/ \E code \in Codes, retry_after \in Countdown \cup {None} :
         Fail(w, j, code, retry_after)

Next ==
  \/ \E j \in Jobs : Enqueue(j)
  \/ \E w \in Workers, accepted \in Builds : Register(w, accepted)
  \/ \E w \in Workers, report \in Reports : Heartbeat(w, report)
  \/ \E w \in Workers, report \in Reports, j \in Jobs, lag \in Lags :
       Claim(w, report, j, lag)
  \/ HolderActs
  \/ Reaper
  \/ Tick

\* The clock runs, and the reaper's timer keeps firing: a row is locked only
\* for the length of somebody's transaction, so no row is passed over for ever.
Fairness == WF_vars(Tick) /\ \A j \in Jobs : WF_vars(ReapReaches(j))

Spec == Init /\ [][Next]_vars
FairSpec == Spec /\ Fairness
-----------------------------------------------------------------------------
(* Properties.                                                             *)

\* No row is stranded: one that has not ended can still be claimed, or holds
\* an attempt that was counted.  A paused job always keeps the attempt it will
\* need, however often it is paused.
Unstranded(row) ==
  /\ row.status = "ABSENT" => row.attempt = 0
  /\ row.status \in {"PENDING", "PAUSED"} => row.attempt < MaxAttempts
  /\ row.status \in {"LEASED", "COMPLETED"} => row.attempt \in 1 .. MaxAttempts

NothingStranded == \A j \in Jobs : Unstranded(jobs[j])

\* LEASE_LOST is said only of a job whose every permitted attempt was spent,
\* and a delivery is stored exactly once, with the status that announces it.
EndsAreEarned ==
  \A j \in Jobs :
    /\ jobs[j].failure_code = LeaseLost => jobs[j].attempt = MaxAttempts
    /\ Len(artifacts[j]) = IF jobs[j].status = "COMPLETED" THEN 1 ELSE 0

\* A lease that is running ends only by its own holder's word: no claim, sweep
\* or stale clock takes it away, and the attempt it was granted with stands.
LiveLeaseIsHonoured ==
  [][\A j \in Jobs :
       jobs[j].status = "LEASED" /\ jobs[j].lease_expires_at > 0 =>
         \/ /\ jobs'[j].status = "LEASED"
            /\ jobs'[j].lease_owner = jobs[j].lease_owner
            /\ jobs'[j].attempt = jobs[j].attempt
         \/ jobs'[j].status = "COMPLETED" /\ artifacts'[j] = <<jobs[j].lease_owner>>
         \/ jobs'[j].status \in {"FAILED", "PAUSED"} /\ jobs'[j].failure_code \in Codes
    ]_vars

\* Every job lives the life JobLifecycle describes: its row starts as the
\* abstract job does, and every step of the service is a step of the abstract
\* job or leaves it alone.  (\A j \in Jobs : Lifecycle(j)!Spec, with the
\* quantifier inside the box.)
EveryJobKeepsThePromise ==
  (\A j \in Jobs : Lifecycle(j)!Init) /\ [][PromiseStep]_vars

\* A pause ends, with nobody asking: the clock reaches its date and a sweep
\* returns the job.
PausesEnd ==
  \A j \in Jobs : jobs[j].status = "PAUSED" ~> jobs[j].status # "PAUSED"

\* If every worker goes silent for good, no job stays leased: the sweep alone
\* returns it or fails it.
SilentFleetHoldsNothing ==
  <>[][Tick \/ Reaper]_vars => <>[](\A j \in Jobs : jobs[j].status # "LEASED")
=============================================================================
