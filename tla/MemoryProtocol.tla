--------------------------- MODULE MemoryProtocol ---------------------------
(***************************************************************************)
(* The in-memory WorkerProtocolService, which the API's own tests run on:  *)
(* one dictionary of jobs, scanned in the order they were enqueued.  It    *)
(* spells two things differently from the SQL service: a claim returns     *)
(* every lapsed lease it passes to PENDING before it looks at the attempts *)
(* that are left, and re-enrolling a machine forgets its Codex state.      *)
(***************************************************************************)
EXTENDS JobRows, SequencesExt

VARIABLE order             \* the jobs in the order the dictionary holds them

memvars == <<jobs, workers, artifacts, spoken, order>>

MemInit == Init /\ order = << >>

\* Wrong on purpose: a new credential inherits the old word about Codex.
MemRegisterAsSql(w, accepted) ==
  /\ workers' = [workers EXCEPT ![w] = [NoWorker EXCEPT !.enrolled = TRUE,
                                                        !.accepted = accepted,
                                                        !.codex = workers[w].codex]]
  /\ spoken' = spoken \ {w}
  /\ UNCHANGED <<jobs, artifacts, order>>

MemRegister(w, accepted) ==
  /\ workers' = [workers EXCEPT ![w] = [NoWorker EXCEPT !.enrolled = TRUE,
                                                        !.accepted = accepted]]
  /\ spoken' = spoken \ {w}
  /\ UNCHANGED <<jobs, artifacts, order>>

MemEnqueue(j) ==
  /\ Enqueue(j)
  /\ order' = Append(order, j)

\* Wrong on purpose: a silence is not counted.
ReturnedForFree(row, lag) ==
  IF Expired(row, lag)
  THEN [row EXCEPT !.status = "PENDING", !.lease_owner = None, !.lease_expires_at = None,
                   !.attempt = @ - 1]
  ELSE row

\* A lapsed lease the scan passes.
Returned(row, lag) ==
  IF Expired(row, lag)
  THEN [row EXCEPT !.status = "PENDING", !.lease_owner = None, !.lease_expires_at = None]
  ELSE row

\* A job the scan stops at.
Taken(worker, j, lag) ==
  /\ Returned(jobs[j], lag).status = "PENDING"
  /\ jobs[j].attempt < MaxAttempts
  /\ Serves(worker, j, lag)

\* The jobs the scan has passed when it stops at the n-th.
Passed(n) == {order[i] : i \in 1 .. n}

\* POST /workers/claim: the scan stops at the first job it can give, having
\* returned every lapsed lease up to there.
MemClaim(w, report, lag) ==
  LET worker == Heard(w, report)
      hits   == {n \in DOMAIN order : Taken(worker, order[n], lag)}
      rows(n) == [j \in Jobs |-> IF j \in Passed(n) THEN Returned(jobs[j], lag) ELSE jobs[j]]
  IN /\ report.slots
     /\ Hear(w, report)
     /\ \/ /\ hits = {}
           /\ jobs' = rows(Len(order))
        \/ \E n \in hits :
             /\ \A m \in hits : n <= m
             /\ jobs' = [rows(n) EXCEPT ![order[n]] = Granted(@, w, lag)]
     /\ UNCHANGED <<artifacts, order>>

\* Wrong on purpose: the sweep looks at paused and leased rows only.
MemSweptLeases(row, lag) ==
  IF Expired(row, lag) THEN Unstuck(row, lag) ELSE Woken(row, lag)

\* A row the sweep resumes is not looked at again in the same sweep.
MemSwept(row, lag) ==
  IF Woken(row, lag) # row THEN Woken(row, lag) ELSE Unstuck(row, lag)

MemReap(lag) ==
  /\ jobs' = [j \in Jobs |-> MemSwept(jobs[j], lag)]
  /\ UNCHANGED <<workers, artifacts, spoken, order>>

MemHolderActs ==
  /\ \E w \in Workers, j \in Jobs :
       \/ RenewLease(w, j)
       \/ CompleteWithArtifacts(w, j)
       \/ \E code \in Codes, retry_after \in Countdown \cup {None} :
            Fail(w, j, code, retry_after)
  /\ UNCHANGED order

MemNext ==
  \/ \E j \in Jobs : MemEnqueue(j)
  \/ \E w \in Workers, accepted \in Builds : MemRegister(w, accepted)
  \/ \E w \in Workers, report \in Reports :
       Heartbeat(w, report) /\ UNCHANGED order
  \/ \E w \in Workers, report \in Reports, lag \in Lags : MemClaim(w, report, lag)
  \/ MemHolderActs
  \/ \E lag \in Lags : MemReap(lag)
  \/ Tick /\ UNCHANGED order

MemSpec == MemInit /\ [][MemNext]_memvars

\* The reaper's timer and the clock keep going; nothing else is promised.
MemFairSpec ==
  /\ MemSpec
  /\ WF_memvars(Tick /\ UNCHANGED order)
  /\ WF_memvars(\E lag \in Lags : MemReap(lag))
-----------------------------------------------------------------------------
\* The in-memory service keeps the same promise about every job.
MemKeepsThePromise ==
  (\A j \in Jobs : Lifecycle(j)!Init) /\ [][PromiseStep]_memvars

\* A job the scan left PENDING with no attempts is not claimable by anybody:
\* the sweep alone ends it, and always does.
SpentJobsEnd ==
  \A j \in Jobs :
    jobs[j].status = "PENDING" /\ jobs[j].attempt = MaxAttempts ~> jobs[j].status = "FAILED"
=============================================================================
