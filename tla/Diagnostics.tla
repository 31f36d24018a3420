---------------------------- MODULE Diagnostics ----------------------------
(***************************************************************************)
(* workers/diagnostics.py: why a job is not picked up, worked out from the *)
(* rows on demand and outside the transaction of a claim.  It repeats the  *)
(* gates of a claim in code of its own.                                    *)
(*                                                                         *)
(* Which machines were heard from within WORKER_ONLINE_WINDOW is left      *)
(* open: online is any set of enrolled ones.  Jobs are enqueued with       *)
(* registered capability keys only.                                        *)
(***************************************************************************)
EXTENDS JobProtocol

Causes == {"WORKER_VERSION_INCOMPATIBLE", "CAPABILITY_NOT_SUPPORTED",
           "CAPABILITY_VERSION_TOO_OLD", "WORKER_MANIFEST_MISSING",
           "WORKER_CODEX_UNAVAILABLE", "WORKER_LEASE_CAPACITY_EXHAUSTED"}

ASSUME CausesAssumption == None \notin Causes

Enrolled == {w \in Workers : workers[w].enrolled}

NeedsTheModel(j) == AiDrawing \in Needs[j].capabilities

\* Wrong on purpose: a machine is called busy before it is known to be able.
BlockerBusyFirst(row, j) ==
  IF ~row.accepted THEN "WORKER_VERSION_INCOMPATIBLE"
  ELSE IF ~row.slots THEN "WORKER_LEASE_CAPACITY_EXHAUSTED"
  ELSE IF ~(Needs[j].capabilities \subseteq row.capabilities) THEN "CAPABILITY_NOT_SUPPORTED"
  ELSE IF Needs[j].cad_ir \notin row.cad_ir THEN "CAPABILITY_VERSION_TOO_OLD"
  ELSE IF Needs[j].keys # {} /\ row.manifest = None THEN "WORKER_MANIFEST_MISSING"
  ELSE IF row.manifest # None /\ ~(Needs[j].keys \subseteq row.manifest)
  THEN "CAPABILITY_NOT_SUPPORTED"
  ELSE IF NeedsTheModel(j) /\ ~CodexIsReachable(row.codex, 0) THEN "WORKER_CODEX_UNAVAILABLE"
  ELSE None

\* _worker_blockers: the first gate a machine fails at, or None.
Blocker(row, j) ==
  IF ~row.accepted THEN "WORKER_VERSION_INCOMPATIBLE"
  ELSE IF ~(Needs[j].capabilities \subseteq row.capabilities) THEN "CAPABILITY_NOT_SUPPORTED"
  ELSE IF Needs[j].cad_ir \notin row.cad_ir THEN "CAPABILITY_VERSION_TOO_OLD"
  ELSE IF Needs[j].keys # {} /\ row.manifest = None THEN "WORKER_MANIFEST_MISSING"
  ELSE IF row.manifest # None /\ ~(Needs[j].keys \subseteq row.manifest)
  THEN "CAPABILITY_NOT_SUPPORTED"
  ELSE IF NeedsTheModel(j) /\ ~CodexIsReachable(row.codex, 0) THEN "WORKER_CODEX_UNAVAILABLE"
  ELSE IF ~row.slots THEN "WORKER_LEASE_CAPACITY_EXHAUSTED"
  ELSE None

Blockers(j, online) == {Blocker(workers[w], j) : w \in online}

\* SchedulerDiagnostics.report.
Claimability(j, online) ==
  IF jobs[j].status = "COMPLETED" THEN "SETTLED"
  ELSE IF jobs[j].status = "LEASED" /\ jobs[j].lease_expires_at > 0 THEN "IN_PROGRESS"
  ELSE IF None \in Blockers(j, online) THEN "CLAIMABLE"
  ELSE "BLOCKED"

\* _summary, where a blocked order says what it waits for.
Summary(j, online) ==
  CASE Claimability(j, online) # "BLOCKED" -> "ON ITS WAY"
    [] /\ Claimability(j, online) = "BLOCKED"
       /\ "WORKER_LEASE_CAPACITY_EXHAUSTED" \in Blockers(j, online) -> "AFTER ANOTHER JOB"
    [] /\ Claimability(j, online) = "BLOCKED"
       /\ Blockers(j, online) = {"WORKER_CODEX_UNAVAILABLE"} -> "PAUSED FOR NOW"
    [] OTHER -> "FOR A MODULE"
-----------------------------------------------------------------------------
(* Properties.                                                             *)

\* A claim by the machine, saying again what it said last, would be given the job.
WouldTake(w, j) == workers[w].slots /\ Serves(workers[w], j, 0)

\* A job that waits is reported as claimable exactly when a claim by one of the
\* machines online would be given it, as in progress exactly while no claim
\* would, and what its customer is told to wait for is what it waits for: a slot
\* of a machine that would serve it, or Codex on machines that need nothing else
\* (diagnostics.py, _worker_blockers: "A status page that names the wrong cause
\* sends somebody to check the wrong thing").  Of machines whose build is
\* accepted: of others see OldBuildsAreGivenNothing.
DiagnosisAgreesWithClaim ==
  \A j \in Jobs, online \in SUBSET {w \in Enrolled : workers[w].accepted} :
    /\ Claimability(j, online) = "IN_PROGRESS" <=>
         jobs[j].status = "LEASED" /\ ~Expired(jobs[j], 0)
    /\ Candidate(jobs[j], 0) =>
         /\ Claimability(j, online) = "CLAIMABLE" <=> \E w \in online : WouldTake(w, j)
         /\ Summary(j, online) = "AFTER ANOTHER JOB" =>
              \E w \in online : Serves(workers[w], j, 0)
         /\ Summary(j, online) = "PAUSED FOR NOW" =>
              \A w \in online : /\ ~Serves(workers[w], j, 0)
                                /\ Serves([workers[w] EXCEPT !.codex = None], j, 0)

\* No claim hands a job to a machine the diagnosis would blame for being an old
\* build (capabilities.py, MINIMUM_WORKER_VERSION: "Oldest worker build the API
\* will hand work to").
OldBuildsAreGivenNothing ==
  [][\A j \in Jobs, w \in Workers :
       jobs'[j].lease_owner = w /\ jobs[j].lease_owner # w =>
         Blocker(workers'[w], j) # "WORKER_VERSION_INCOMPATIBLE"]_vars

\* The customer who is told that an order will continue by itself is not told
\* so for ever, with nobody saying another word: once the fleet is quiet the
\* dates the machines stated pass, and only a machine that stated an outage
\* without a date keeps the order waiting.
PausedReadingContinues ==
  <>[][Tick \/ Reaper]_vars =>
    <>[](\A j \in Jobs, online \in SUBSET Enrolled :
           Summary(j, online) = "PAUSED FOR NOW" =>
             \E w \in online : workers[w].codex.retry_after = None)
=============================================================================
