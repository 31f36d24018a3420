------------------------------- MODULE Fleet --------------------------------
(***************************************************************************)
(* The machines that run `cad-worker run` and the service they ask for     *)
(* work: ClaimLoop of each (Pipeline.cs), with the credential it was       *)
(* enrolled with and what it last saw of its own Codex CLI (CodexHealth),  *)
(* composed with JobProtocol.  What a machine asks is one action here and  *)
(* the service's part of it one action of JobProtocol.                     *)
(*                                                                         *)
(* What a claimed job does is abstracted to how it ends (DrawingRun and    *)
(* Metering look inside).  A delay between two claims is only time.  Every *)
(* machine runs a build the service accepts, and a loop that asks for work *)
(* has its one slot free (Pipeline.cs:318).                                *)
(***************************************************************************)
EXTENDS Integers, Sequences, FiniteSets

CONSTANTS Jobs, Workers, MaxAttempts, LeaseSeconds, Horizon, LeaseLost, AiDrawing, None,
          Version,         \* the CAD-IR version jobs need and engines speak
          Drawings,        \* the jobs that need the model
          MostOutages,     \* bound: times a CLI stops answering
          MostFaults,      \* bound: requests or answers lost, processes ended
          MostEnrolments   \* bound: times a machine is enrolled

VARIABLES jobs, workers, artifacts, spoken,      \* the service's, see JobRows
          machines,        \* the worker process of each machine
          clis,            \* the Codex CLI of each machine
          credentials,     \* the credential file of each machine
          trouble,         \* how much of the bounds is used up
          muted,           \* jobs whose attempt was cut off from the service
          tally            \* of each machine, since it was last started or mended:
                           \* drawings tried without a CLI, and whether it ever was without

service == <<jobs, workers, artifacts, spoken>>
vars == <<jobs, workers, artifacts, spoken, machines, clis, credentials, trouble, muted, tally>>

\* What a run that failed may say.  Quota and Absent are the CLI's, Refused is
\* about the document, Broke is everything else with a code.
Quota == "CODEX_CAPACITY_LIMIT"
Absent == "CODEX_CLI_MISSING"
Refused == "CAD_IR_INVALID"
Broke == "CODEX_TIMEOUT"
Codes == {Quota, Absent, Refused, Broke}

Needs == [j \in Jobs |->
  [capabilities |-> IF j \in Drawings THEN {AiDrawing} ELSE {}, cad_ir |-> Version, keys |-> {}]]

\* BuildFeedback.
IsRepairable(code) == code = Refused
WillBeTheSameNextTime(code) == code = Quota
ModelCouldNotBeReached(code) == code \in {Quota, Absent}
ModelNeedsAPerson(code) == code = Absent

PauseFor == Horizon

Available == [state |-> "AVAILABLE", retry_after |-> None]

\* Wrong on purpose: a CLI that is gone is said to be back in an hour.
HealthWithADate(code) == [state |-> "PAUSED", retry_after |-> PauseFor]

\* CodexHealth.From.
HealthFrom(code) ==
  IF ModelNeedsAPerson(code) THEN [state |-> "UNAVAILABLE", retry_after |-> None]
  ELSE [state |-> "PAUSED", retry_after |-> PauseFor]

Saying(health) ==
  [capabilities |-> {AiDrawing}, cad_ir |-> {Version}, manifest |-> {}, codex |-> health,
   slots |-> TRUE]

Words == {Available, HealthFrom(Absent)}
           \cup [state : {"PAUSED"}, retry_after : 0 .. Horizon]

P == INSTANCE JobProtocol WITH
       ClockLag <- 0, Builds <- {TRUE}, Reports <- {Saying(word) : word \in Words}

ASSUME FleetAssumption ==
  /\ Jobs # {}
  /\ None \notin Int \cup Workers \cup Codes \cup Words
  /\ None \notin {"WORKER_VERSION_INCOMPATIBLE", "CAPABILITY_NOT_SUPPORTED",
                  "CAPABILITY_VERSION_TOO_OLD", "WORKER_MANIFEST_MISSING",
                  "WORKER_CODEX_UNAVAILABLE",
                  "WORKER_LEASE_CAPACITY_EXHAUSTED"}   \* see Diagnostics
  /\ LeaseLost \notin Codes \cup {None}
  /\ MaxAttempts \in Nat \ {0}
  /\ LeaseSeconds \in Nat \ {0} /\ Horizon \in Nat /\ LeaseSeconds <= Horizon
  /\ Drawings \subseteq Jobs
  /\ MostOutages \in Nat /\ MostFaults \in Nat /\ MostEnrolments \in Nat

\* A process that is not running, and one that asks for work.
Down == [at |-> "down"]
Asking(good, health) == [at |-> "asking", good |-> good, codex |-> health]

\* heard: the loop had the code of the failure; unheard: another exception took
\* its place.  sound: the CLI was there ever since the process started.
Clean == [heard |-> 0, unheard |-> 0, sound |-> TRUE]

Set(w, machine) == machines' = [machines EXCEPT ![w] = machine]

More(kind, most) ==
  /\ trouble[kind] < most
  /\ trouble' = [trouble EXCEPT ![kind] = @ + 1]

Fault == More("faults", MostFaults)
-----------------------------------------------------------------------------
(* The machine and the person at it.                                       *)

\* EnrollmentCommand: the service answers with a new credential, which from then
\* on is the only good one, and the credential is written to its file.
\* Everything that held the old one is shut out.
Enrol(w) ==
  /\ P!Register(w, TRUE)
  /\ More("enrolments", MostEnrolments)
  /\ \E saved \in BOOLEAN :             \* or the answer never reached the file
       credentials' = [credentials EXCEPT ![w] =
         IF saved THEN "good" ELSE IF @ = "none" THEN "none" ELSE "old"]
  /\ machines' = [machines EXCEPT ![w] = IF @.at = "down" THEN @ ELSE [@ EXCEPT !.good = FALSE]]
  /\ UNCHANGED <<clis, muted, tally>>

\* Wrong on purpose: a process starts with what the service last heard.
WordOnRestart(w) == IF workers[w].codex = None THEN Available ELSE workers[w].codex

\* "It starts at *available* rather than at "unknown", and that is the fix for a
\* deadlock" (Pipeline.cs:282).
WordOnStart(w) == Available

\* cad-worker run, on an enrolled machine.
Start(w) ==
  /\ machines[w] = Down /\ credentials[w] # "none"
  /\ Set(w, Asking(credentials[w] = "good", WordOnStart(w)))
  /\ tally' = [tally EXCEPT ![w] = [Clean EXCEPT !.sound = clis[w] # "absent"]]
  /\ UNCHANGED <<service, clis, credentials, trouble, muted>>

\* The process ends, whatever it was doing.
Stop(w) ==
  /\ machines[w] # Down /\ Fault
  /\ Set(w, Down)
  /\ muted' = IF machines[w].at = "running" THEN muted \cup {machines[w].job} ELSE muted
  /\ UNCHANGED <<service, clis, credentials, tally>>

\* The CLI stops answering, for want of quota or for good, and answers again.
Break(w) ==
  /\ clis[w] = "ok" /\ More("outages", MostOutages)
  /\ \E state \in {"limited", "absent"} :
        /\ clis' = [clis EXCEPT ![w] = state]
        /\ tally' = [tally EXCEPT ![w].sound = @ /\ state # "absent"]
  /\ UNCHANGED <<service, machines, credentials, muted>>

Mend(w) ==
  /\ clis[w] # "ok"
  /\ clis' = [clis EXCEPT ![w] = "ok"]
  /\ tally' = [tally EXCEPT ![w] = [Clean EXCEPT !.sound = tally[w].sound]]
  /\ UNCHANGED <<service, machines, credentials, trouble, muted>>

\* A customer uploads a drawing, or an operator submits a document.
Order(j) ==
  /\ P!Enqueue(j)
  /\ UNCHANGED <<machines, clis, credentials, trouble, muted, tally>>
-----------------------------------------------------------------------------
(* Asking for work.                                                        *)

Ready(w) == machines[w].at = "asking" /\ machines[w].good

\* The credential is no longer the machine's: the process ends.
ShutOut(w) ==
  /\ machines[w].at = "asking" /\ ~machines[w].good
  /\ Set(w, Down)
  /\ UNCHANGED <<service, clis, credentials, trouble, muted, tally>>

\* There is a job for it.
Take(w, j) ==
  /\ Ready(w)
  /\ P!Claim(w, Saying(machines[w].codex), j, 0)
  /\ Set(w, [at |-> "running", good |-> TRUE, codex |-> machines[w].codex, job |-> j,
             attempt |-> jobs[j].attempt + 1, renewal |-> "on"])
  /\ muted' = muted \ {j}
  /\ UNCHANGED <<clis, credentials, trouble, tally>>

\* There is one, and the answer is lost.
TakeUnheard(w, j) ==
  /\ Ready(w) /\ Fault
  /\ P!Claim(w, Saying(machines[w].codex), j, 0)
  /\ muted' = muted \cup {j}
  /\ UNCHANGED <<machines, clis, credentials, tally>>

Offered(w, j) ==
  /\ P!Candidate(jobs[j], 0)
  /\ P!Serves(P!Heard(w, Saying(machines[w].codex)), j, 0)

\* There is none.  A request that is lost, and a claim loop that backs off after
\* one, change nothing at all.
FindNothing(w) ==
  /\ Ready(w) /\ \A j \in Jobs : ~Offered(w, j)
  /\ P!Heartbeat(w, Saying(machines[w].codex))
  /\ UNCHANGED <<machines, clis, credentials, trouble, muted, tally>>
-----------------------------------------------------------------------------
(* The run, from its first request to its last.                            *)

Running(w) == machines[w].at = "running"
JobOf(w) == machines[w].job
Holds(w) == machines[w].good /\ P!Owned(w, JobOf(w))

\* MaintainLeaseAsync.  The first renewal that is refused, or lost, ends the
\* task: the run goes on without it.  What ended it is thrown when the run awaits
\* the task, unless it is a time-out, which passes there for a cancellation.
Renew(w) ==
  /\ Running(w) /\ machines[w].renewal = "on" /\ Holds(w)
  /\ P!RenewLease(w, JobOf(w))
  /\ UNCHANGED <<machines, clis, credentials, trouble, muted, tally>>

RenewalEnds(w) ==
  /\ Running(w) /\ machines[w].renewal = "on"
  /\ \E end \in {"thrown", "timed_out"} :
        /\ (~Holds(w) /\ end = "thrown" /\ UNCHANGED trouble) \/ Fault
        /\ Set(w, [machines[w] EXCEPT !.renewal = end])
  /\ muted' = muted \cup {JobOf(w)}
  /\ UNCHANGED <<service, clis, credentials, tally>>

Drew(w) == JobOf(w) \in Drawings

\* What it says of Codex next.
AskAgain(w, health) == Set(w, Asking(machines[w].good, health))

Delivered(w) ==
  \/ Holds(w) /\ P!CompleteWithArtifacts(w, JobOf(w))
  \/ machines[w].good /\ jobs[JobOf(w)].status = "COMPLETED" /\ UNCHANGED service

\* The job is built and its completion accepted.  If a renewal had failed, the
\* await in the finally block throws instead of returning: the loop backs off and
\* the success is not taken for evidence.
Finish(w) ==
  /\ Running(w) /\ (Drew(w) => clis[w] = "ok")
  /\ Delivered(w)
  /\ AskAgain(w, IF Drew(w) /\ machines[w].renewal # "thrown" THEN Available ELSE machines[w].codex)
  /\ UNCHANGED <<clis, credentials, trouble, muted, tally>>

\* It is built, and the completion or another request of the run is refused or
\* lost: an exception without a code, and the loop backs off.
FinishUnheard(w) ==
  /\ Running(w) /\ (Drew(w) => clis[w] = "ok")
  /\ (~Holds(w) /\ UNCHANGED trouble) \/ Fault
  /\ AskAgain(w, machines[w].codex)
  /\ muted' = muted \cup {JobOf(w)}
  /\ UNCHANGED <<service, clis, credentials, tally>>

\* What may go wrong in a run of w.
Failures(w) ==
  {Refused, Broke} \cup
  (IF Drew(w) /\ clis[w] = "limited" THEN {Quota}
   ELSE IF Drew(w) /\ clis[w] = "absent" THEN {Absent} ELSE {})

\* Wrong on purpose: the last attempt is left to the lease like any other.
EndsTheJobEarly(code, attempt) == IsRepairable(code) \/ WillBeTheSameNextTime(code)

\* Another attempt would not help, or there is none.
EndsTheJob(code, attempt) ==
  IsRepairable(code) \/ WillBeTheSameNextTime(code) \/ attempt >= MaxAttempts

\* TryReportFailureAsync: with a date if it is a pause.  A report that is
\* refused or lost is let go.
Report(w, code) ==
  \/ /\ Holds(w)
     /\ P!Fail(w, JobOf(w), code, IF WillBeTheSameNextTime(code) THEN PauseFor ELSE None)
     /\ UNCHANGED <<trouble, muted>>
  \/ /\ (~Holds(w) /\ UNCHANGED trouble) \/ Fault
     /\ muted' = muted \cup {JobOf(w)}
     /\ UNCHANGED service

HealthAfter(w, code) ==
  IF ModelCouldNotBeReached(code) THEN HealthFrom(code) ELSE machines[w].codex

Wasted(w, code, how) == IF code = Absent THEN [tally EXCEPT ![w][how] = @ + 1] ELSE tally

\* The run fails with a code.
Fail(w) ==
  /\ Running(w) /\ machines[w].renewal # "thrown"
  /\ \E code \in Failures(w) :
        /\ IF EndsTheJob(code, machines[w].attempt) THEN Report(w, code)
           ELSE UNCHANGED <<service, trouble, muted>>
        /\ AskAgain(w, HealthAfter(w, code))
        /\ tally' = Wasted(w, code, "heard")
        /\ UNCHANGED <<clis, credentials>>

\* The same after a renewal had failed: the exception of the await takes the
\* place of the one with the code, so nothing is reported and nothing learnt.
FailUnheard(w) ==
  /\ Running(w) /\ machines[w].renewal = "thrown"
  /\ \E code \in Failures(w) :
        /\ AskAgain(w, machines[w].codex)
        /\ tally' = Wasted(w, code, "unheard")
        /\ UNCHANGED <<service, clis, credentials, trouble, muted>>
-----------------------------------------------------------------------------
\* A second passes for the service and for what the machines wait for.
Older(health) ==
  IF health.retry_after = None \/ health.retry_after = 0 THEN health
  ELSE [health EXCEPT !.retry_after = @ - 1]

Second ==
  /\ P!Tick
  /\ machines' = [w \in Workers |-> IF machines[w] = Down THEN Down
                                    ELSE [machines[w] EXCEPT !.codex = Older(@)]]
  /\ UNCHANGED <<clis, credentials, trouble, muted, tally>>

Sweep ==
  /\ P!Reap({}, 0)
  /\ UNCHANGED <<machines, clis, credentials, trouble, muted, tally>>

Init ==
  /\ P!Init
  /\ machines = [w \in Workers |-> Down]
  /\ clis = [w \in Workers |-> "ok"]
  /\ credentials = [w \in Workers |-> "none"]
  /\ trouble = [outages |-> 0, faults |-> 0, enrolments |-> 0]
  /\ muted = {}
  /\ tally = [w \in Workers |-> Clean]

Ask(w) == \E j \in Jobs : Take(w, j)
End(w) == Finish(w) \/ FinishUnheard(w) \/ Fail(w) \/ FailUnheard(w)

Step(w) ==
  \/ Enrol(w) \/ Start(w) \/ Stop(w) \/ Break(w) \/ Mend(w)
  \/ ShutOut(w) \/ Ask(w) \/ FindNothing(w) \/ Renew(w) \/ RenewalEnds(w) \/ End(w)
  \/ \E j \in Jobs : TakeUnheard(w, j)

Moves == Second \/ Sweep \/ (\E j \in Jobs : Order(j)) \/ \E w \in Workers : Step(w)

\* The clock runs, the reaper's timer fires, a loop that is asking goes on asking
\* and a run ends: every step of one has a timeout.
Fairness ==
  /\ WF_vars(Second) /\ WF_vars(Sweep)
  /\ \A w \in Workers : WF_vars(Ask(w)) /\ WF_vars(End(w))

Spec == Init /\ [][Moves]_vars
FairSpec == Spec /\ Fairness
-----------------------------------------------------------------------------

\* A CLI that is gone costs a machine one run: after a failure the claim loop has
\* heard, no drawing job is given to it until it is mended or started again
\* (CodexHealth.cs:9, "Three leases and three failures per order, every one
\* predictable from the first").
AbsenceIsToldOnce == \A w \in Workers : tally[w].heard <= 1

\* The same of every failure.
AbsenceCostsOneRun == \A w \in Workers : tally[w].heard + tally[w].unheard <= 1

\* A job is ended for silence only if it was cut off: its last attempt lost a
\* request, its credential, its process or its lease.  A failure that has a code
\* ends under that code (Pipeline.cs:391).
LostMeansSilent ==
  \A j \in Jobs :
    jobs[j].failure_code = LeaseLost =>
      j \in muted \/ \E w \in Workers : Running(w) /\ JobOf(w) = j

Serving(w) ==              \* started since its CLI was last put in order
  machines[w] # Down /\ machines[w].good /\ clis[w] = "ok" /\ tally[w].sound

\* A machine that was mended and then started, or only ran out of quota, is
\* believed again: while one such machine keeps asking, every drawing that waits
\* is taken, whatever the service had stored about it (Pipeline.cs:282).
DrawingsAreTaken ==
  (\E w \in Workers : <>[]Serving(w)) =>
    \A j \in Jobs : jobs[j].status = "PENDING" ~> jobs[j].status # "PENDING"
=============================================================================
