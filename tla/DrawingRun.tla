---------------------------- MODULE DrawingRun ----------------------------
(***************************************************************************)
(* A drawing job on the machine that runs it: the claim loop, the lease    *)
(* renewed beside the work, the pipeline that reads the drawing, compiles  *)
(* a document, has it checked, repaired and built, and the job directory,  *)
(* which is named after the job and so outlives the run that filled it.    *)
(* The job moves as JobLifecycle says; other machines may hold it too.     *)
(*                                                                         *)
(* A document is a number: 0 is what the run compiled, n its n-th repair,  *)
(* Earlier any document of an earlier run.  What a model writes and what   *)
(* the engine thinks of it are choices.                                    *)
(***************************************************************************)
EXTENDS Integers, Sequences

CONSTANTS MaxAttempts,         \* Job.max_attempts
          MaxRunsPerOrder,     \* CodexBudgetPolicy: model calls of one run
          MaxRepairRuns,       \* CodexBudgetPolicy: those that repair
          MaxCompileRepairs,   \* BuildFeedback: rewrites of a refused document
          MaxBuildRepairs,     \* BuildFeedback: rewrites of a failed build
          CodexFailures,       \* how the Codex CLI may fail, by code
          Rounds,              \* what may come with the drawing
          Machine,             \* the machine whose directory this is
          Others,              \* the other machines
          None

VARIABLES stage, holder, quiet, silences, delivered,    \* the job's life
          run,          \* the run in progress: where it is and what it counts
          disk,         \* what the job directory holds
          renewal,      \* MaintainLeaseAsync: "off", "on", "failed"
          round,        \* what came with the drawing
          sent          \* what this machine delivered

job == <<stage, holder, quiet, silences, delivered>>
vars == <<job, run, disk, renewal, round, sent>>

Job == INSTANCE JobLifecycle WITH Workers <- Others \cup {Machine},
                                  MaxSilences <- MaxAttempts

\* The codes BuildFeedback lists, one for each kind.
Repairable == {"CAD_IR_INVALID"}
Unchanging == {"CODEX_CAPACITY_LIMIT", "CODEX_BUDGET_EXHAUSTED"}

\* An exception that Typed does not name.
Untyped == "UNTYPED"

Earlier == -1
Documents == 0 .. MaxCompileRepairs + MaxBuildRepairs
Kept == Documents \cup {Earlier, None}

\* Who read the drawing: the model in this run, the round the answers are to,
\* an earlier run, nobody.
Readings == {"reader", "carried", "earlier", None}

Places == {"idle", "preparing", "reading", "compiling", "checking", "repairing",
           "building", "repairing_build", "rechecking", "uploading", "completing"}

ASSUME RunAssumption ==
  /\ {MaxRunsPerOrder, MaxRepairRuns, MaxCompileRepairs, MaxBuildRepairs} \subseteq Nat
  /\ MaxAttempts \in Nat \ {0}
  /\ CodexFailures \subseteq STRING
  /\ Rounds \subseteq [answers : BOOLEAN, note : BOOLEAN,
                       carried : {"none", "settled", "unsettled"}]
  /\ Machine \notin Others /\ None \notin Others \cup {Machine} \cup Int

Idle == [at |-> "idle", attempt |-> 0, calls |-> 0, repairs |-> 0, rewrites |-> 0,
         builds |-> 0, candidate |-> None, checked |-> {}, asking |-> FALSE]

Init ==
  /\ Job!Init
  /\ run = Idle
  /\ disk = [reading |-> [by |-> None, asks |-> FALSE], document |-> None,
             input |-> None, model |-> None, verified |-> FALSE]
  /\ renewal = "off"
  /\ round \in Rounds
  /\ sent = None
-----------------------------------------------------------------------------
(* The end of a run.                                                       *)

\* The machine still holds the job, so that the API listens to it.
Holds == stage = "held" /\ holder = Machine /\ ~quiet

\* Wrong on purpose: a run that ends leaves its lease task running.
OverStillRenewing == run' = Idle /\ UNCHANGED <<renewal, disk, round, sent>>

Over == run' = Idle /\ renewal' = "off" /\ UNCHANGED <<disk, round, sent>>

EndsTheJob(code) ==
  \/ code \in Repairable \cup Unchanging
  \/ run.attempt >= MaxAttempts

\* A report is a pause when the next attempt would be told the same thing.
Report(code) ==
  /\ Holds
  /\ IF code \in Unchanging THEN Job!Rest ELSE Job!GiveUp

\* The failure is reported if it ends the job.  A renewal that failed is thrown
\* by the finally block in its place; a report may be lost or refused.
Fail(code) ==
  /\ Over
  /\ \/ code # Untyped /\ renewal # "failed" /\ EndsTheJob(code) /\ Report(code)
     \/ UNCHANGED job
-----------------------------------------------------------------------------
(* The beginning of a run.                                                 *)

\* What an earlier run left is still there.
Aged(kept) == IF kept = None THEN None ELSE Earlier

Leftovers ==
  [disk EXCEPT !.reading.by = IF @ = None THEN None ELSE "earlier",
               !.document = Aged(@), !.input = Aged(@), !.model = Aged(@)]

\* A waiting job, or one whose holder fell silent.
Claim ==
  /\ run.at = "idle"
  /\ holder' = Machine
  /\ Job!Grant(Machine) \/ Job!EndSilence
  /\ run' = [Idle EXCEPT !.at = "preparing", !.attempt = silences' + 1]
  /\ disk' = Leftovers
  /\ UNCHANGED <<renewal, round, sent>>

\* Manifest and inputs are downloaded, and the lease task starts.
Prepare ==
  /\ run.at = "preparing"
  /\ \/ /\ Holds
        /\ run' = [run EXCEPT !.at = "reading"]
        /\ renewal' = "on"
        /\ UNCHANGED <<job, disk, round, sent>>
     \/ \E code \in {"INPUT_INTEGRITY_FAILED", Untyped} : Fail(code)

\* Wrong on purpose: what an operator wrote is not looked at.
ReusesDespiteNote == round.answers /\ round.carried = "settled"

\* The reading that asked the questions is good for the answers, unless it left
\* the shape open or an operator said that it was wrong.
Reuses == round.answers /\ round.carried = "settled" /\ ~round.note
-----------------------------------------------------------------------------
(* Calls to the model.                                                     *)

\* Wrong on purpose: repairs are not counted apart from other calls.
WithinTotal(repair) == run.calls < MaxRunsPerOrder

WithinBudget(repair) ==
  /\ run.calls < MaxRunsPerOrder
  /\ repair => run.repairs < MaxRepairRuns

Charged(repair) ==
  [run EXCEPT !.calls = @ + 1, !.repairs = IF repair THEN @ + 1 ELSE @]

CallFails(repair) ==
  IF WithinBudget(repair)
  THEN \E code \in CodexFailures : Fail(code)
  ELSE Fail("CODEX_BUDGET_EXHAUSTED")

ReadDrawing ==
  /\ run.at = "reading"
  /\ \/ /\ Reuses
        /\ disk' = [disk EXCEPT !.reading = [by |-> "carried", asks |-> TRUE]]
        /\ run' = [run EXCEPT !.at = "compiling"]
        /\ UNCHANGED <<job, renewal, round, sent>>
     \/ /\ ~Reuses /\ WithinBudget(FALSE)
        /\ \E asks \in BOOLEAN :
             disk' = [disk EXCEPT !.reading = [by |-> "reader", asks |-> asks]]
        /\ run' = [Charged(FALSE) EXCEPT !.at = "compiling"]
        /\ UNCHANGED <<job, renewal, round, sent>>
     \/ ~Reuses /\ CallFails(FALSE)

\* CompileAsync up to its loop: ask, or write a document.
CompileDocument ==
  /\ run.at = "compiling"
  /\ IF disk.reading.asks /\ ~round.answers
     THEN /\ run' = [run EXCEPT !.at = "uploading", !.asking = TRUE]
          /\ UNCHANGED <<job, disk, renewal, round, sent>>
     ELSE \/ /\ WithinBudget(FALSE)
             /\ disk' = [disk EXCEPT !.document = 0]
             /\ run' = [Charged(FALSE) EXCEPT !.at = "checking", !.candidate = 0]
             /\ UNCHANGED <<job, renewal, round, sent>>
          \/ CallFails(FALSE)

\* A rewrite of the candidate: its own file, and not the published document.
Rewrite(from, to) ==
  /\ run.at = from
  /\ \/ /\ WithinBudget(TRUE)
        /\ run' = [Charged(TRUE) EXCEPT !.at = to, !.candidate = @ + 1]
        /\ UNCHANGED <<job, disk, renewal, round, sent>>
     \/ CallFails(TRUE)

RepairDocument == Rewrite("repairing", "checking")

\* Wrong on purpose: a rewrite after a build goes straight back to the engine.
RepairBuildUnchecked == Rewrite("repairing_build", "building")

RepairAfterBuild == Rewrite("repairing_build", "rechecking")
-----------------------------------------------------------------------------
(* The engine.                                                             *)

Accepted == [run EXCEPT !.at = "building", !.checked = @ \cup {run.candidate}]

\* The candidate is checked; an accepted one is published.
CheckDocument ==
  /\ run.at = "checking"
  /\ \/ /\ run' = Accepted
        /\ disk' = [disk EXCEPT !.document = run.candidate]
        /\ UNCHANGED <<job, renewal, round, sent>>
     \/ /\ run.rewrites < MaxCompileRepairs
        /\ run' = [run EXCEPT !.at = "repairing", !.rewrites = @ + 1]
        /\ UNCHANGED <<job, disk, renewal, round, sent>>
     \/ run.rewrites >= MaxCompileRepairs /\ Fail("CAD_IR_INVALID")
     \/ \E code \in {"ENGINE_UNAVAILABLE", Untyped} : Fail(code)

\* The same check of a rewrite after a build; here a refusal is final.
CheckRewrite ==
  /\ run.at = "rechecking"
  /\ \/ /\ run' = Accepted
        /\ UNCHANGED <<job, disk, renewal, round, sent>>
     \/ \E code \in {"CAD_IR_INVALID", "ENGINE_UNAVAILABLE", Untyped} : Fail(code)

\* A build that succeeds has measured the files it wrote.
BuildSucceeds ==
  /\ run.at = "building"
  /\ disk' = [disk EXCEPT !.input = run.candidate, !.model = run.candidate,
                          !.verified = TRUE]
  /\ run' = [run EXCEPT !.at = "uploading"]
  /\ UNCHANGED <<job, renewal, round, sent>>

\* A build that fails may have written its files before it measured them.  A
\* failure about the document goes back to the model a few times.
BuildFails ==
  /\ run.at = "building"
  /\ run.builds < MaxBuildRepairs
  /\ run' = [run EXCEPT !.at = "repairing_build", !.builds = @ + 1]
  /\ \E wrote \in BOOLEAN :
       disk' = IF wrote THEN [disk EXCEPT !.input = run.candidate, !.verified = FALSE,
                                          !.model = run.candidate]
               ELSE [disk EXCEPT !.input = run.candidate]
  /\ UNCHANGED <<job, renewal, round, sent>>

BuildEndsTheRun ==
  /\ run.at = "building"
  /\ \/ run.builds >= MaxBuildRepairs /\ Fail("CAD_IR_INVALID")
     \/ \E code \in {"ENGINE_UNAVAILABLE", Untyped} : Fail(code)
-----------------------------------------------------------------------------
(* Delivery.                                                               *)

\* Every file there is goes up, whoever wrote it; the questions among them say what
\* the reading asks (disk.reading.asks).  An answer without its metadata is a typed
\* failure, a refusal or a broken connection is not.
Upload ==
  /\ run.at = "uploading"
  /\ \/ /\ Holds
        /\ run' = [run EXCEPT !.at = "completing"]
        /\ UNCHANGED <<job, disk, renewal, round, sent>>
     \/ \E code \in {"ARTIFACT_UPLOAD_FAILED", Untyped} : Fail(code)

\* The lease task stops, and what it threw no longer matters.
Complete ==
  /\ run.at = "completing"
  /\ \/ /\ Holds /\ Job!Deliver
        /\ sent' = [asking |-> run.asking, reading |-> disk.reading.by,
                    document |-> disk.document,
                    model |-> disk.model, verified |-> disk.verified,
                    checked |-> run.checked]
        /\ run' = Idle /\ renewal' = "off"
        /\ UNCHANGED <<disk, round>>
     \/ Fail(Untyped)

\* A renewal is refused, lost or timed out: the task stops, and the run goes on.  A
\* time-out passes for a cancellation when the task is awaited, and is not thrown.
RenewalFails ==
  /\ renewal = "on"
  /\ renewal' \in {"failed", "off"}
  /\ UNCHANGED <<job, run, disk, round, sent>>

\* The process dies; the directory stays.
Crash ==
  /\ run.at # "idle"
  /\ Over
  /\ UNCHANGED job
-----------------------------------------------------------------------------
(* The rest of the world.                                                  *)

Elsewhere == UNCHANGED <<run, disk, renewal, round, sent>>

\* A holder falls silent: this machine may be suspended at any time.
FallSilent == Job!FallSilent /\ Elsewhere

\* A claim or a sweep ends a silent hold, for anybody but this machine.  The
\* sweep fails a job in the step that spends its last attempt.
EndSilence ==
  /\ Job!EndSilence
  /\ holder' # Machine
  /\ stage' = "waiting" => silences' < MaxAttempts
  /\ Elsewhere

Wake == Job!Wake /\ Elsewhere

AnotherMachine ==
  /\ \/ \E w \in Others : Job!Grant(w)
     \/ holder \in Others /\ (Job!Rest \/ Job!GiveUp \/ Job!Deliver)
  /\ Elsewhere

Submit == Job!Submit /\ Elsewhere

RunStep ==
  \/ Prepare
  \/ ReadDrawing
  \/ CompileDocument
  \/ CheckDocument
  \/ RepairDocument
  \/ BuildSucceeds
  \/ BuildFails
  \/ BuildEndsTheRun
  \/ RepairAfterBuild
  \/ CheckRewrite
  \/ Upload
  \/ Complete

Next ==
  \/ Submit
  \/ Claim
  \/ RunStep
  \/ RenewalFails
  \/ Crash
  \/ FallSilent
  \/ EndSilence
  \/ Wake
  \/ AnotherMachine

\* This machine has the job and is not renewing the lease.
Unrenewed == holder = Machine /\ renewal # "on"

\* Every call of a run returns or times out, the machine polls while it is
\* idle, a lease nobody renews lapses, and the API's sweep runs.
Fairness ==
  /\ WF_vars(RunStep)
  /\ WF_vars(Claim)
  /\ WF_vars(FallSilent /\ Unrenewed)
  /\ WF_vars(EndSilence)
  /\ WF_vars(Wake)

Spec == Init /\ [][Next]_vars
FairSpec == Spec /\ Fairness
-----------------------------------------------------------------------------
(* Properties.                                                             *)

TypeOK ==
  /\ stage \in Job!Stages /\ holder \in Others \cup {Machine, None}
  /\ quiet \in BOOLEAN /\ silences \in 0 .. MaxAttempts
  /\ delivered \in Seq(Others \cup {Machine})
  /\ run \in [at : Places, attempt : 0 .. MaxAttempts, calls : 0 .. MaxRunsPerOrder,
              repairs : 0 .. MaxRepairRuns, rewrites : 0 .. MaxCompileRepairs,
              builds : 0 .. MaxBuildRepairs, candidate : Documents \cup {None},
              checked : SUBSET Documents, asking : BOOLEAN]
  /\ disk \in [reading : [by : Readings, asks : BOOLEAN],
               document : Kept, input : Kept, model : Kept, verified : BOOLEAN]
  /\ renewal \in {"off", "on", "failed"}
  /\ round \in Rounds
  /\ sent # None => sent \in [asking : BOOLEAN, reading : Readings,
                              document : Kept, model : Kept,
                              verified : BOOLEAN, checked : SUBSET Documents]

\* A model that is delivered as one was measured after it was built, by the
\* run that delivers it, from a document the gate accepted in that run: no
\* repair reaches the kernel unchecked, and no file of an earlier run passes for
\* the result of this one (DrawingPipeline.RepairAfterBuildAsync: "Checked before
\* it is allowed near the kernel again").
DeliveredModelWasEarned ==
  sent # None /\ ~sent.asking => sent.verified /\ sent.model \in sent.checked

\* However a run fails and repairs, it calls the model a bounded number of
\* times: once to read, once to compile, and MaxRepairRuns times over both
\* repair loops together.
CallsAreBounded == run.calls <= 2 + MaxRepairRuns

\* What is delivered answers what came with the drawing.  A round with answers
\* asks nothing; a reading that left the shape open, or that an operator found
\* wrong, is not delivered again (DrawingPipeline.RunAsync: "the operator would
\* have pressed a button that changed nothing"), nor is one of an earlier run.
RoundIsHeeded ==
  sent # None =>
    /\ sent.asking => ~round.answers
    /\ sent.reading \in {"reader", "carried"}
    /\ round.note \/ round.carried # "settled" => sent.reading = "reader"

\* This machine holds no job for ever: the run ends, and with it the renewals,
\* whatever failed and whether or not anybody could be told.
HeldHere == stage = "held" /\ holder = Machine
HoldsEnd == HeldHere ~> ~HeldHere

\* A delivery that asks the customer something carries no model (complete_job:
\* "A drawing job either produced the model or stopped to ask something").
AskingDeliversNoModel == sent # None /\ sent.asking => sent.model = None

\* The document delivered is the one the model was built from (WorkerEngine.cs:
\* "the CAD-IR is the document the engine was given").
DocumentIsTheModels ==
  sent # None /\ ~sent.asking => sent.document = sent.model

\* While the Codex CLI answers, a job that waits ends.
WaitingJobsEnd == (stage = "waiting") ~> (stage \in {"done", "dead"})
=============================================================================
