------------------------- MODULE DrawingRunProofs -------------------------
(***************************************************************************)
(* Theorems about DrawingRun, for any bounds on attempts, calls and        *)
(* repairs, any codes, rounds and machines.  The invariant IInv has a part *)
(* about the job and a part about the run and what it wrote; neither needs *)
(* the other, because what a run has earned it has earned whether or not   *)
(* it still holds the job.  A second invariant, Published, says what is    *)
(* delivered beside the model.                                             *)
(***************************************************************************)
EXTENDS DrawingRun, TLAPS

Runs == [at : Places, attempt : 0 .. MaxAttempts, calls : 0 .. MaxRunsPerOrder,
         repairs : 0 .. MaxRepairRuns, rewrites : 0 .. MaxCompileRepairs,
         builds : 0 .. MaxBuildRepairs, candidate : Documents \cup {None},
         checked : SUBSET Documents, asking : BOOLEAN]

Disks == [reading : [by : Readings, asks : BOOLEAN],
          document : Kept, input : Kept, model : Kept, verified : BOOLEAN]

Deliveries == [asking : BOOLEAN, reading : Readings, document : Kept, model : Kept,
               verified : BOOLEAN, checked : SUBSET Documents]

\* The part of TypeOK about the job.
JobTyped ==
  /\ stage \in Job!Stages /\ holder \in Others \cup {Machine, None}
  /\ quiet \in BOOLEAN /\ silences \in 0 .. MaxAttempts
  /\ delivered \in Seq(Others \cup {Machine})

\* The part of TypeOK about the run.
RunTyped ==
  /\ run \in Runs
  /\ disk \in Disks
  /\ renewal \in {"off", "on", "failed"}
  /\ round \in Rounds
  /\ sent # None => sent \in Deliveries

\* Calls by place: none before the reading, one at most before the document.
Counted ==
  /\ run.at \in {"idle", "preparing", "reading"} => run.calls = 0
  /\ run.at = "compiling" => run.calls <= 1
  /\ run.at \in {"idle", "preparing", "reading", "compiling"} =>
       run.repairs = 0 /\ run.rewrites = 0 /\ run.builds = 0
  /\ run.calls <= 2 + run.repairs

\* The candidate is numbered by the repairs begun in both loops.
Numbered ==
  /\ run.at \in {"checking", "building", "rechecking"} =>
       run.candidate \in Nat /\ run.candidate = run.rewrites + run.builds
  /\ run.at \in {"repairing", "repairing_build"} =>
       run.candidate \in Nat /\ run.candidate + 1 = run.rewrites + run.builds

\* What is built was accepted, and what goes up was built and measured.
Earned ==
  /\ run.at = "building" => run.candidate \in run.checked
  /\ run.at \in {"uploading", "completing"} /\ ~run.asking =>
       disk.verified /\ disk.model \in run.checked

\* From the reading on, the reading is one this round may use.
Heeded ==
  /\ run.at \notin {"idle", "preparing", "reading"} =>
       /\ disk.reading.by \in {"reader", "carried"}
       /\ round.note \/ round.carried # "settled" => disk.reading.by = "reader"
  /\ run.asking => ~round.answers

RunInv == RunTyped /\ Counted /\ Numbered /\ Earned /\ Heeded
          /\ DeliveredModelWasEarned /\ RoundIsHeeded

IInv == JobTyped /\ RunInv
-----------------------------------------------------------------------------
(* The job.                                                                *)

\* What the proofs use of RunAssumption.
LEMMA Bounds ==
  /\ MaxAttempts \in Nat \ {0} /\ MaxRunsPerOrder \in Nat /\ MaxRepairRuns \in Nat
  /\ MaxCompileRepairs \in Nat /\ MaxBuildRepairs \in Nat
  /\ None \notin Others /\ None # Machine /\ None \notin Int
BY RunAssumption

LEMMA InitTyped == Init => JobTyped
<1> SUFFICES ASSUME Init PROVE JobTyped
  OBVIOUS
<1>1. delivered \in Seq(Others \cup {Machine})
  <2>1. delivered = << >>
    BY DEF Init, Job!Init
  <2> QED
    BY <2>1
<1>2. stage = "absent" /\ holder = None /\ quiet = FALSE /\ silences = 0
  BY DEF Init, Job!Init
<1>3. quiet \in BOOLEAN
  BY <1>2
<1>4. silences \in 0 .. MaxAttempts
  BY <1>2, Bounds
<1> QED
  BY <1>1, <1>2, <1>3, <1>4 DEF JobTyped, Job!Stages

\* What the holder or the API does to a job keeps it typed.
LEMMA JobMovesTyped ==
  ASSUME JobTyped,
         \/ Job!Submit \/ Job!FallSilent \/ Job!Rest \/ Job!Wake \/ Job!GiveUp
         \/ UNCHANGED job
  PROVE  JobTyped'
BY DEF JobTyped, Job!Stages, Job!Submit, Job!FallSilent, Job!Rest, Job!Wake,
       Job!GiveUp, job

\* A claim finds an attempt left, and counts it.
LEMMA ClaimTyped ==
  ASSUME JobTyped, Claim
  PROVE  JobTyped' /\ silences' + 1 \in 0 .. MaxAttempts
<1>1. CASE Job!Grant(Machine)
  BY <1>1, Bounds DEF JobTyped, Job!Stages, Job!Grant
<1>2. CASE Job!EndSilence
  <2>1. stage' = "held" /\ silences' = silences + 1 /\ silences' < MaxAttempts
    BY <1>2, Bounds DEF Claim, Job!EndSilence
  <2>2. holder' = Machine /\ quiet' = FALSE /\ delivered' = delivered
    BY <1>2 DEF Claim, Job!EndSilence
  <2>3. silences' \in 0 .. MaxAttempts /\ silences' + 1 \in 0 .. MaxAttempts
    BY <2>1, Bounds DEF JobTyped
  <2>4. quiet' \in BOOLEAN
    BY <2>2
  <2> QED
    BY <2>1, <2>2, <2>3, <2>4 DEF JobTyped, Job!Stages
<1> QED
  BY <1>1, <1>2 DEF Claim

LEMMA DeliverTyped ==
  ASSUME JobTyped, Job!Deliver, holder \in Others \cup {Machine}
  PROVE  JobTyped'
<1>1. delivered' \in Seq(Others \cup {Machine})
  BY DEF JobTyped, Job!Deliver
<1> QED
  BY <1>1 DEF JobTyped, Job!Stages, Job!Deliver

\* A failure is reported or it is not.
LEMMA FailTyped ==
  ASSUME JobTyped, NEW code, Fail(code)
  PROVE  JobTyped'
BY JobMovesTyped DEF Fail, Report
-----------------------------------------------------------------------------
(* The run.                                                                *)

LEMMA InitRun == Init => RunInv
BY Bounds
   DEF Init, RunInv, RunTyped, Runs, Disks, Readings, Kept, Places, Idle, Counted,
       Numbered, Earned, Heeded, DeliveredModelWasEarned, RoundIsHeeded

\* However a run ends, nothing of it is left but what it wrote and sent.
LEMMA OverKeeps ==
  ASSUME RunInv, Over
  PROVE  RunInv'
BY Bounds
   DEF Over, RunInv, RunTyped, Runs, Places, Idle, Counted, Numbered, Earned,
       Heeded, DeliveredModelWasEarned, RoundIsHeeded

LEMMA FailKeeps ==
  ASSUME RunInv, NEW code, Fail(code)
  PROVE  RunInv'
BY OverKeeps DEF Fail

\* What was sent stays sent, and stays right.
LEMMA SentKeeps ==
  ASSUME RunInv, UNCHANGED <<round, sent>>
  PROVE  /\ DeliveredModelWasEarned' /\ RoundIsHeeded'
         /\ round' \in Rounds /\ (sent' # None => sent' \in Deliveries)
BY DEF RunInv, RunTyped, DeliveredModelWasEarned, RoundIsHeeded

\* A step of the run that sends nothing.
LEMMA StepKeeps ==
  ASSUME RunInv, UNCHANGED <<round, sent>>,
         run' \in Runs, disk' \in Disks, renewal' \in {"off", "on", "failed"},
         Counted', Numbered', Earned', Heeded'
  PROVE  RunInv'
BY SentKeeps DEF RunInv, RunTyped

LEMMA ElsewhereKeeps ==
  ASSUME RunInv, Elsewhere
  PROVE  RunInv'
BY DEF Elsewhere, RunInv, RunTyped, Counted, Numbered, Earned, Heeded,
       DeliveredModelWasEarned, RoundIsHeeded

LEMMA ClaimKeeps ==
  ASSUME JobTyped, RunInv, Claim
  PROVE  RunInv'
<1>1. run' = [Idle EXCEPT !.at = "preparing", !.attempt = silences' + 1]
  BY DEF Claim
<1>2. run' \in Runs
  <2>1. Idle \in Runs
    BY Bounds DEF Idle, Runs, Places
  <2>2. silences' + 1 \in 0 .. MaxAttempts
    BY ClaimTyped
  <2> QED
    BY <1>1, <2>1, <2>2 DEF Runs, Places
<1>3. disk' \in Disks
  <2>1. disk \in Disks
    BY DEF RunInv, RunTyped
  <2>2. disk' = [disk EXCEPT !.reading.by = IF @ = None THEN None ELSE "earlier",
                             !.document = Aged(@), !.input = Aged(@), !.model = Aged(@)]
    BY DEF Claim, Leftovers
  <2> QED
    BY <2>1, <2>2, ZenonT(60) DEF Disks, Aged, Kept, Readings
<1>4. Counted' /\ Numbered' /\ Earned' /\ Heeded'
  BY <1>1, Bounds DEF Counted, Numbered, Earned, Heeded, Idle
<1> QED
  BY <1>2, <1>3, <1>4, StepKeeps DEF Claim, RunInv, RunTyped

LEMMA PrepareKeeps ==
  ASSUME RunInv, Prepare
  PROVE  RunInv'
<1>1. CASE \E code \in {"INPUT_INTEGRITY_FAILED", Untyped} : Fail(code)
  BY <1>1, FailKeeps
<1>2. CASE /\ run' = [run EXCEPT !.at = "reading"]
           /\ UNCHANGED <<disk, round, sent>> /\ renewal' = "on"
  <2>1. run.at = "preparing" /\ run \in Runs
    BY DEF Prepare, RunInv, RunTyped
  <2>2. run' \in Runs
    BY <1>2, <2>1 DEF Runs, Places
  <2>3. Counted' /\ Numbered' /\ Earned' /\ Heeded'
    BY <1>2, <2>1 DEF Runs, RunInv, Counted, Numbered, Earned, Heeded
  <2> QED
    BY <1>2, <2>2, <2>3, StepKeeps DEF RunInv, RunTyped
<1> QED
  BY <1>1, <1>2 DEF Prepare

\* A call that is charged stays within both bounds.
LEMMA CallCharged ==
  ASSUME run \in Runs, WithinBudget(FALSE)
  PROVE  Charged(FALSE) = [run EXCEPT !.calls = @ + 1] /\ Charged(FALSE) \in Runs
<1>1. Charged(FALSE) = [run EXCEPT !.calls = run.calls + 1, !.repairs = run.repairs]
  BY DEF Charged
<1>2. run.calls + 1 \in 0 .. MaxRunsPerOrder
  BY Bounds DEF Runs, WithinBudget
<1> QED
  BY <1>1, <1>2 DEF Runs

LEMMA RepairCharged ==
  ASSUME run \in Runs, WithinBudget(TRUE)
  PROVE  /\ Charged(TRUE) = [run EXCEPT !.calls = @ + 1, !.repairs = @ + 1]
         /\ Charged(TRUE) \in Runs
<1>1. Charged(TRUE) = [run EXCEPT !.calls = run.calls + 1, !.repairs = run.repairs + 1]
  BY DEF Charged
<1>2. run.calls + 1 \in 0 .. MaxRunsPerOrder /\ run.repairs + 1 \in 0 .. MaxRepairRuns
  BY Bounds DEF Runs, WithinBudget
<1> QED
  BY <1>1, <1>2 DEF Runs

LEMMA CallFailsKeeps ==
  ASSUME RunInv, NEW repair, CallFails(repair)
  PROVE  RunInv'
BY FailKeeps DEF CallFails

LEMMA ReadKeeps ==
  ASSUME RunInv, ReadDrawing
  PROVE  RunInv'
<1>1. run.at = "reading" /\ run \in Runs /\ disk \in Disks
  BY DEF ReadDrawing, RunInv, RunTyped
<1>2. CASE /\ Reuses
           /\ disk' = [disk EXCEPT !.reading = [by |-> "carried", asks |-> TRUE]]
           /\ run' = [run EXCEPT !.at = "compiling"]
           /\ UNCHANGED <<renewal, round, sent>>
  <2>1. run' \in Runs /\ disk' \in Disks
    BY <1>1, <1>2 DEF Runs, Places, Disks, Readings
  <2>2. Counted' /\ Numbered' /\ Earned'
    BY <1>1, <1>2 DEF Runs, RunInv, Counted, Numbered, Earned
  <2>3. Heeded'
    BY <1>1, <1>2 DEF Runs, Disks, RunInv, Heeded, Reuses
  <2> QED
    BY <1>2, <2>1, <2>2, <2>3, StepKeeps DEF RunInv, RunTyped
<1>3. CASE /\ WithinBudget(FALSE)
           /\ \E asks \in BOOLEAN :
                disk' = [disk EXCEPT !.reading = [by |-> "reader", asks |-> asks]]
           /\ run' = [Charged(FALSE) EXCEPT !.at = "compiling"]
           /\ UNCHANGED <<renewal, round, sent>>
  <2>1. PICK charged \in Runs : /\ charged = [run EXCEPT !.calls = @ + 1]
                                /\ run' = [charged EXCEPT !.at = "compiling"]
    BY <1>1, <1>3, CallCharged
  <2>2. run' \in Runs
    BY <2>1 DEF Runs, Places
  <2>3. run'.at = "compiling" /\ run'.calls = run.calls + 1 /\ run'.repairs = run.repairs
        /\ run'.rewrites = run.rewrites /\ run'.builds = run.builds
        /\ run'.asking = run.asking
    BY <1>1, <2>1 DEF Runs
  <2>4. PICK asks \in BOOLEAN :
          disk' = [disk EXCEPT !.reading = [by |-> "reader", asks |-> asks]]
    BY <1>3
  <2>5. disk' \in Disks /\ disk'.reading.by = "reader"
    BY <1>1, <2>4 DEF Disks, Readings
  <2>6. Counted' /\ Numbered' /\ Earned'
    BY <1>1, <2>3 DEF Runs, RunInv, Counted, Numbered, Earned
  <2>7. Heeded'
    BY <1>1, <1>3, <2>3, <2>5 DEF RunInv, Heeded
  <2> QED
    BY <1>3, <2>2, <2>5, <2>6, <2>7, StepKeeps DEF RunInv, RunTyped
<1> QED
  BY <1>2, <1>3, CallFailsKeeps DEF ReadDrawing

LEMMA CompileKeeps ==
  ASSUME RunInv, CompileDocument
  PROVE  RunInv'
<1>1. run.at = "compiling" /\ run \in Runs /\ disk \in Disks
  BY DEF CompileDocument, RunInv, RunTyped
<1>2. CASE /\ ~round.answers
           /\ run' = [run EXCEPT !.at = "uploading", !.asking = TRUE]
           /\ UNCHANGED <<disk, renewal, round, sent>>
  <2>1. run' \in Runs
    BY <1>1, <1>2 DEF Runs, Places
  <2>2. Counted' /\ Numbered' /\ Earned' /\ Heeded'
    BY <1>1, <1>2 DEF Runs, RunInv, Counted, Numbered, Earned, Heeded
  <2> QED
    BY <1>1, <1>2, <2>1, <2>2, StepKeeps DEF RunInv, RunTyped
<1>3. CASE /\ WithinBudget(FALSE)
           /\ disk' = [disk EXCEPT !.document = 0]
           /\ run' = [Charged(FALSE) EXCEPT !.at = "checking", !.candidate = 0]
           /\ UNCHANGED <<renewal, round, sent>>
  <2>1. PICK charged \in Runs :
          /\ charged = [run EXCEPT !.calls = @ + 1]
          /\ run' = [charged EXCEPT !.at = "checking", !.candidate = 0]
    BY <1>1, <1>3, CallCharged
  <2>2. 0 \in Documents
    BY Bounds DEF Documents
  <2>3. run' \in Runs
    BY <2>1, <2>2 DEF Runs, Places
  <2>4. run'.at = "checking" /\ run'.calls = run.calls + 1 /\ run'.candidate = 0
        /\ run'.repairs = run.repairs /\ run'.rewrites = run.rewrites
        /\ run'.builds = run.builds /\ run'.asking = run.asking
    BY <1>1, <2>1 DEF Runs
  <2>5. disk' \in Disks /\ disk'.reading = disk.reading
    BY <1>1, <1>3, <2>2 DEF Disks, Kept
  <2>6. Counted' /\ Numbered' /\ Earned'
    BY <1>1, <2>4 DEF Runs, RunInv, Counted, Numbered, Earned
  <2>7. Heeded'
    BY <1>1, <1>3, <2>4, <2>5 DEF RunInv, Heeded
  <2> QED
    BY <1>3, <2>3, <2>5, <2>6, <2>7, StepKeeps DEF RunInv, RunTyped
<1> QED
  BY <1>2, <1>3, CallFailsKeeps DEF CompileDocument

\* A rewrite begun in either loop has a number of its own left.
LEMMA NextDocument ==
  ASSUME RunInv, run.at \in {"repairing", "repairing_build"}
  PROVE  run.candidate + 1 \in Documents /\ run.candidate \in Nat
         /\ run.candidate + 1 = run.rewrites + run.builds
<1>1. run.rewrites \in 0 .. MaxCompileRepairs /\ run.builds \in 0 .. MaxBuildRepairs
  BY DEF RunInv, RunTyped, Runs
<1> QED
  BY <1>1, Bounds DEF RunInv, Numbered, Documents

LEMMA RewriteKeeps ==
  ASSUME RunInv, NEW from \in {"repairing", "repairing_build"},
         NEW to \in {"checking", "rechecking"}, Rewrite(from, to)
  PROVE  RunInv'
<1>1. run.at = from /\ run \in Runs /\ disk \in Disks
  BY DEF Rewrite, RunInv, RunTyped
<1>2. CASE /\ WithinBudget(TRUE)
           /\ run' = [Charged(TRUE) EXCEPT !.at = to, !.candidate = @ + 1]
           /\ UNCHANGED <<disk, renewal, round, sent>>
  <2>1. PICK charged \in Runs :
          /\ charged = [run EXCEPT !.calls = @ + 1, !.repairs = @ + 1]
          /\ run' = [charged EXCEPT !.at = to, !.candidate = @ + 1]
    BY <1>1, <1>2, RepairCharged
  <2>2. charged.candidate + 1 \in Documents
    BY <1>1, <2>1, NextDocument DEF Runs
  <2>3. run' \in Runs
    BY <2>1, <2>2 DEF Runs, Places
  <2>4. run'.at = to /\ run'.calls = run.calls + 1 /\ run'.repairs = run.repairs + 1
        /\ run'.candidate = run.candidate + 1 /\ run'.rewrites = run.rewrites
        /\ run'.builds = run.builds /\ run'.asking = run.asking
    BY <1>1, <2>1 DEF Runs
  <2>5. Counted' /\ Numbered'
    BY <1>1, <2>4, NextDocument DEF Runs, RunInv, Counted, Numbered
  <2>6. Earned' /\ Heeded'
    BY <1>1, <1>2, <2>4 DEF RunInv, Earned, Heeded
  <2> QED
    BY <1>1, <1>2, <2>3, <2>5, <2>6, StepKeeps DEF RunInv, RunTyped
<1> QED
  BY <1>2, CallFailsKeeps DEF Rewrite

\* A candidate the gate accepts is in the range of documents.
LEMMA AcceptedTyped ==
  ASSUME RunInv, run.at \in {"checking", "rechecking"}
  PROVE  /\ Accepted \in Runs /\ run.candidate \in Documents
         /\ Accepted = [run EXCEPT !.at = "building",
                                   !.checked = run.checked \cup {run.candidate}]
<1>1. run \in Runs
  BY DEF RunInv, RunTyped
<1>2. run.candidate \in Documents
  BY <1>1, Bounds DEF RunInv, Numbered, Runs
<1> QED
  BY <1>1, <1>2 DEF Accepted, Runs, Places

\* Either check, when it accepts: only the published document may differ.
LEMMA AcceptKeeps ==
  ASSUME RunInv, run.at \in {"checking", "rechecking"}, run' = Accepted,
         UNCHANGED <<renewal, round, sent>>, disk' \in Disks,
         disk'.reading = disk.reading
  PROVE  RunInv'
<1>1. run \in Runs /\ run' \in Runs
  BY AcceptedTyped DEF RunInv, RunTyped
<1>2. run'.at = "building" /\ run'.checked = run.checked \cup {run.candidate}
      /\ run'.calls = run.calls /\ run'.repairs = run.repairs
      /\ run'.rewrites = run.rewrites /\ run'.builds = run.builds
      /\ run'.candidate = run.candidate /\ run'.asking = run.asking
  BY <1>1, AcceptedTyped DEF Runs
<1>3. Counted' /\ Numbered' /\ Earned'
  BY <1>2 DEF RunInv, Counted, Numbered, Earned
<1>4. Heeded'
  BY <1>2 DEF RunInv, Heeded
<1> QED
  BY <1>1, <1>3, <1>4, StepKeeps DEF RunInv, RunTyped

LEMMA CheckKeeps ==
  ASSUME RunInv, CheckDocument
  PROVE  RunInv'
<1>1. run.at = "checking" /\ run \in Runs /\ disk \in Disks
  BY DEF CheckDocument, RunInv, RunTyped
<1>2. CASE /\ run' = Accepted /\ disk' = [disk EXCEPT !.document = run.candidate]
           /\ UNCHANGED <<renewal, round, sent>>
  <2>1. disk' \in Disks /\ disk'.reading = disk.reading
    BY <1>1, <1>2, AcceptedTyped DEF Disks, Kept
  <2> QED
    BY <1>1, <1>2, <2>1, AcceptKeeps
<1>3. CASE /\ run.rewrites < MaxCompileRepairs
           /\ run' = [run EXCEPT !.at = "repairing", !.rewrites = @ + 1]
           /\ UNCHANGED <<disk, renewal, round, sent>>
  <2>1. run.rewrites + 1 \in 0 .. MaxCompileRepairs
    BY <1>1, <1>3, Bounds DEF Runs
  <2>2. run' \in Runs
    BY <1>1, <1>3, <2>1 DEF Runs, Places
  <2>3. run'.at = "repairing" /\ run'.rewrites = run.rewrites + 1
        /\ run'.calls = run.calls /\ run'.repairs = run.repairs
        /\ run'.builds = run.builds /\ run'.candidate = run.candidate
        /\ run'.asking = run.asking
    BY <1>1, <1>3 DEF Runs
  <2>4. Counted' /\ Numbered'
    BY <1>1, <2>3 DEF Runs, RunInv, Counted, Numbered
  <2>5. Earned' /\ Heeded'
    BY <1>1, <1>3, <2>3 DEF RunInv, Earned, Heeded
  <2> QED
    BY <1>1, <1>3, <2>2, <2>4, <2>5, StepKeeps DEF RunInv, RunTyped
<1> QED
  BY <1>2, <1>3, FailKeeps DEF CheckDocument

LEMMA CheckRewriteKeeps ==
  ASSUME RunInv, CheckRewrite
  PROVE  RunInv'
<1>1. CASE run' = Accepted /\ UNCHANGED <<disk, renewal, round, sent>>
  BY <1>1, AcceptKeeps DEF CheckRewrite, RunInv, RunTyped
<1> QED
  BY <1>1, FailKeeps DEF CheckRewrite

LEMMA BuildSucceedsKeeps ==
  ASSUME RunInv, BuildSucceeds
  PROVE  RunInv'
<1>1. run.at = "building" /\ run \in Runs /\ disk \in Disks
      /\ run.candidate \in run.checked /\ run.candidate \in Kept
  BY DEF BuildSucceeds, RunInv, RunTyped, Earned, Runs, Kept
<1>2. disk' \in Disks /\ disk'.reading = disk.reading /\ disk'.verified = TRUE
      /\ disk'.model = run.candidate
  BY <1>1 DEF BuildSucceeds, Disks
<1>3. run' \in Runs
  BY <1>1 DEF BuildSucceeds, Runs, Places
<1>4. run'.at = "uploading" /\ run'.checked = run.checked
      /\ run'.calls = run.calls /\ run'.repairs = run.repairs /\ run'.asking = run.asking
  BY <1>1 DEF BuildSucceeds, Runs
<1>5. Counted' /\ Numbered'
  BY <1>1, <1>4 DEF RunInv, Counted, Numbered
<1>6. Earned'
  BY <1>1, <1>2, <1>4 DEF Earned
<1>7. Heeded'
  BY <1>1, <1>2, <1>4 DEF RunInv, Heeded, BuildSucceeds
<1> QED
  BY <1>2, <1>3, <1>5, <1>6, <1>7, StepKeeps DEF BuildSucceeds, RunInv, RunTyped

LEMMA BuildFailsKeeps ==
  ASSUME RunInv, BuildFails
  PROVE  RunInv'
<1>1. run.at = "building" /\ run \in Runs /\ disk \in Disks /\ run.candidate \in Kept
  BY DEF BuildFails, RunInv, RunTyped, Runs, Kept
<1>2. disk' \in Disks /\ disk'.reading = disk.reading
  BY <1>1 DEF BuildFails, Disks
<1>3. run.builds + 1 \in 0 .. MaxBuildRepairs
  BY <1>1, Bounds DEF BuildFails, Runs
<1>4. run' \in Runs
  BY <1>1, <1>3 DEF BuildFails, Runs, Places
<1>5. run'.at = "repairing_build" /\ run'.builds = run.builds + 1
      /\ run'.rewrites = run.rewrites /\ run'.candidate = run.candidate
      /\ run'.calls = run.calls /\ run'.repairs = run.repairs /\ run'.asking = run.asking
  BY <1>1 DEF BuildFails, Runs
<1>6. Counted' /\ Numbered'
  BY <1>1, <1>5 DEF Runs, RunInv, Counted, Numbered
<1>7. Earned' /\ Heeded'
  BY <1>1, <1>2, <1>5 DEF RunInv, Earned, Heeded, BuildFails
<1> QED
  BY <1>2, <1>4, <1>6, <1>7, StepKeeps DEF BuildFails, RunInv, RunTyped

LEMMA UploadKeeps ==
  ASSUME RunInv, Upload
  PROVE  RunInv'
<1>1. CASE /\ run' = [run EXCEPT !.at = "completing"]
           /\ UNCHANGED <<disk, renewal, round, sent>>
  <2>1. run.at = "uploading" /\ run \in Runs
    BY DEF Upload, RunInv, RunTyped
  <2>2. run' \in Runs
    BY <1>1, <2>1 DEF Runs, Places
  <2>3. run'.at = "completing" /\ run'.checked = run.checked
        /\ run'.calls = run.calls /\ run'.repairs = run.repairs
        /\ run'.asking = run.asking
    BY <1>1, <2>1 DEF Runs
  <2>4. Counted' /\ Numbered' /\ Earned' /\ Heeded'
    BY <1>1, <2>1, <2>3 DEF RunInv, Counted, Numbered, Earned, Heeded
  <2> QED
    BY <1>1, <2>2, <2>4, StepKeeps DEF RunInv, RunTyped
<1> QED
  BY <1>1, FailKeeps DEF Upload

\* The one step that sends: what it sends has been earned.
LEMMA CompleteKeeps ==
  ASSUME RunInv, Complete
  PROVE  RunInv'
<1>1. run.at = "completing" /\ run \in Runs /\ disk \in Disks
  BY DEF Complete, RunInv, RunTyped
<1>2. CASE /\ sent' = [asking |-> run.asking, reading |-> disk.reading.by,
                       document |-> disk.document, model |-> disk.model,
                       verified |-> disk.verified, checked |-> run.checked]
           /\ run' = Idle /\ renewal' = "off" /\ UNCHANGED <<disk, round>>
  <2>1. sent' \in Deliveries
    BY <1>1, <1>2 DEF Deliveries, Runs, Disks
  <2>2. DeliveredModelWasEarned'
    BY <1>1, <1>2 DEF RunInv, Earned, DeliveredModelWasEarned
  <2>3. RoundIsHeeded'
    BY <1>1, <1>2 DEF RunInv, Heeded, RoundIsHeeded
  <2>4. run' \in Runs /\ Counted' /\ Numbered' /\ Earned' /\ Heeded'
    BY <1>2, Bounds DEF Idle, Runs, Places, Counted, Numbered, Earned, Heeded
  <2> QED
    BY <1>2, <2>1, <2>2, <2>3, <2>4 DEF RunInv, RunTyped
<1> QED
  BY <1>2, FailKeeps DEF Complete

LEMMA RenewalKeeps ==
  ASSUME RunInv, RenewalFails
  PROVE  RunInv'
BY DEF RenewalFails, RunInv, RunTyped, Counted, Numbered, Earned, Heeded,
       DeliveredModelWasEarned, RoundIsHeeded
-----------------------------------------------------------------------------
(* The invariant.                                                          *)

LEMMA RunStepTyped ==
  ASSUME JobTyped, RunStep
  PROVE  JobTyped'
<1>1. CASE UNCHANGED job
  BY <1>1, JobMovesTyped
<1>2. ASSUME NEW code, Fail(code) PROVE JobTyped'
  BY <1>2, FailTyped
<1>3. CASE Complete
  <2>1. CASE Holds /\ Job!Deliver
    BY <2>1, DeliverTyped DEF Holds
  <2> QED
    BY <1>2, <1>3, <2>1 DEF Complete
<1>4. ASSUME NEW repair, CallFails(repair) PROVE JobTyped'
  BY <1>2, <1>4 DEF CallFails
<1>5. CASE Prepare \/ Upload \/ CheckDocument \/ CheckRewrite \/ BuildEndsTheRun
  BY <1>1, <1>2, <1>5 DEF Prepare, Upload, CheckDocument, CheckRewrite, BuildEndsTheRun
<1>6. CASE ReadDrawing \/ CompileDocument \/ RepairDocument \/ RepairAfterBuild
  BY <1>1, <1>4, <1>6 DEF ReadDrawing, CompileDocument, RepairDocument,
                          RepairAfterBuild, Rewrite
<1>7. CASE BuildSucceeds \/ BuildFails
  BY <1>1, <1>7 DEF BuildSucceeds, BuildFails
<1> QED
  BY <1>3, <1>5, <1>6, <1>7 DEF RunStep

\* Another machine, a sweep or another claim.
LEMMA OthersTyped ==
  ASSUME JobTyped, EndSilence \/ AnotherMachine
  PROVE  JobTyped'
<1>1. CASE EndSilence
  <2>1. /\ stage' \in Job!Stages /\ holder' \in Others \cup {Machine, None}
        /\ quiet' = FALSE /\ silences' = silences + 1 /\ delivered' = delivered
    BY <1>1 DEF EndSilence, Job!EndSilence, Job!Stages
  <2>2. silences' \in 0 .. MaxAttempts
    BY <1>1, <2>1, Bounds DEF JobTyped, EndSilence, Job!EndSilence
  <2>3. quiet' \in BOOLEAN
    BY <2>1
  <2> QED
    BY <2>1, <2>2, <2>3 DEF JobTyped
<1>2. CASE \E w \in Others : Job!Grant(w)
  BY <1>2 DEF JobTyped, Job!Grant, Job!Stages
<1>3. CASE holder \in Others /\ (Job!Rest \/ Job!GiveUp \/ Job!Deliver)
  BY <1>3, JobMovesTyped, DeliverTyped
<1> QED
  BY <1>1, <1>2, <1>3 DEF AnotherMachine

LEMMA NextTyped ==
  ASSUME JobTyped, [Next]_vars
  PROVE  JobTyped'
<1>1. CASE Claim
  BY <1>1, ClaimTyped
<1>2. CASE RunStep
  BY <1>2, RunStepTyped
<1>3. CASE Submit \/ FallSilent \/ Wake \/ RenewalFails \/ Crash \/ UNCHANGED vars
  BY <1>3, JobMovesTyped DEF Submit, FallSilent, Wake, RenewalFails, Crash, vars
<1>4. CASE EndSilence \/ AnotherMachine
  BY <1>4, OthersTyped
<1> QED
  BY <1>1, <1>2, <1>3, <1>4 DEF Next

LEMMA NextKeeps ==
  ASSUME JobTyped, RunInv, [Next]_vars
  PROVE  RunInv'
<1>1. CASE Claim
  BY <1>1, ClaimKeeps
<1>2. CASE RunStep
  <2>1. CASE Prepare \/ ReadDrawing \/ CompileDocument
    BY <2>1, PrepareKeeps, ReadKeeps, CompileKeeps
  <2>2. CASE RepairDocument \/ RepairAfterBuild
    BY <2>2, RewriteKeeps DEF RepairDocument, RepairAfterBuild
  <2>3. CASE CheckDocument \/ CheckRewrite
    BY <2>3, CheckKeeps, CheckRewriteKeeps
  <2>4. CASE BuildSucceeds \/ BuildFails
    BY <2>4, BuildSucceedsKeeps, BuildFailsKeeps
  <2>5. CASE BuildEndsTheRun
    BY <2>5, FailKeeps DEF BuildEndsTheRun
  <2>6. CASE Upload \/ Complete
    BY <2>6, UploadKeeps, CompleteKeeps
  <2> QED
    BY <1>2, <2>1, <2>2, <2>3, <2>4, <2>5, <2>6 DEF RunStep
<1>3. CASE RenewalFails
  BY <1>3, RenewalKeeps
<1>4. CASE Crash
  BY <1>4, OverKeeps DEF Crash
<1>5. CASE Submit \/ FallSilent \/ EndSilence \/ Wake \/ AnotherMachine
  BY <1>5, ElsewhereKeeps DEF Submit, FallSilent, EndSilence, Wake, AnotherMachine
<1>6. CASE UNCHANGED vars
  BY <1>6, ElsewhereKeeps DEF vars, Elsewhere
<1> QED
  BY <1>1, <1>2, <1>3, <1>4, <1>5, <1>6 DEF Next

\* Every behaviour stays within the invariant.
THEOREM InvariantHolds == Spec => []IInv
<1>1. Init => IInv
  BY InitTyped, InitRun DEF IInv
<1>2. IInv /\ [Next]_vars => IInv'
  BY NextTyped, NextKeeps DEF IInv
<1> QED
  BY <1>1, <1>2, PTL DEF Spec
-----------------------------------------------------------------------------
(* What follows.                                                           *)

\* The run, the job directory and the job hold what their types allow; in
\* particular no run counts past a bound on attempts, calls or repairs, and no
\* document has a number beyond both repair loops.
THEOREM TypeCorrect == Spec => []TypeOK
<1>1. IInv => TypeOK
  BY DEF IInv, JobTyped, RunInv, RunTyped, TypeOK, Runs, Disks, Deliveries
<1> QED
  BY <1>1, InvariantHolds, PTL

\* Whatever failed before, a delivered model was accepted, built and measured
\* by the run that delivers it.
THEOREM ModelsAreEarned == Spec => []DeliveredModelWasEarned
<1>1. IInv => DeliveredModelWasEarned
  BY DEF IInv, RunInv
<1> QED
  BY <1>1, InvariantHolds, PTL

\* Both repair loops together make at most MaxRepairRuns calls beside the two
\* that read and compile.
THEOREM CallsStayBounded == Spec => []CallsAreBounded
<1>1. IInv => CallsAreBounded
  BY Bounds DEF IInv, RunInv, RunTyped, Runs, Counted, CallsAreBounded
<1> QED
  BY <1>1, InvariantHolds, PTL

\* A delivery answers what came with the drawing, whatever reading an earlier
\* run or an earlier round left behind.
THEOREM RoundsAreHeeded == Spec => []RoundIsHeeded
<1>1. IInv => RoundIsHeeded
  BY DEF IInv, RunInv
<1> QED
  BY <1>1, InvariantHolds, PTL

-----------------------------------------------------------------------------
(* What is delivered beside the model.                                     *)

\* The document a delivery publishes was accepted in the run that delivers it, and
\* the model is built from it or from a later rewrite of it.
PublishedWasAccepted ==
  sent # None /\ ~sent.asking =>
    sent.document \in sent.checked /\ sent.document <= sent.model

\* A delivery that asks carries no model of its own run.
AskingBuildsNothing ==
  sent # None /\ sent.asking => sent.model \in {None, Earlier}

\* A run whose document was published.
HasPublished ==
  \/ run.at \in {"building", "repairing_build", "rechecking"}
  \/ run.at \in {"uploading", "completing"} /\ ~run.asking

\* A run that has built nothing yet, or will not.
HasBuiltNothing ==
  run.asking \/ run.at \in {"preparing", "reading", "compiling", "checking", "repairing"}

\* On the way there: until a run builds, the model in the directory is of an
\* earlier one; what it published was accepted and no later than its candidate,
\* and is its candidate until a build fails; what it uploads is its candidate.
Published ==
  /\ run.asking => run.at \in {"uploading", "completing"}
  /\ HasBuiltNothing => disk.model \in {None, Earlier}
  /\ HasPublished =>
       /\ disk.document \in run.checked
       /\ run.candidate \in Nat /\ disk.document <= run.candidate
       /\ run.builds = 0 => disk.document = run.candidate
  /\ run.at \in {"repairing_build", "rechecking"} => run.builds # 0
  /\ run.at \in {"uploading", "completing"} /\ ~run.asking => disk.model = run.candidate
  /\ PublishedWasAccepted /\ AskingBuildsNothing

\* What was sent stays as it was.
LEMMA SentStaysPublished ==
  ASSUME Published, UNCHANGED sent
  PROVE  PublishedWasAccepted' /\ AskingBuildsNothing'
BY DEF Published, PublishedWasAccepted, AskingBuildsNothing

\* A run that is over says nothing of the directory.
LEMMA OverStaysPublished ==
  ASSUME Published, Over
  PROVE  Published'
<1>1. run'.at = "idle" /\ run'.asking = FALSE /\ UNCHANGED sent
  BY DEF Over, Idle
<1> QED BY <1>1, SentStaysPublished DEF Published, HasPublished, HasBuiltNothing

LEMMA FailStaysPublished ==
  ASSUME Published, NEW code, Fail(code)
  PROVE  Published'
BY OverStaysPublished DEF Fail

\* A step before the document is published leaves the model alone.
LEMMA EarlyStaysPublished ==
  ASSUME Published, UNCHANGED sent,
         run.at \in {"preparing", "reading", "compiling", "checking", "repairing"},
         disk'.model = disk.model,
         run'.asking => run'.at \in {"uploading", "completing"},
         run'.at \in {"reading", "compiling", "checking", "repairing"}
           \/ (run'.at = "uploading" /\ run'.asking)
  PROVE  Published'
BY SentStaysPublished DEF Published, HasPublished, HasBuiltNothing

LEMMA ClaimStaysPublished ==
  ASSUME RunInv, Published, Claim
  PROVE  Published'
<1>1. run'.at = "preparing" /\ run'.asking = FALSE /\ UNCHANGED sent
  BY DEF Claim, Idle
<1>2. disk'.model = Aged(disk.model)
  BY DEF Claim, Leftovers, RunInv, RunTyped, Disks
<1> QED BY <1>1, <1>2, SentStaysPublished
        DEF Published, HasPublished, HasBuiltNothing, Aged

\* Preparing, reading, compiling, and what a rewrite of a refused document does.
LEMMA ReadingStaysPublished ==
  ASSUME RunInv, Published,
         Prepare \/ ReadDrawing \/ CompileDocument \/ RepairDocument
  PROVE  Published'
<1>1. run \in Runs /\ disk \in Disks
  BY DEF RunInv, RunTyped
<1>2. CASE \E code : Fail(code)
  BY <1>2, FailStaysPublished
<1>3. CASE ~\E code : Fail(code)
  <2>1. \A repair \in BOOLEAN : ~CallFails(repair)
    BY <1>3 DEF CallFails
  <2>2. /\ run.at \in {"preparing", "reading", "compiling", "repairing"}
        /\ UNCHANGED sent /\ disk'.model = disk.model
    BY <1>1, <1>3, <2>1 DEF Prepare, ReadDrawing, CompileDocument, RepairDocument, Rewrite, Disks
  <2>3. run.asking = FALSE
    BY <1>1, <2>2 DEF Published, Runs
  <2>4. ASSUME NEW repair \in BOOLEAN, WithinBudget(repair)
        PROVE  Charged(repair) \in Runs /\ Charged(repair).asking = run.asking
    BY <1>1, <2>4, CallCharged, RepairCharged DEF Runs
  <2>5. \/ run'.at \in {"reading", "compiling", "checking"} /\ run'.asking = FALSE
        \/ run'.at = "uploading" /\ run'.asking
    <3>1. CASE run' = [run EXCEPT !.at = "reading"] \/ run' = [run EXCEPT !.at = "compiling"]
      BY <1>1, <2>3, <3>1 DEF Runs
    <3>2. CASE run' = [run EXCEPT !.at = "uploading", !.asking = TRUE]
      BY <1>1, <3>2 DEF Runs
    <3>3. ASSUME NEW repair \in BOOLEAN, NEW candidate, WithinBudget(repair),
                 \/ run' = [Charged(repair) EXCEPT !.at = "compiling"]
                 \/ run' = [Charged(repair) EXCEPT !.at = "checking", !.candidate = candidate]
          PROVE  run'.at \in {"compiling", "checking"} /\ run'.asking = FALSE
      <4>1. PICK charged \in Runs : charged = Charged(repair) /\ charged.asking = FALSE
        BY <2>3, <2>4, <3>3
      <4> QED BY <3>3, <4>1 DEF Runs
    <3>4. CASE Prepare
      BY <1>3, <3>1, <3>4 DEF Prepare
    <3>5. CASE ReadDrawing
      BY <2>1, <3>1, <3>3, <3>5 DEF ReadDrawing
    <3>6. CASE CompileDocument
      BY <2>1, <3>2, <3>3, <3>6 DEF CompileDocument
    <3>7. CASE RepairDocument
      <4>1. /\ WithinBudget(TRUE)
            /\ run' = [Charged(TRUE) EXCEPT !.at = "checking", !.candidate = @ + 1]
        BY <2>1, <3>7 DEF RepairDocument, Rewrite
      <4> QED BY <3>3, <4>1
    <3> QED BY <3>4, <3>5, <3>6, <3>7
  <2> QED BY <2>2, <2>5, EarlyStaysPublished
<1> QED BY <1>2, <1>3

LEMMA CheckStaysPublished ==
  ASSUME RunInv, Published, CheckDocument
  PROVE  Published'
<1>1. run \in Runs /\ disk \in Disks /\ run.at = "checking" /\ run.candidate \in Nat
  BY DEF RunInv, RunTyped, Numbered, CheckDocument
<1>2. run.asking = FALSE
  BY <1>1 DEF Published, Runs
<1>3. CASE /\ run' = Accepted /\ disk' = [disk EXCEPT !.document = run.candidate]
           /\ UNCHANGED sent
  <2>1. /\ run'.at = "building" /\ run'.asking = FALSE /\ run'.candidate = run.candidate
        /\ run.candidate \in run'.checked /\ disk'.document = run.candidate
    BY <1>1, <1>2, <1>3 DEF Accepted, Runs, Disks
  <2> QED BY <1>1, <1>3, <2>1, SentStaysPublished DEF Published, HasPublished, HasBuiltNothing
<1>4. CASE /\ run' = [run EXCEPT !.at = "repairing", !.rewrites = @ + 1]
           /\ UNCHANGED <<disk, sent>>
  <2>1. run'.at = "repairing" /\ run'.asking = FALSE
    BY <1>1, <1>2, <1>4 DEF Runs
  <2> QED BY <1>1, <1>4, <2>1, EarlyStaysPublished
<1> QED BY <1>3, <1>4, FailStaysPublished DEF CheckDocument

\* What happens to a document that was published.
LEMMA BuildStaysPublished ==
  ASSUME RunInv, Published,
         BuildSucceeds \/ BuildFails \/ BuildEndsTheRun \/ RepairAfterBuild \/ CheckRewrite
  PROVE  Published'
<1>1. run \in Runs /\ disk \in Disks
  BY DEF RunInv, RunTyped
<1>2. CASE \E code : Fail(code)
  BY <1>2, FailStaysPublished
<1>3. CASE ~\E code : Fail(code)
  <2>1. \A repair \in BOOLEAN : ~CallFails(repair)
    BY <1>3 DEF CallFails
  <2>2. run.at \in {"building", "repairing_build", "rechecking"} /\ UNCHANGED sent
    BY <1>3, <2>1 DEF BuildSucceeds, BuildFails, BuildEndsTheRun, RepairAfterBuild,
                      Rewrite, CheckRewrite
  <2>3. /\ run.asking = FALSE
        /\ disk.document \in run.checked /\ run.candidate \in Nat /\ disk.document \in Int
        /\ disk.document <= run.candidate /\ run.builds \in Nat
        /\ run.builds = 0 => disk.document = run.candidate
    <3>1. run.checked \subseteq Int /\ run.builds \in Nat /\ run.asking \in BOOLEAN
      BY <1>1 DEF Runs, Documents
    <3> QED BY <2>2, <3>1 DEF Published, HasPublished
  <2>4. CASE BuildSucceeds
    <3>1. /\ run'.at = "uploading" /\ run'.asking = FALSE /\ run'.candidate = run.candidate
          /\ run'.checked = run.checked /\ run'.builds = run.builds
          /\ disk'.document = disk.document /\ disk'.model = run.candidate
      BY <1>1, <2>3, <2>4 DEF BuildSucceeds, Runs, Disks
    <3> QED BY <2>2, <2>3, <3>1, SentStaysPublished DEF Published, HasPublished, HasBuiltNothing
  <2>5. CASE BuildFails
    <3>1. /\ run'.at = "repairing_build" /\ run'.asking = FALSE
          /\ run'.candidate = run.candidate /\ run'.checked = run.checked
          /\ run'.builds = run.builds + 1
      BY <1>1, <2>3, <2>5 DEF BuildFails, Runs
    <3>2. disk'.document = disk.document
      BY <1>1, <2>5 DEF BuildFails, Disks
    <3> QED BY <2>2, <2>3, <3>1, <3>2, SentStaysPublished
            DEF Published, HasPublished, HasBuiltNothing
  <2>6. CASE RepairAfterBuild
    <3>1. /\ WithinBudget(TRUE) /\ UNCHANGED disk
          /\ run' = [Charged(TRUE) EXCEPT !.at = "rechecking", !.candidate = @ + 1]
      BY <2>1, <2>6 DEF RepairAfterBuild, Rewrite
    <3>2. PICK charged \in Runs : /\ charged = [run EXCEPT !.calls = @ + 1, !.repairs = @ + 1]
                                  /\ run' = [charged EXCEPT !.at = "rechecking", !.candidate = @ + 1]
      BY <1>1, <3>1, RepairCharged
    <3>3. /\ run'.at = "rechecking" /\ run'.asking = FALSE
          /\ run'.candidate = run.candidate + 1 /\ run'.checked = run.checked
          /\ run'.builds = run.builds
      BY <1>1, <2>3, <3>2 DEF Runs
    <3>4. run.builds # 0
      BY <2>6 DEF RepairAfterBuild, Rewrite, Published
    <3>5. UNCHANGED disk
      BY <3>1
    <3>6. run'.candidate \in Nat /\ disk'.document <= run'.candidate
      BY <2>3, <3>3, <3>5
    <3> QED BY <2>2, <2>3, <3>3, <3>4, <3>5, <3>6, SentStaysPublished
            DEF Published, HasPublished, HasBuiltNothing
  <2>7. CASE CheckRewrite
    <3>1. run' = Accepted /\ UNCHANGED disk
      BY <1>3, <2>7 DEF CheckRewrite
    <3>2. /\ run'.at = "building" /\ run'.asking = FALSE /\ run'.candidate = run.candidate
          /\ run.checked \subseteq run'.checked /\ run'.builds = run.builds
      BY <1>1, <2>3, <3>1 DEF Accepted, Runs
    <3>3. run.builds # 0
      BY <2>7 DEF CheckRewrite, Published
    <3> QED BY <2>2, <2>3, <3>1, <3>2, <3>3, SentStaysPublished
            DEF Published, HasPublished, HasBuiltNothing
  <2> QED BY <1>3, <2>4, <2>5, <2>6, <2>7 DEF BuildEndsTheRun
<1> QED BY <1>2, <1>3

LEMMA UploadStaysPublished ==
  ASSUME RunInv, Published, Upload
  PROVE  Published'
<1>1. CASE run' = [run EXCEPT !.at = "completing"] /\ UNCHANGED <<disk, sent>>
  <2>1. run.at = "uploading" /\ run \in Runs
    BY DEF Upload, RunInv, RunTyped
  <2>2. /\ run'.at = "completing" /\ run'.asking = run.asking
        /\ run'.candidate = run.candidate /\ run'.checked = run.checked
        /\ run'.builds = run.builds
    BY <1>1, <2>1 DEF Runs
  <2> QED BY <1>1, <2>1, <2>2, SentStaysPublished DEF Published, HasPublished, HasBuiltNothing
<1> QED BY <1>1, FailStaysPublished DEF Upload

LEMMA CompleteStaysPublished ==
  ASSUME RunInv, Published, Complete
  PROVE  Published'
<1>1. CASE Fail(Untyped)
  BY <1>1, FailStaysPublished
<1>2. CASE ~Fail(Untyped)
  <2>1. /\ run.at = "completing" /\ run' = Idle
        /\ sent' = [asking |-> run.asking, reading |-> disk.reading.by,
                    document |-> disk.document, model |-> disk.model,
                    verified |-> disk.verified, checked |-> run.checked]
    BY <1>2 DEF Complete
  <2>2. run'.at = "idle" /\ run'.asking = FALSE
    BY <2>1 DEF Idle
  <2>3. /\ sent'.asking = run.asking /\ sent'.document = disk.document
        /\ sent'.model = disk.model /\ sent'.checked = run.checked
    BY <2>1
  <2>4. run.asking => disk.model \in {None, Earlier}
    BY DEF Published, HasBuiltNothing
  <2>5. ~run.asking =>
          /\ disk.document \in run.checked /\ disk.model = run.candidate
          /\ disk.document <= run.candidate
    BY <2>1 DEF Published, HasPublished
  <2>6. PublishedWasAccepted' /\ AskingBuildsNothing'
    BY <2>3, <2>4, <2>5 DEF PublishedWasAccepted, AskingBuildsNothing
  <2> QED BY <2>2, <2>6 DEF Published, HasPublished, HasBuiltNothing
<1> QED BY <1>1, <1>2

LEMMA NextStaysPublished ==
  ASSUME RunInv, Published, [Next]_vars
  PROVE  Published'
<1>1. CASE UNCHANGED <<run, disk, sent>>
  BY <1>1 DEF Published, HasPublished, HasBuiltNothing, PublishedWasAccepted,
              AskingBuildsNothing
<1>2. CASE RunStep
  BY <1>2, ReadingStaysPublished, CheckStaysPublished, BuildStaysPublished,
     UploadStaysPublished, CompleteStaysPublished DEF RunStep
<1>3. CASE Claim \/ Crash
  BY <1>3, ClaimStaysPublished, OverStaysPublished DEF Crash
<1>4. CASE Submit \/ RenewalFails \/ FallSilent \/ EndSilence \/ Wake \/ AnotherMachine
  BY <1>1, <1>4 DEF Submit, RenewalFails, FallSilent, EndSilence, Wake, AnotherMachine, Elsewhere
<1> QED BY <1>1, <1>2, <1>3, <1>4 DEF Next, vars

LEMMA PublishedHolds == Spec => []Published
<1>1. Init => Published
  BY DEF Init, Idle, Published, HasPublished, HasBuiltNothing, PublishedWasAccepted,
         AskingBuildsNothing
<1>2. RunInv /\ Published /\ [Next]_vars => Published'
  BY NextStaysPublished
<1>3. IInv => RunInv
  BY DEF IInv
<1> QED BY <1>1, <1>2, <1>3, InvariantHolds, PTL DEF Spec

\* The document a delivery publishes was accepted in the run that delivers it, and
\* the model beside it was built from it or from a later rewrite of it, however
\* often the build was repaired and whatever an earlier run left.
THEOREM PublishedDocumentsWereAccepted == Spec => []PublishedWasAccepted
<1>1. Published => PublishedWasAccepted
  BY DEF Published
<1> QED BY <1>1, PublishedHolds, PTL

\* A delivery that asks the customer something has built nothing: a model beside
\* the questions is one an earlier run left in the directory (Pipeline.cs:570).
THEOREM AskingRunsBuildNothing == Spec => []AskingBuildsNothing
<1>1. Published => AskingBuildsNothing
  BY DEF Published
<1> QED BY <1>1, PublishedHolds, PTL

\* A run delivers the document its model was built from, unless it has repaired
\* the build.
UnrepairedPublishesItsModel ==
  sent' # sent /\ ~sent'.asking /\ run.builds = 0 => sent'.document = sent'.model

LEMMA OnlyCompletionSends ==
  ASSUME [Next]_vars, ~Complete
  PROVE  UNCHANGED sent
<1>1. (\E code : Fail(code)) \/ Over => UNCHANGED sent
  BY DEF Fail, Over
<1>2. CASE Prepare \/ ReadDrawing \/ CompileDocument \/ RepairDocument \/ RepairAfterBuild
  BY <1>1, <1>2 DEF Prepare, ReadDrawing, CompileDocument, RepairDocument, RepairAfterBuild,
                    Rewrite, CallFails
<1>3. CASE CheckDocument \/ CheckRewrite \/ BuildSucceeds \/ BuildFails \/ BuildEndsTheRun \/ Upload
  BY <1>1, <1>3 DEF CheckDocument, CheckRewrite, BuildSucceeds, BuildFails, BuildEndsTheRun, Upload
<1>4. CASE Claim \/ Crash \/ RenewalFails
  BY <1>1, <1>4 DEF Claim, Crash, RenewalFails
<1>5. CASE Submit \/ FallSilent \/ EndSilence \/ Wake \/ AnotherMachine \/ UNCHANGED vars
  BY <1>5 DEF Submit, FallSilent, EndSilence, Wake, AnotherMachine, Elsewhere, vars
<1> QED BY <1>2, <1>3, <1>4, <1>5 DEF Next, RunStep

LEMMA UnrepairedKeepTheirDocument ==
  ASSUME Published, [Next]_vars
  PROVE  UnrepairedPublishesItsModel
<1> SUFFICES ASSUME sent' # sent, ~sent'.asking, run.builds = 0
             PROVE  sent'.document = sent'.model
  BY DEF UnrepairedPublishesItsModel
<1>1. Complete /\ sent' # sent
  BY OnlyCompletionSends
<1>2. ~Fail(Untyped)
  BY <1>1 DEF Fail, Over
<1>3. /\ run.at = "completing" /\ sent'.asking = run.asking
      /\ sent'.document = disk.document /\ sent'.model = disk.model
  BY <1>1, <1>2 DEF Complete
<1> QED BY <1>3 DEF Published, HasPublished

\* The document delivered is the one the engine was given (WorkerEngine.cs:28), by
\* every run that repaired no build: the loop around the build is the only thing
\* that parts them, as the configuration DrawingRunPromises shows it does.
THEOREM UnrepairedRunsPublishTheirModel ==
  Spec => [][UnrepairedPublishesItsModel]_vars
<1>1. Published /\ [Next]_vars => UnrepairedPublishesItsModel
  BY UnrepairedKeepTheirDocument
<1>2. Spec => []Published
  BY PublishedHolds
<1> QED BY <1>1, <1>2, PTL DEF Spec
=============================================================================
