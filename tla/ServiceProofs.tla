--------------------------- MODULE ServiceProofs ---------------------------
(***************************************************************************)
(* What the service that hands out jobs keeps, for every number of jobs,   *)
(* workers, attempts and seconds: the SQL worker protocol, the diagnosis   *)
(* of a job that waits, and the in-memory service of the tests.            *)
(*                                                                         *)
(* Every invariant of JobProtocol but the count of deliveries is a fact    *)
(* about one row, so the proofs go row by row: any step of Next changes    *)
(* each row in one of eight ways (RowStep), and each way keeps the type,   *)
(* then the wholeness, then the attempts of the row.                       *)
(*                                                                         *)
(* The gates are written twice in the code, once for a claim and once for  *)
(* the diagnosis: gate by gate they refuse the same machines.              *)
(*                                                                         *)
(* The in-memory service is followed row by row too.  Its scan may leave a *)
(* job waiting that has no attempt left, so its rows are sound in a weaker *)
(* sense, MemSound; a row of that kind can only be given up, and every     *)
(* other row changes in the ways of the SQL service or is returned by a    *)
(* scan.  In both services a row that has ended changes no more.           *)
(***************************************************************************)
EXTENDS Diagnostics, MemoryProtocol, SequenceTheorems, TLAPS

-----------------------------------------------------------------------------
(* The SQL service, row by row.                                            *)


\* The row of j, and what it delivered, change in one of these ways.
Quiet(j)    == jobs'[j] = jobs[j] /\ artifacts'[j] = artifacts[j]
Submits(j)  == /\ jobs[j].status = "ABSENT"
               /\ jobs'[j] = [NoJob EXCEPT !.status = "PENDING"]
               /\ artifacts'[j] = artifacts[j]
Claims(j)   == /\ \E w \in Workers, lag \in Lags :
                    Candidate(jobs[j], lag) /\ jobs'[j] = Granted(jobs[j], w, lag)
               /\ artifacts'[j] = artifacts[j]
Renews(j)   == /\ \E w \in Workers : Owned(w, j)
               /\ jobs'[j] = Renewed(jobs[j])
               /\ artifacts'[j] = artifacts[j]
Delivers(j) == \E w \in Workers :
                 /\ Owned(w, j)
                 /\ jobs'[j] = Completed(jobs[j])
                 /\ artifacts'[j] = Append(artifacts[j], w)
Fails(j)    == /\ \E w \in Workers, code \in Codes, retry_after \in Countdown \cup {None} :
                    Owned(w, j) /\ jobs'[j] = Failed(jobs[j], code, retry_after)
               /\ artifacts'[j] = artifacts[j]
Swept(j)    == /\ \E lag \in Lags : jobs'[j] = Unstuck(Woken(jobs[j], lag), lag)
               /\ artifacts'[j] = artifacts[j]
Ages(j)     == jobs'[j] = OlderRow(jobs[j]) /\ artifacts'[j] = artifacts[j]

RowStep(j) ==
  Quiet(j) \/ Submits(j) \/ Claims(j) \/ Renews(j) \/ Delivers(j) \/ Fails(j)
    \/ Swept(j) \/ Ages(j)

-----------------------------------------------------------------------------
(* Facts about the operators on rows.                                      *)

LEMMA NumbersAreDates ==
  /\ Countdown \subseteq Int
  /\ None \notin Countdown
  /\ LeaseSeconds \in Countdown
  /\ \A lag \in Lags : LeaseSeconds - lag \in Countdown /\ LeaseSeconds - lag > 0
BY ConstantsAssumption DEF Countdown, Lags

LEMMA OlderIsADate ==
  ASSUME NEW left \in Countdown \cup {None}
  PROVE  /\ Older(left) \in Countdown \cup {None}
         /\ Older(left) = None <=> left = None
BY ConstantsAssumption DEF Older, Countdown

LEMMA NoJobIsARow == NoJob \in JobRow
BY ConstantsAssumption DEF NoJob, JobRow, Statuses

LEMMA GrantedIsARow ==
  ASSUME NEW row \in JobRow, NEW w \in Workers, NEW lag \in Lags, Candidate(row, lag)
  PROVE  Granted(row, w, lag) \in JobRow
<1>1. row.attempt + 1 \in 0 .. MaxAttempts
  BY ConstantsAssumption DEF JobRow, Candidate
<1>2. LeaseSeconds - lag \in Countdown
  BY NumbersAreDates
<1> QED BY <1>1, <1>2 DEF JobRow, Granted, Statuses

LEMMA EndedIsARow ==
  ASSUME NEW row \in JobRow
  PROVE  /\ Renewed(row) \in JobRow
         /\ Completed(row) \in JobRow
         /\ OlderRow(row) \in JobRow
         /\ \A code \in Codes, retry_after \in Countdown \cup {None} :
              Failed(row, code, retry_after) \in JobRow
<1>1. Renewed(row) \in JobRow
  BY NumbersAreDates DEF JobRow, Renewed
<1>2. Completed(row) \in JobRow
  BY DEF JobRow, Completed, Statuses
<1>3. OlderRow(row) \in JobRow
  BY OlderIsADate DEF JobRow, OlderRow
<1>4. ASSUME NEW code \in Codes, NEW retry_after \in Countdown \cup {None}
      PROVE  Failed(row, code, retry_after) \in JobRow
  <2>1. (IF retry_after = None \/ row.attempt = 0 THEN row.attempt ELSE row.attempt - 1)
          \in 0 .. MaxAttempts
    BY ConstantsAssumption DEF JobRow
  <2> QED BY <2>1 DEF JobRow, Failed, Statuses
<1> QED BY <1>1, <1>2, <1>3, <1>4

LEMMA SweptIsARow ==
  ASSUME NEW row \in JobRow, NEW lag \in Lags
  PROVE  /\ Woken(row, lag) \in JobRow
         /\ Unstuck(row, lag) \in JobRow
<1>1. Woken(row, lag) \in JobRow
  BY DEF JobRow, Woken, Statuses
<1>2. Unstuck(row, lag) \in JobRow
  BY DEF JobRow, Unstuck, Statuses
<1> QED BY <1>1, <1>2

-----------------------------------------------------------------------------
(* Every step changes every row in one of the ways above.                  *)

LEMMA NextIsRowSteps ==
  ASSUME TypeOK, [Next]_vars, NEW k \in Jobs
  PROVE  RowStep(k)
<1> USE DEF RowStep, TypeOK
<1>1. ASSUME NEW j \in Jobs, Enqueue(j)
      PROVE  RowStep(k)
  <2>1. k = j => Submits(k)
    BY <1>1 DEF Enqueue, Submits
  <2>2. k # j => Quiet(k)
    BY <1>1 DEF Enqueue, Quiet
  <2> QED BY <2>1, <2>2
<1>2. ASSUME NEW w \in Workers, NEW accepted \in Builds, Register(w, accepted)
      PROVE  RowStep(k)
  BY <1>2 DEF Register, Quiet
<1>3. ASSUME NEW w \in Workers, NEW report \in Reports, Heartbeat(w, report)
      PROVE  RowStep(k)
  BY <1>3 DEF Heartbeat, Quiet
<1>4. ASSUME NEW w \in Workers, NEW report \in Reports, NEW j \in Jobs, NEW lag \in Lags,
             Claim(w, report, j, lag)
      PROVE  RowStep(k)
  <2>1. k = j => Claims(k)
    BY <1>4 DEF Claim, Claims
  <2>2. k # j => Quiet(k)
    BY <1>4 DEF Claim, Quiet
  <2> QED BY <2>1, <2>2
<1>5. ASSUME NEW w \in Workers, NEW j \in Jobs, RenewLease(w, j)
      PROVE  RowStep(k)
  <2>1. k = j => Renews(k)
    BY <1>5 DEF RenewLease, Renews
  <2>2. k # j => Quiet(k)
    BY <1>5 DEF RenewLease, Quiet
  <2> QED BY <2>1, <2>2
<1>6. ASSUME NEW w \in Workers, NEW j \in Jobs, CompleteWithArtifacts(w, j)
      PROVE  RowStep(k)
  <2>1. k = j => Delivers(k)
    BY <1>6 DEF CompleteWithArtifacts, Delivers
  <2>2. k # j => Quiet(k)
    BY <1>6 DEF CompleteWithArtifacts, Quiet
  <2> QED BY <2>1, <2>2
<1>7. ASSUME NEW w \in Workers, NEW j \in Jobs, NEW code \in Codes,
             NEW retry_after \in Countdown \cup {None}, Fail(w, j, code, retry_after)
      PROVE  RowStep(k)
  <2>1. k = j => Fails(k)
    BY <1>7 DEF Fail, Fails
  <2>2. k # j => Quiet(k)
    BY <1>7 DEF Fail, Quiet
  <2> QED BY <2>1, <2>2
<1>8. ASSUME NEW locked \in SUBSET Jobs, NEW lag \in Lags, Reap(locked, lag)
      PROVE  RowStep(k)
  <2>1. k \in locked => Quiet(k)
    BY <1>8 DEF Reap, Quiet
  <2>2. k \notin locked => Swept(k)
    BY <1>8 DEF Reap, Swept
  <2> QED BY <2>1, <2>2
<1>9. CASE Tick
  BY <1>9 DEF Tick, Ages
<1>10. CASE UNCHANGED vars
  BY <1>10 DEF vars, Quiet
<1> QED BY <1>1, <1>2, <1>3, <1>4, <1>5, <1>6, <1>7, <1>8, <1>9, <1>10
       DEF Next, HolderActs, Reaper

-----------------------------------------------------------------------------
(* Type correctness.                                                       *)

LEMMA RowStepKeepsType ==
  ASSUME TypeOK, NEW k \in Jobs, RowStep(k)
  PROVE  /\ jobs'[k] \in JobRow
         /\ artifacts'[k] \in Seq(Workers)
<1>0. jobs[k] \in JobRow /\ artifacts[k] \in Seq(Workers)
  BY DEF TypeOK
<1>1. CASE Quiet(k)
  BY <1>0, <1>1 DEF Quiet
<1>2. CASE Submits(k)
  BY <1>0, <1>2, NoJobIsARow DEF Submits, JobRow, Statuses
<1>3. CASE Claims(k)
  BY <1>0, <1>3, GrantedIsARow DEF Claims
<1>4. CASE Renews(k)
  BY <1>0, <1>4, EndedIsARow DEF Renews
<1>5. CASE Delivers(k)
  BY <1>0, <1>5, EndedIsARow DEF Delivers
<1>6. CASE Fails(k)
  BY <1>0, <1>6, EndedIsARow DEF Fails
<1>7. CASE Swept(k)
  BY <1>0, <1>7, SweptIsARow DEF Swept
<1>8. CASE Ages(k)
  BY <1>0, <1>8, EndedIsARow DEF Ages
<1> QED BY <1>1, <1>2, <1>3, <1>4, <1>5, <1>6, <1>7, <1>8 DEF RowStep

LEMMA HeardIsAWorkerRow ==
  ASSUME NEW w \in Workers, NEW report \in Reports, workers[w] \in WorkerRow
  PROVE  Heard(w, report) \in WorkerRow
BY ReportsAssumption DEF Heard, WorkerRow

LEMMA OlderWorkerIsARow ==
  ASSUME NEW row \in WorkerRow
  PROVE  [row EXCEPT !.codex = OlderWord(@)] \in WorkerRow
<1>1. CASE row.codex = None
  BY <1>1 DEF OlderWord, WorkerRow
<1>2. CASE row.codex # None
  <2>1. row.codex \in CodexWords
    BY <1>2 DEF WorkerRow
  <2>2. [row.codex EXCEPT !.retry_after = Older(@)] \in CodexWords
    BY <2>1, OlderIsADate DEF CodexWords
  <2> QED BY <1>2, <2>2 DEF OlderWord, WorkerRow
<1> QED BY <1>1, <1>2

LEMMA NextKeepsWorkers ==
  ASSUME TypeOK, [Next]_vars
  PROVE  workers' \in [Workers -> WorkerRow] /\ spoken' \subseteq Workers
<1> USE DEF TypeOK
<1>1. ASSUME NEW j \in Jobs, Enqueue(j)
      PROVE  workers' = workers /\ spoken' = spoken
  BY <1>1 DEF Enqueue
<1>2. ASSUME NEW w \in Workers, NEW accepted \in Builds, Register(w, accepted)
      PROVE  workers' \in [Workers -> WorkerRow] /\ spoken' \subseteq Workers
  <2>1. [NoWorker EXCEPT !.enrolled = TRUE, !.accepted = accepted, !.codex = workers[w].codex]
          \in WorkerRow
    BY ConstantsAssumption DEF NoWorker, WorkerRow
  <2> QED BY <1>2, <2>1 DEF Register
<1>3. ASSUME NEW w \in Workers, NEW report \in Reports, Hear(w, report)
      PROVE  workers' \in [Workers -> WorkerRow] /\ spoken' \subseteq Workers
  BY <1>3, HeardIsAWorkerRow DEF Hear
<1>4. ASSUME HolderActs
      PROVE  workers' = workers /\ spoken' = spoken
  BY <1>4 DEF HolderActs, RenewLease, CompleteWithArtifacts, Fail
<1>5. ASSUME Reaper
      PROVE  workers' = workers /\ spoken' = spoken
  BY <1>5 DEF Reaper, Reap
<1>6. CASE Tick
  BY <1>6, OlderWorkerIsARow DEF Tick
<1>7. CASE UNCHANGED vars
  BY <1>7 DEF vars
<1> QED BY <1>1, <1>2, <1>3, <1>4, <1>5, <1>6, <1>7 DEF Next, Heartbeat, Claim

LEMMA NextKeepsDomains ==
  ASSUME TypeOK, [Next]_vars
  PROVE  /\ jobs' = [j \in Jobs |-> jobs'[j]]
         /\ artifacts' = [j \in Jobs |-> artifacts'[j]]
BY DEF TypeOK, Next, Enqueue, Register, Heartbeat, Claim, HolderActs, RenewLease,
       CompleteWithArtifacts, Fail, Reaper, Reap, Tick, vars

LEMMA InitTypeOK == Init => TypeOK
BY NoJobIsARow DEF Init, TypeOK, NoWorker, WorkerRow

LEMMA NextTypeOK == TypeOK /\ [Next]_vars => TypeOK'
<1> SUFFICES ASSUME TypeOK, [Next]_vars
             PROVE  TypeOK'
  OBVIOUS
<1>1. \A k \in Jobs : jobs'[k] \in JobRow /\ artifacts'[k] \in Seq(Workers)
  BY NextIsRowSteps, RowStepKeepsType
<1> QED BY <1>1, NextKeepsDomains, NextKeepsWorkers DEF TypeOK

\* Every row of the service always has the columns and values its tables allow,
\* and no attempt is counted past max_attempts.
THEOREM TypeCorrect == Spec => []TypeOK
BY InitTypeOK, NextTypeOK, PTL DEF Spec

-----------------------------------------------------------------------------
(* The inductive invariant.  Each part needs the others: a row with a      *)
(* LEASE_LOST code keeps its count of attempts because a whole row with a  *)
(* code is not leased and so is not claimed or paused again, and a whole   *)
(* row that is leased has an attempt to hand back.                         *)

IInv == TypeOK /\ RowsAreWhole /\ NothingStranded /\ EndsAreEarned

\* What IInv says of one job.
SoundJob(row, delivered) ==
  /\ row \in JobRow /\ delivered \in Seq(Workers)
  /\ WholeRow(row)
  /\ Unstranded(row)
  /\ row.failure_code = LeaseLost => row.attempt = MaxAttempts
  /\ Len(delivered) = IF row.status = "COMPLETED" THEN 1 ELSE 0

LEMMA IInvIsAboutJobs ==
  ASSUME TypeOK
  PROVE  IInv <=> \A k \in Jobs : SoundJob(jobs[k], artifacts[k])
BY DEF IInv, SoundJob, TypeOK, RowsAreWhole, NothingStranded, EndsAreEarned

LEMMA GrantedIsSound ==
  ASSUME NEW row, NEW delivered, SoundJob(row, delivered),
         NEW w \in Workers, NEW lag \in Lags, Candidate(row, lag)
  PROVE  SoundJob(Granted(row, w, lag), delivered)
<1>1. row \in JobRow /\ row.status \in {"PENDING", "LEASED"} /\ row.attempt < MaxAttempts
  BY DEF SoundJob, Candidate, Expired
<1>2. Granted(row, w, lag) \in JobRow
  BY <1>1, GrantedIsARow
<1>3. Granted(row, w, lag).attempt \in 1 .. MaxAttempts
  BY <1>1, ConstantsAssumption DEF Granted, JobRow
<1>4. WholeRow(Granted(row, w, lag))
  <2>1. w # None /\ LeaseSeconds - lag # None
    BY ConstantsAssumption, NumbersAreDates
  <2> QED BY <1>1, <2>1 DEF Granted, WholeRow, SoundJob, JobRow
<1>5. Granted(row, w, lag).failure_code # LeaseLost
  BY <1>1, ConstantsAssumption DEF Granted, WholeRow, SoundJob, JobRow
<1> QED BY <1>1, <1>2, <1>3, <1>4, <1>5 DEF SoundJob, Unstranded, Granted, JobRow

LEMMA SpokenForIsSound ==
  ASSUME NEW row, NEW delivered, SoundJob(row, delivered), row.status = "LEASED"
  PROVE  /\ SoundJob(Renewed(row), delivered)
         /\ \A w \in Workers : SoundJob(Completed(row), Append(delivered, w))
         /\ \A code \in Codes, retry_after \in Countdown \cup {None} :
              SoundJob(Failed(row, code, retry_after), delivered)
<1>1. row \in JobRow /\ delivered \in Seq(Workers) /\ Len(delivered) = 0
  BY DEF SoundJob
<1>2. row.attempt \in 1 .. MaxAttempts /\ row.failure_code = None /\ row.retry_after = None
  BY DEF SoundJob, Unstranded, WholeRow
<1>3. SoundJob(Renewed(row), delivered)
  <2>1. LeaseSeconds # None
    BY NumbersAreDates
  <2> QED BY <1>1, <1>2, <2>1, EndedIsARow
          DEF SoundJob, Renewed, WholeRow, Unstranded, JobRow
<1>4. ASSUME NEW w \in Workers
      PROVE  SoundJob(Completed(row), Append(delivered, w))
  <2>1. Len(Append(delivered, w)) = 1 /\ Append(delivered, w) \in Seq(Workers)
    BY <1>1
  <2> QED BY <1>1, <1>2, <2>1, EndedIsARow, ConstantsAssumption
          DEF SoundJob, Completed, WholeRow, Unstranded, JobRow
<1>5. ASSUME NEW code \in Codes, NEW retry_after \in Countdown \cup {None}
      PROVE  SoundJob(Failed(row, code, retry_after), delivered)
  <2>1. code # None /\ code # LeaseLost
    BY ConstantsAssumption
  <2>2. Failed(row, code, retry_after) \in JobRow
    BY <1>1, EndedIsARow
  <2>3. WholeRow(Failed(row, code, retry_after))
    BY <1>1, <2>1 DEF Failed, WholeRow, JobRow
  <2>4. Unstranded(Failed(row, code, retry_after))
    BY <1>1, <1>2, ConstantsAssumption DEF Failed, Unstranded, JobRow
  <2> QED BY <1>1, <2>1, <2>2, <2>3, <2>4 DEF SoundJob, Failed, JobRow
<1> QED BY <1>3, <1>4, <1>5

LEMMA SweptIsSound ==
  ASSUME NEW row, NEW delivered, SoundJob(row, delivered), NEW lag \in Lags
  PROVE  /\ SoundJob(Woken(row, lag), delivered)
         /\ SoundJob(Unstuck(row, lag), delivered)
<1>1. row \in JobRow
  BY DEF SoundJob
<1>2. Woken(row, lag) \in JobRow /\ Unstuck(row, lag) \in JobRow
  BY <1>1, SweptIsARow
<1>3. SoundJob(Woken(row, lag), delivered)
  BY <1>1, <1>2, ConstantsAssumption
     DEF SoundJob, Woken, WholeRow, Unstranded, JobRow
<1>4. SoundJob(Unstuck(row, lag), delivered)
  <2>1. Stuck(row, lag) => row.status \in {"LEASED", "PENDING"}
    BY DEF Stuck, Expired
  <2>2. LeaseLost # None
    BY ConstantsAssumption
  <2>3. row.attempt \in 0 .. MaxAttempts
    BY <1>1 DEF JobRow
  <2> QED BY <1>1, <1>2, <2>1, <2>2, <2>3, ConstantsAssumption
          DEF SoundJob, Unstuck, WholeRow, Unstranded, JobRow
<1> QED BY <1>3, <1>4

LEMMA OlderIsSound ==
  ASSUME NEW row, NEW delivered, SoundJob(row, delivered)
  PROVE  SoundJob(OlderRow(row), delivered)
<1>1. row \in JobRow
  BY DEF SoundJob
<1>2. OlderRow(row) \in JobRow
  BY <1>1, EndedIsARow
<1> QED BY <1>1, <1>2, OlderIsADate
        DEF SoundJob, OlderRow, WholeRow, Unstranded, JobRow

LEMMA RowStepIsSound ==
  ASSUME NEW k \in Jobs, SoundJob(jobs[k], artifacts[k]), RowStep(k)
  PROVE  SoundJob(jobs'[k], artifacts'[k])
<1>1. CASE Quiet(k)
  BY <1>1 DEF Quiet
<1>2. CASE Submits(k)
  <2>1. SoundJob([NoJob EXCEPT !.status = "PENDING"], artifacts[k])
    BY <1>2, NoJobIsARow, ConstantsAssumption
       DEF Submits, SoundJob, NoJob, JobRow, Statuses, WholeRow, Unstranded
  <2> QED BY <1>2, <2>1 DEF Submits
<1>3. CASE Claims(k)
  BY <1>3, GrantedIsSound DEF Claims
<1>4. CASE Renews(k)
  BY <1>4, SpokenForIsSound DEF Renews, Owned
<1>5. CASE Delivers(k)
  BY <1>5, SpokenForIsSound DEF Delivers, Owned
<1>6. CASE Fails(k)
  BY <1>6, SpokenForIsSound DEF Fails, Owned
<1>7. CASE Swept(k)
  BY <1>7, SweptIsSound DEF Swept
<1>8. CASE Ages(k)
  BY <1>8, OlderIsSound DEF Ages
<1> QED BY <1>1, <1>2, <1>3, <1>4, <1>5, <1>6, <1>7, <1>8 DEF RowStep

LEMMA InitIInv == Init => IInv
<1> SUFFICES ASSUME Init
             PROVE  IInv
  OBVIOUS
<1>1. TypeOK
  BY InitTypeOK
<1>2. \A k \in Jobs : jobs[k] = NoJob /\ artifacts[k] = << >>
  BY DEF Init
<1>3. \A k \in Jobs : SoundJob(jobs[k], artifacts[k])
  <2>1. << >> \in Seq(Workers) /\ Len(<< >>) = 0
    OBVIOUS
  <2>2. WholeRow(NoJob) /\ Unstranded(NoJob)
    BY ConstantsAssumption DEF NoJob, WholeRow, Unstranded
  <2>3. NoJob.failure_code # LeaseLost /\ NoJob.status # "COMPLETED"
    BY ConstantsAssumption DEF NoJob
  <2> QED BY <1>2, <2>1, <2>2, <2>3, NoJobIsARow DEF SoundJob
<1> QED BY <1>1, <1>3, IInvIsAboutJobs

LEMMA NextIInv == IInv /\ [Next]_vars => IInv'
<1> SUFFICES ASSUME IInv, [Next]_vars
             PROVE  IInv'
  OBVIOUS
<1>1. TypeOK /\ TypeOK'
  BY NextTypeOK DEF IInv
<1>2. \A k \in Jobs : SoundJob(jobs[k], artifacts[k])
  BY <1>1, IInvIsAboutJobs
<1>3. \A k \in Jobs : SoundJob(jobs'[k], artifacts'[k])
  BY <1>1, <1>2, NextIsRowSteps, RowStepIsSound
<1> QED BY <1>1, <1>3
        DEF IInv, SoundJob, RowsAreWhole, NothingStranded, EndsAreEarned

LEMMA IInvHolds == Spec => []IInv
BY InitIInv, NextIInv, PTL DEF Spec

\* A lease, a date and a reason are on a row exactly while its status gives them
\* a meaning, after every claim, completion, failure and sweep.
THEOREM RowsStayWhole == Spec => []RowsAreWhole
BY IInvHolds, PTL DEF IInv

\* No job ever waits without an attempt left, whatever pauses it went through.
THEOREM NothingIsStranded == Spec => []NothingStranded
BY IInvHolds, PTL DEF IInv

\* LEASE_LOST is said only when every attempt was spent, and one delivery is
\* stored for a completed job and none for any other.
THEOREM EndsStayEarned == Spec => []EndsAreEarned
BY IInvHolds, PTL DEF IInv

-----------------------------------------------------------------------------
(* What a step may never do.                                               *)

\* A lease that still runs.
Live(row) == row.status = "LEASED" /\ row.lease_expires_at > 0

LEMMA LiveIsNotExpired ==
  ASSUME NEW row \in JobRow, WholeRow(row), Live(row), NEW lag \in Lags
  PROVE  ~Expired(row, lag)
BY ConstantsAssumption DEF Live, WholeRow, Expired, JobRow, Countdown, Lags

LEMMA RowStepHonoursLease ==
  ASSUME NEW k \in Jobs, SoundJob(jobs[k], artifacts[k]), Live(jobs[k]), RowStep(k)
  PROVE  \/ /\ jobs'[k].status = "LEASED"
            /\ jobs'[k].lease_owner = jobs[k].lease_owner
            /\ jobs'[k].attempt = jobs[k].attempt
         \/ jobs'[k].status = "COMPLETED" /\ artifacts'[k] = <<jobs[k].lease_owner>>
         \/ jobs'[k].status \in {"FAILED", "PAUSED"} /\ jobs'[k].failure_code \in Codes
<1>0. jobs[k] \in JobRow /\ jobs[k].status = "LEASED"
  BY DEF SoundJob, Live
<1>1. CASE Quiet(k)
  BY <1>0, <1>1 DEF Quiet
<1>2. CASE Submits(k)
  BY <1>0, <1>2 DEF Submits
<1>3. CASE Claims(k)
  BY <1>0, <1>3, LiveIsNotExpired DEF Claims, Candidate, SoundJob
<1>4. CASE Renews(k)
  BY <1>0, <1>4 DEF Renews, Renewed, JobRow
<1>5. CASE Delivers(k)
  <2>1. artifacts[k] = << >>
    BY <1>0, EmptySeq DEF SoundJob
  <2> QED BY <1>0, <1>5, <2>1 DEF Delivers, Completed, Owned, JobRow
<1>6. CASE Fails(k)
  BY <1>0, <1>6 DEF Fails, Failed, JobRow
<1>7. CASE Swept(k)
  <2>1. PICK lag \in Lags : jobs'[k] = Unstuck(Woken(jobs[k], lag), lag)
    BY <1>7 DEF Swept
  <2>2. Woken(jobs[k], lag) = jobs[k]
    BY <1>0 DEF Woken
  <2>3. ~Stuck(jobs[k], lag)
    BY <1>0, LiveIsNotExpired DEF Stuck, SoundJob
  <2> QED BY <1>0, <2>1, <2>2, <2>3 DEF Unstuck
<1>8. CASE Ages(k)
  BY <1>0, <1>8 DEF Ages, OlderRow, JobRow
<1> QED BY <1>1, <1>2, <1>3, <1>4, <1>5, <1>6, <1>7, <1>8 DEF RowStep

\* No claim, sweep, lagging clock or other worker ends a lease that is running.
THEOREM LeasesAreHonoured == Spec => LiveLeaseIsHonoured
<1> DEFINE Honoured ==
      \A j \in Jobs :
       jobs[j].status = "LEASED" /\ jobs[j].lease_expires_at > 0 =>
         \/ /\ jobs'[j].status = "LEASED"
            /\ jobs'[j].lease_owner = jobs[j].lease_owner
            /\ jobs'[j].attempt = jobs[j].attempt
         \/ jobs'[j].status = "COMPLETED" /\ artifacts'[j] = <<jobs[j].lease_owner>>
         \/ jobs'[j].status \in {"FAILED", "PAUSED"} /\ jobs'[j].failure_code \in Codes
<1>1. IInv /\ [Next]_vars => [Honoured]_vars
  <2> SUFFICES ASSUME IInv, [Next]_vars
               PROVE  Honoured
    OBVIOUS
  <2>1. \A k \in Jobs : SoundJob(jobs[k], artifacts[k]) /\ RowStep(k)
    BY IInvIsAboutJobs, NextIsRowSteps DEF IInv
  <2> QED BY <2>1, RowStepHonoursLease DEF Live
<1> QED BY <1>1, IInvHolds, PTL DEF Spec, LiveLeaseIsHonoured

\* A step leaves the row of a job that has ended, and its delivery, as they were.
EndStep ==
  \A j \in Jobs :
    jobs[j].status \in {"COMPLETED", "FAILED"} =>
      jobs'[j] = jobs[j] /\ artifacts'[j] = artifacts[j]

LEMMA EndedRowsAreQuiet ==
  ASSUME NEW k \in Jobs, jobs[k] \in JobRow, WholeRow(jobs[k]),
         jobs[k].status \in {"COMPLETED", "FAILED"}, RowStep(k)
  PROVE  Quiet(k)
<1>1. jobs[k].lease_expires_at = None /\ jobs[k].retry_after = None
  BY DEF WholeRow
<1>2. ~(Submits(k) \/ Claims(k) \/ Renews(k) \/ Delivers(k) \/ Fails(k))
  BY DEF Submits, Claims, Candidate, Expired, Renews, Delivers, Fails, Owned
<1>3. CASE Swept(k)
  <2>1. PICK lag \in Lags : jobs'[k] = Unstuck(Woken(jobs[k], lag), lag)
    BY <1>3 DEF Swept
  <2>2. Woken(jobs[k], lag) = jobs[k] /\ ~Stuck(jobs[k], lag)
    BY DEF Woken, Stuck, Expired
  <2> QED BY <1>3, <2>1, <2>2 DEF Unstuck, Swept, Quiet
<1>4. CASE Ages(k)
  <2>1. OlderRow(jobs[k]) = jobs[k]
    BY <1>1 DEF OlderRow, Older, JobRow
  <2> QED BY <1>4, <2>1 DEF Ages, Quiet
<1> QED BY <1>2, <1>3, <1>4 DEF RowStep

LEMMA EndsAreLeftAlone ==
  ASSUME IInv, [Next]_vars
  PROVE  EndStep
<1> SUFFICES ASSUME NEW k \in Jobs, jobs[k].status \in {"COMPLETED", "FAILED"}
             PROVE  Quiet(k)
  BY DEF EndStep, Quiet
<1>1. SoundJob(jobs[k], artifacts[k]) /\ RowStep(k)
  BY IInvIsAboutJobs, NextIsRowSteps DEF IInv
<1> QED BY <1>1, EndedRowsAreQuiet DEF SoundJob

\* A job ends once: after it, no late report, retried completion, sweep, claim or
\* second enqueue changes what its row says or what was delivered for it.
THEOREM EndsAreFinal == Spec => [][EndStep]_vars
BY EndsAreLeftAlone, IInvHolds, PTL DEF Spec

-----------------------------------------------------------------------------
(* The rows implement JobLifecycle.  Each way a row may change is one step *)
(* of the abstract job, or leaves it alone.                                *)

\* The abstract job of k takes a step or stutters.
Promised(k) == [Lifecycle(k)!Next]_(Lifecycle(k)!vars)

LEMMA QuietIsPromised ==
  ASSUME NEW k \in Jobs, Quiet(k)
  PROVE  Promised(k)
BY DEF Promised, Quiet, Lifecycle!vars, Spent, Lapsed

LEMMA SubmitIsPromised ==
  ASSUME NEW k \in Jobs, SoundJob(jobs[k], artifacts[k]), Submits(k)
  PROVE  Promised(k)
<1>1. /\ jobs[k].status = "ABSENT" /\ jobs[k].attempt = 0
      /\ jobs[k].lease_owner = None /\ jobs[k].lease_expires_at = None
  BY DEF Submits, SoundJob, Unstranded, WholeRow
<1>2. /\ jobs'[k].status = "PENDING" /\ jobs'[k].attempt = 0
      /\ jobs'[k].lease_owner = None /\ jobs'[k].lease_expires_at = None
  BY DEF Submits, NoJob
<1>3. Lifecycle(k)!Submit
  BY <1>1, <1>2 DEF Submits, Lifecycle!Submit, Stage, Lapsed, Spent
<1> QED BY <1>3 DEF Promised, Lifecycle!Next

LEMMA ClaimIsPromised ==
  ASSUME NEW k \in Jobs, SoundJob(jobs[k], artifacts[k]), Claims(k)
  PROVE  Promised(k)
<1>1. PICK w \in Workers, lag \in Lags :
        Candidate(jobs[k], lag) /\ jobs'[k] = Granted(jobs[k], w, lag)
  BY DEF Claims
<1>2. jobs[k] \in JobRow /\ artifacts'[k] = artifacts[k]
  BY DEF SoundJob, Claims
<1>3. /\ jobs'[k].status = "LEASED" /\ jobs'[k].lease_owner = w
      /\ jobs'[k].attempt = jobs[k].attempt + 1
      /\ jobs'[k].lease_expires_at = LeaseSeconds - lag
  BY <1>1, <1>2 DEF Granted, JobRow
<1>4. ~Lapsed(k)'
  BY <1>3, NumbersAreDates DEF Lapsed, Countdown
<1>5. jobs[k].attempt \in Nat /\ jobs[k].attempt < MaxAttempts
  BY <1>1, <1>2, ConstantsAssumption DEF Candidate, JobRow
<1>6. CASE jobs[k].status = "PENDING"
  <2>1. ~Lapsed(k)
    BY <1>6 DEF Lapsed, SoundJob, WholeRow
  <2>2. Lifecycle(k)!Grant(w)
    BY <1>2, <1>3, <1>4, <1>5, <1>6, <2>1 DEF Lifecycle!Grant, Stage, Spent, Lapsed
  <2> QED BY <2>2 DEF Promised, Lifecycle!Next
<1>7. CASE Expired(jobs[k], lag)
  <2>1. jobs[k].status = "LEASED" /\ Lapsed(k)
    BY <1>2, <1>7, ConstantsAssumption DEF Expired, Lapsed, JobRow, Countdown, Lags
  <2>2. Lifecycle(k)!EndSilence
    BY <1>2, <1>3, <1>4, <1>5, <2>1 DEF Lifecycle!EndSilence, Stage, Spent
  <2> QED BY <2>2 DEF Promised, Lifecycle!Next
<1> QED BY <1>1, <1>6, <1>7 DEF Candidate

LEMMA HolderIsPromised ==
  ASSUME NEW k \in Jobs, SoundJob(jobs[k], artifacts[k]),
         Renews(k) \/ Delivers(k) \/ Fails(k)
  PROVE  Promised(k)
<1>1. /\ jobs[k] \in JobRow /\ jobs[k].status = "LEASED" /\ ~Lapsed(k)
      /\ jobs[k].attempt \in 1 .. MaxAttempts
  <2>1. PICK w \in Workers : Owned(w, k)
    BY DEF Renews, Delivers, Fails
  <2> QED BY <2>1, ConstantsAssumption
          DEF Owned, Lapsed, SoundJob, Unstranded, JobRow, Countdown
<1>2. CASE Renews(k)
  <2>1. /\ jobs'[k].status = "LEASED" /\ jobs'[k].lease_owner = jobs[k].lease_owner
        /\ jobs'[k].attempt = jobs[k].attempt /\ jobs'[k].lease_expires_at = LeaseSeconds
        /\ artifacts'[k] = artifacts[k]
    BY <1>1, <1>2 DEF Renews, Renewed, JobRow
  <2>2. ~Lapsed(k)'
    BY <2>1, ConstantsAssumption DEF Lapsed
  <2> QED BY <1>1, <2>1, <2>2 DEF Promised, Lifecycle!vars, Spent, Lapsed
<1>3. CASE Delivers(k)
  <2>1. /\ jobs'[k].status = "COMPLETED" /\ jobs'[k].lease_owner = None
        /\ jobs'[k].attempt = jobs[k].attempt /\ jobs'[k].lease_expires_at = None
        /\ artifacts'[k] = Append(artifacts[k], jobs[k].lease_owner)
    BY <1>1, <1>3 DEF Delivers, Owned, Completed, JobRow
  <2>2. Lifecycle(k)!Deliver
    BY <1>1, <2>1 DEF Lifecycle!Deliver, Stage, Lapsed, Spent
  <2> QED BY <2>2 DEF Promised, Lifecycle!Next
<1>4. CASE Fails(k)
  <2>1. PICK code \in Codes, retry_after \in Countdown \cup {None} :
          jobs'[k] = Failed(jobs[k], code, retry_after)
    BY <1>4 DEF Fails
  <2>2. /\ jobs'[k].lease_owner = None /\ jobs'[k].lease_expires_at = None
        /\ jobs'[k].failure_code # LeaseLost
        /\ artifacts'[k] = artifacts[k]
    <3>1. code # LeaseLost /\ artifacts'[k] = artifacts[k]
      BY <1>4, ConstantsAssumption DEF Fails
    <3> QED BY <1>1, <2>1, <3>1 DEF Failed, JobRow
  <2>3. CASE retry_after = None
    <3>1. jobs'[k].status = "FAILED" /\ jobs'[k].attempt = jobs[k].attempt
      BY <1>1, <2>1, <2>3 DEF Failed, JobRow
    <3>2. Lifecycle(k)!GiveUp
      BY <1>1, <2>2, <3>1 DEF Lifecycle!GiveUp, Stage, Lapsed, Spent
    <3> QED BY <3>2 DEF Promised, Lifecycle!Next
  <2>4. CASE retry_after # None
    <3>1. jobs'[k].status = "PAUSED" /\ jobs'[k].attempt = jobs[k].attempt - 1
      BY <1>1, <2>1, <2>4 DEF Failed, JobRow
    <3>2. Lifecycle(k)!Rest
      BY <1>1, <2>2, <3>1 DEF Lifecycle!Rest, Stage, Lapsed, Spent
    <3> QED BY <3>2 DEF Promised, Lifecycle!Next
  <2> QED BY <2>3, <2>4
<1> QED BY <1>2, <1>3, <1>4

LEMMA SweepIsPromised ==
  ASSUME NEW k \in Jobs, SoundJob(jobs[k], artifacts[k]), Swept(k)
  PROVE  Promised(k)
<1>1. PICK lag \in Lags : jobs'[k] = Unstuck(Woken(jobs[k], lag), lag)
  BY DEF Swept
<1>2. /\ jobs[k] \in JobRow /\ jobs[k].attempt \in Nat /\ MaxAttempts \in Nat
      /\ artifacts'[k] = artifacts[k]
  BY ConstantsAssumption DEF SoundJob, JobRow, Swept
<1>3. CASE Woken(jobs[k], lag) # jobs[k]
  <2>1. jobs[k].status = "PAUSED" /\ jobs[k].attempt < MaxAttempts
    BY <1>3 DEF Woken, SoundJob, Unstranded
  <2>2. jobs[k].lease_owner = None /\ jobs[k].lease_expires_at = None
    BY <2>1 DEF SoundJob, WholeRow
  <2>3. /\ Woken(jobs[k], lag).status = "PENDING"
        /\ Woken(jobs[k], lag).attempt = jobs[k].attempt
        /\ Woken(jobs[k], lag).lease_owner = None
        /\ Woken(jobs[k], lag).lease_expires_at = None
    BY <1>2, <1>3, <2>2 DEF Woken, JobRow
  <2>4. jobs'[k] = Woken(jobs[k], lag)
    BY <1>1, <1>2, <2>1, <2>3 DEF Unstuck, Stuck, Expired
  <2>5. Lifecycle(k)!Wake
    BY <1>2, <2>1, <2>2, <2>3, <2>4 DEF Lifecycle!Wake, Stage, Lapsed, Spent
  <2> QED BY <2>5 DEF Promised, Lifecycle!Next
<1>4. CASE Woken(jobs[k], lag) = jobs[k] /\ ~Stuck(jobs[k], lag)
  BY <1>1, <1>2, <1>4, QuietIsPromised DEF Unstuck, Quiet
<1>5. CASE Woken(jobs[k], lag) = jobs[k] /\ Stuck(jobs[k], lag)
  <2>1. jobs[k].status = "LEASED" /\ Expired(jobs[k], lag)
    BY <1>2, <1>5 DEF Stuck, Expired, SoundJob, Unstranded
  <2>2. Lapsed(k)
    BY <1>2, <2>1, ConstantsAssumption DEF Expired, Lapsed, JobRow, Countdown, Lags
  <2>3. /\ jobs'[k].lease_owner = None /\ jobs'[k].lease_expires_at = None
        /\ jobs'[k].attempt = jobs[k].attempt
        /\ \/ jobs'[k].status = "PENDING" /\ jobs[k].attempt < MaxAttempts
           \/ /\ jobs'[k].status = "FAILED" /\ jobs'[k].failure_code = LeaseLost
              /\ jobs[k].attempt = MaxAttempts
    BY <1>1, <1>2, <1>5 DEF Unstuck, JobRow
  <2>4. Lifecycle(k)!EndSilence
    BY <1>2, <2>1, <2>2, <2>3 DEF Lifecycle!EndSilence, Stage, Lapsed, Spent
  <2> QED BY <2>4 DEF Promised, Lifecycle!Next
<1> QED BY <1>3, <1>4, <1>5

LEMMA AgeIsPromised ==
  ASSUME NEW k \in Jobs, SoundJob(jobs[k], artifacts[k]), Ages(k)
  PROVE  Promised(k)
<1>1. /\ jobs[k] \in JobRow
      /\ jobs'[k].status = jobs[k].status /\ jobs'[k].attempt = jobs[k].attempt
      /\ jobs'[k].lease_owner = jobs[k].lease_owner
      /\ jobs'[k].failure_code = jobs[k].failure_code
      /\ jobs'[k].lease_expires_at = Older(jobs[k].lease_expires_at)
      /\ artifacts'[k] = artifacts[k]
  BY DEF Ages, OlderRow, SoundJob, JobRow
<1>2. Lapsed(k) => Lapsed(k)'
  BY <1>1, ConstantsAssumption DEF Lapsed, Older, JobRow, Countdown
<1>3. CASE Lapsed(k) = Lapsed(k)'
  BY <1>1, <1>3 DEF Promised, Lifecycle!vars, Spent
<1>4. CASE ~Lapsed(k) /\ Lapsed(k)'
  <2>1. jobs[k].status = "LEASED"
    BY <1>1, <1>4 DEF Lapsed, Older, SoundJob, WholeRow
  <2>2. Lifecycle(k)!FallSilent
    BY <1>1, <1>4, <2>1 DEF Lifecycle!FallSilent, Stage, Spent
  <2> QED BY <2>2 DEF Promised, Lifecycle!Next
<1> QED BY <1>2, <1>3, <1>4 DEF Lapsed

LEMMA InitIsPromised == Init => \A k \in Jobs : Lifecycle(k)!Init
<1> SUFFICES ASSUME Init, NEW k \in Jobs
             PROVE  Lifecycle(k)!Init
  OBVIOUS
<1>1. jobs[k] = NoJob /\ artifacts[k] = << >>
  BY DEF Init
<1> QED BY <1>1 DEF Lifecycle!Init, NoJob, Stage, Lapsed, Spent

\* The SQL service implements JobLifecycle for each of its jobs, for any number
\* of workers, attempts and seconds: a hold ends only in its holder's word or in
\* a counted silence, and a job is delivered at most once.
THEOREM ServiceKeepsThePromise == Spec => EveryJobKeepsThePromise
<1>1. IInv /\ [Next]_vars => [PromiseStep]_vars
  <2> SUFFICES ASSUME IInv, [Next]_vars
               PROVE  PromiseStep
    OBVIOUS
  <2>1. ASSUME NEW k \in Jobs
        PROVE  Promised(k)
    <3>1. SoundJob(jobs[k], artifacts[k]) /\ RowStep(k)
      BY IInvIsAboutJobs, NextIsRowSteps DEF IInv
    <3> QED BY <3>1, QuietIsPromised, SubmitIsPromised, ClaimIsPromised,
               HolderIsPromised, SweepIsPromised, AgeIsPromised DEF RowStep
  <2> QED BY <2>1 DEF PromiseStep, Promised
<1>2. Init => (\A j \in Jobs : Lifecycle(j)!Init)
  BY InitIsPromised
<1> QED BY <1>1, <1>2, IInvHolds, PTL DEF Spec, EveryJobKeepsThePromise


-----------------------------------------------------------------------------
(* The diagnosis.                                                          *)

\* An accepted machine fails at no gate exactly if a claim of it would be served,
\* and at the last one only for want of a slot.
LEMMA BlockersAreGates ==
  ASSUME NEW j \in Jobs, NEW row \in WorkerRow, row.accepted
  PROVE  /\ Blocker(row, j) = None <=> row.slots /\ Serves(row, j, 0)
         /\ Blocker(row, j) = "WORKER_LEASE_CAPACITY_EXHAUSTED" => Serves(row, j, 0)
         /\ Blocker(row, j) = "WORKER_CODEX_UNAVAILABLE" =>
              ~Serves(row, j, 0) /\ Serves([row EXCEPT !.codex = None], j, 0)
<1>1. None \notin Causes
  BY CausesAssumption
<1>2. UnmetCapabilities(row.manifest, Needs[j].keys) = {} <=>
        /\ ~(Needs[j].keys # {} /\ row.manifest = None)
        /\ ~(row.manifest # None /\ ~(Needs[j].keys \subseteq row.manifest))
  BY DEF UnmetCapabilities
<1> DEFINE reachable == NeedsTheModel(j) => CodexIsReachable(row.codex, 0)
           able == /\ Needs[j].capabilities \subseteq row.capabilities
                   /\ Needs[j].cad_ir \in row.cad_ir
                   /\ UnmetCapabilities(row.manifest, Needs[j].keys) = {}
<1>3. Serves(row, j, 0) <=> able /\ reachable
  BY DEF Serves, NeedsTheModel
<1>4. able => Serves([row EXCEPT !.codex = None], j, 0)
  BY DEF Serves, CodexIsReachable, WorkerRow
<1>5. /\ Blocker(row, j) = None <=> row.slots /\ able /\ reachable
      /\ Blocker(row, j) = "WORKER_LEASE_CAPACITY_EXHAUSTED" => able /\ reachable
      /\ Blocker(row, j) = "WORKER_CODEX_UNAVAILABLE" => able /\ ~reachable
  <2> HIDE DEF reachable
  <2>1. NeedsTheModel(j) /\ ~CodexIsReachable(row.codex, 0) <=> ~reachable
    BY DEF reachable
  <2> QED BY <1>1, <1>2, <2>1 DEF Blocker, Causes
<1> QED BY <1>3, <1>4, <1>5

\* What a claim may take is neither settled nor in progress.
LEMMA CandidateIsOpen ==
  ASSUME NEW row \in JobRow, Candidate(row, 0)
  PROVE  /\ row.status # "COMPLETED"
         /\ ~(row.status = "LEASED" /\ row.lease_expires_at > 0)
<1>1. CASE row.status = "PENDING"
  BY <1>1
<1>2. CASE Expired(row, 0)
  BY <1>2, ConstantsAssumption DEF Expired, JobRow, Countdown
<1> QED BY <1>1, <1>2 DEF Candidate

\* A lease has not expired exactly while it runs.
LEMMA RunningIsNotExpired ==
  ASSUME NEW row \in JobRow, WholeRow(row), row.status = "LEASED"
  PROVE  row.lease_expires_at > 0 <=> ~Expired(row, 0)
BY ConstantsAssumption DEF WholeRow, Expired, JobRow, Countdown

LEMMA SoundRowsAreDiagnosed == IInv => DiagnosisAgreesWithClaim
<1> SUFFICES ASSUME IInv, NEW j \in Jobs,
                    NEW online \in SUBSET {w \in Enrolled : workers[w].accepted}
             PROVE  /\ Claimability(j, online) = "IN_PROGRESS" <=>
                         jobs[j].status = "LEASED" /\ ~Expired(jobs[j], 0)
                    /\ Candidate(jobs[j], 0) =>
                         /\ Claimability(j, online) = "CLAIMABLE"
                              <=> \E w \in online : WouldTake(w, j)
                         /\ Summary(j, online) = "AFTER ANOTHER JOB" =>
                              \E w \in online : Serves(workers[w], j, 0)
                         /\ Summary(j, online) = "PAUSED FOR NOW" =>
                              \A w \in online :
                                /\ ~Serves(workers[w], j, 0)
                                /\ Serves([workers[w] EXCEPT !.codex = None], j, 0)
  BY DEF DiagnosisAgreesWithClaim
<1>1. jobs[j] \in JobRow /\ WholeRow(jobs[j])
  BY DEF IInv, TypeOK, RowsAreWhole
<1>2. \A w \in online : workers[w] \in WorkerRow /\ workers[w].accepted
  BY DEF IInv, TypeOK, Enrolled
<1>3. \A w \in online :
        /\ Blocker(workers[w], j) = None <=> WouldTake(w, j)
        /\ Blocker(workers[w], j) = "WORKER_LEASE_CAPACITY_EXHAUSTED" =>
             Serves(workers[w], j, 0)
        /\ Blocker(workers[w], j) = "WORKER_CODEX_UNAVAILABLE" =>
             ~Serves(workers[w], j, 0) /\ Serves([workers[w] EXCEPT !.codex = None], j, 0)
  BY <1>2, BlockersAreGates DEF WouldTake
<1>4. None \in Blockers(j, online) <=> \E w \in online : WouldTake(w, j)
  BY <1>3 DEF Blockers
<1>5. ASSUME Candidate(jobs[j], 0)
      PROVE  Claimability(j, online) = "CLAIMABLE" <=> \E w \in online : WouldTake(w, j)
  BY <1>1, <1>4, <1>5, CandidateIsOpen DEF Claimability
<1>6. Summary(j, online) = "AFTER ANOTHER JOB" => \E w \in online : Serves(workers[w], j, 0)
  <2>1. Summary(j, online) = "AFTER ANOTHER JOB" =>
          "WORKER_LEASE_CAPACITY_EXHAUSTED" \in Blockers(j, online)
    BY DEF Summary
  <2> QED BY <1>3, <2>1 DEF Blockers
<1>7. Summary(j, online) = "PAUSED FOR NOW" =>
        \A w \in online : /\ ~Serves(workers[w], j, 0)
                          /\ Serves([workers[w] EXCEPT !.codex = None], j, 0)
  <2>1. Summary(j, online) = "PAUSED FOR NOW" =>
          Blockers(j, online) = {"WORKER_CODEX_UNAVAILABLE"}
    BY DEF Summary
  <2> QED BY <1>3, <2>1 DEF Blockers
<1>8. Claimability(j, online) = "IN_PROGRESS"
        <=> jobs[j].status = "LEASED" /\ jobs[j].lease_expires_at > 0
  BY DEF Claimability
<1>9. jobs[j].status = "LEASED" /\ jobs[j].lease_expires_at > 0
        <=> jobs[j].status = "LEASED" /\ ~Expired(jobs[j], 0)
  BY <1>1, RunningIsNotExpired
<1> QED BY <1>5, <1>6, <1>7, <1>8, <1>9

\* Whatever the fleet went through, a job that waits is reported as claimable
\* exactly if a claim by a machine online on an accepted build would be given it,
\* as in progress exactly while no claim would, and its customer is told the cause
\* (workers/diagnostics.py, _worker_blockers and _summary).
THEOREM DiagnosesAreRight == Spec => []DiagnosisAgreesWithClaim
BY IInvHolds, SoundRowsAreDiagnosed, PTL

-----------------------------------------------------------------------------
(* The in-memory service, row by row.                                      *)

\* A row that waits and has an attempt to wait for.
Spare(row) == row.status = "PENDING" => row.attempt < MaxAttempts

MemSound(row, delivered) ==
  /\ row \in JobRow /\ delivered \in Seq(Workers)
  /\ WholeRow(row)
  /\ row.status # "PENDING" => Unstranded(row)
  /\ row.failure_code = LeaseLost => row.attempt = MaxAttempts
  /\ Len(delivered) = IF row.status = "COMPLETED" THEN 1 ELSE 0

\* A machine that never spoke of Codex has nothing on its row.
Unheard == \A w \in Workers : w \notin spoken => workers[w].codex = None

MemInv ==
  /\ TypeOK /\ Unheard
  /\ \A k \in Jobs : MemSound(jobs[k], artifacts[k])

Returns(k) ==
  /\ \E lag \in Lags : jobs'[k] = Returned(jobs[k], lag)
  /\ artifacts'[k] = artifacts[k]

\* A row that waits for nothing is given up.
Exhausts(k) ==
  /\ jobs'[k] = [jobs[k] EXCEPT !.status = "FAILED", !.lease_owner = None,
                                !.lease_expires_at = None, !.failure_code = LeaseLost]
  /\ artifacts'[k] = artifacts[k]

LEMMA SpareRowsAreSound ==
  ASSUME NEW row, NEW delivered
  PROVE  /\ SoundJob(row, delivered) => MemSound(row, delivered)
         /\ MemSound(row, delivered) /\ Spare(row) => SoundJob(row, delivered)
BY DEF SoundJob, MemSound, Spare, Unstranded

\* The in-memory sweep looks at a row once; what it resumes has an attempt left,
\* so a second look would find nothing to do.
LEMMA OneLookIsEnough ==
  ASSUME NEW row \in JobRow, row.status # "PENDING" => Unstranded(row), NEW lag \in Lags
  PROVE  MemSwept(row, lag) = Unstuck(Woken(row, lag), lag)
<1>1. CASE Woken(row, lag) = row
  BY <1>1 DEF MemSwept
<1>2. CASE Woken(row, lag) # row
  <2>1. row.status = "PAUSED" /\ row.attempt < MaxAttempts
    BY <1>2 DEF Woken, Unstranded
  <2>2. Woken(row, lag).status = "PENDING" /\ Woken(row, lag).attempt = row.attempt
    BY <1>2, <2>1 DEF Woken, JobRow
  <2>3. row.attempt \in Int /\ MaxAttempts \in Int
    BY ConstantsAssumption DEF JobRow
  <2>4. ~Stuck(Woken(row, lag), lag)
    BY <2>1, <2>2, <2>3 DEF Stuck, Expired
  <2> QED BY <1>2, <2>4 DEF MemSwept, Unstuck
<1> QED BY <1>1, <1>2

\* A grant looks the same whether the lapsed lease was returned first or not.
LEMMA TakenIsCandidate ==
  ASSUME NEW row \in JobRow, NEW lag \in Lags, NEW w \in Workers,
         Returned(row, lag).status = "PENDING", row.attempt < MaxAttempts
  PROVE  Candidate(row, lag) /\ Granted(Returned(row, lag), w, lag) = Granted(row, w, lag)
<1>1. row.status = "PENDING" \/ Expired(row, lag)
  BY DEF Returned
<1>2. CASE ~Expired(row, lag)
  BY <1>1, <1>2 DEF Returned, Candidate
<1>3. CASE Expired(row, lag)
  BY <1>3 DEF Returned, Granted, Candidate, JobRow
<1> QED BY <1>2, <1>3

LEMMA MemNextIsRowSteps ==
  ASSUME MemInv, [MemNext]_memvars, NEW k \in Jobs
  PROVE  RowStep(k) \/ Returns(k)
<1>0. /\ jobs \in [Jobs -> JobRow] /\ artifacts \in [Jobs -> Seq(Workers)]
      /\ MemSound(jobs[k], artifacts[k])
  BY DEF MemInv, TypeOK
<1> USE DEF RowStep
<1>1. ASSUME NEW j \in Jobs, Enqueue(j)
      PROVE  RowStep(k)
  <2>1. k = j => Submits(k)
    BY <1>0, <1>1 DEF Enqueue, Submits
  <2>2. k # j => Quiet(k)
    BY <1>0, <1>1 DEF Enqueue, Quiet
  <2> QED BY <2>1, <2>2
<1>2. ASSUME NEW w \in Workers, NEW accepted \in Builds, MemRegister(w, accepted)
      PROVE  RowStep(k)
  BY <1>2 DEF MemRegister, Quiet
<1>3. ASSUME NEW w \in Workers, NEW report \in Reports, Heartbeat(w, report)
      PROVE  RowStep(k)
  BY <1>3 DEF Heartbeat, Quiet
<1>4. ASSUME NEW w \in Workers, NEW report \in Reports, NEW lag \in Lags,
             MemClaim(w, report, lag)
      PROVE  RowStep(k) \/ Returns(k)
  <2> DEFINE rows(n) == [j \in Jobs |-> IF j \in Passed(n) THEN Returned(jobs[j], lag)
                                        ELSE jobs[j]]
  <2>1. artifacts' = artifacts
    BY <1>4 DEF MemClaim
  <2>2. ASSUME NEW n, jobs'[k] = rows(n)[k]
        PROVE  Quiet(k) \/ Returns(k)
    BY <2>1, <2>2 DEF Quiet, Returns
  <2>3. ASSUME NEW n, Taken(Heard(w, report), order[n], lag),
               jobs' = [rows(n) EXCEPT ![order[n]] = Granted(@, w, lag)]
        PROVE  RowStep(k) \/ Returns(k)
    <3>1. CASE k # order[n]
      <4>1. jobs'[k] = rows(n)[k]
        BY <2>3, <3>1
      <4> QED BY <2>2, <4>1
    <3>2. CASE k = order[n]
      <4>1. jobs'[k] = Granted(rows(n)[k], w, lag)
        BY <2>3, <3>2
      <4>2. /\ Candidate(jobs[k], lag)
            /\ Granted(Returned(jobs[k], lag), w, lag) = Granted(jobs[k], w, lag)
        BY <1>0, <2>3, <3>2, TakenIsCandidate DEF Taken
      <4>3. jobs'[k] = Granted(jobs[k], w, lag)
        BY <4>1, <4>2
      <4> QED BY <2>1, <4>2, <4>3 DEF Claims
    <3> QED BY <3>1, <3>2
  <2>4. \/ \E n : jobs' = rows(n)
        \/ \E n : /\ Taken(Heard(w, report), order[n], lag)
                  /\ jobs' = [rows(n) EXCEPT ![order[n]] = Granted(@, w, lag)]
    BY <1>4 DEF MemClaim
  <2> QED BY <2>2, <2>3, <2>4
<1>5. ASSUME NEW w \in Workers, NEW j \in Jobs, RenewLease(w, j)
      PROVE  RowStep(k)
  <2>1. k = j => Renews(k)
    BY <1>0, <1>5 DEF RenewLease, Renews
  <2>2. k # j => Quiet(k)
    BY <1>0, <1>5 DEF RenewLease, Quiet
  <2> QED BY <2>1, <2>2
<1>6. ASSUME NEW w \in Workers, NEW j \in Jobs, CompleteWithArtifacts(w, j)
      PROVE  RowStep(k)
  <2>1. k = j => Delivers(k)
    BY <1>0, <1>6 DEF CompleteWithArtifacts, Delivers
  <2>2. k # j => Quiet(k)
    BY <1>0, <1>6 DEF CompleteWithArtifacts, Quiet
  <2> QED BY <2>1, <2>2
<1>7. ASSUME NEW w \in Workers, NEW j \in Jobs, NEW code \in Codes,
             NEW retry_after \in Countdown \cup {None}, Fail(w, j, code, retry_after)
      PROVE  RowStep(k)
  <2>1. k = j => Fails(k)
    BY <1>0, <1>7 DEF Fail, Fails
  <2>2. k # j => Quiet(k)
    BY <1>0, <1>7 DEF Fail, Quiet
  <2> QED BY <2>1, <2>2
<1>8. ASSUME NEW lag \in Lags, MemReap(lag)
      PROVE  RowStep(k)
  <2>1. jobs'[k] = Unstuck(Woken(jobs[k], lag), lag)
    BY <1>0, <1>8, OneLookIsEnough DEF MemReap, MemSound
  <2> QED BY <1>8, <2>1 DEF MemReap, Swept
<1>9. CASE Tick
  BY <1>9 DEF Tick, Ages
<1>10. CASE UNCHANGED memvars
  BY <1>10 DEF memvars, Quiet
<1> QED BY <1>1, <1>2, <1>3, <1>4, <1>5, <1>6, <1>7, <1>8, <1>9, <1>10
        DEF MemNext, MemEnqueue, MemHolderActs

\* A row that waits for nothing stands until the sweep gives it up.
LEMMA SpentRowsOnlyEnd ==
  ASSUME NEW k \in Jobs, MemSound(jobs[k], artifacts[k]), ~Spare(jobs[k]),
         RowStep(k) \/ Returns(k)
  PROVE  Quiet(k) \/ Exhausts(k)
<1>1. /\ jobs[k] \in JobRow /\ jobs[k].status = "PENDING" /\ jobs[k].attempt = MaxAttempts
      /\ jobs[k].lease_expires_at = None /\ jobs[k].retry_after = None
  BY ConstantsAssumption DEF MemSound, Spare, WholeRow, JobRow
<1>2. CASE Quiet(k) \/ Submits(k) \/ Claims(k) \/ Renews(k) \/ Delivers(k) \/ Fails(k)
  BY <1>1, <1>2, ConstantsAssumption
     DEF Submits, Claims, Candidate, Renews, Delivers, Fails, Owned
<1>3. CASE Swept(k)
  <2>1. PICK lag \in Lags : jobs'[k] = Unstuck(Woken(jobs[k], lag), lag)
    BY <1>3 DEF Swept
  <2>2. Woken(jobs[k], lag) = jobs[k] /\ Stuck(jobs[k], lag)
    BY <1>1, ConstantsAssumption DEF Woken, Stuck
  <2> QED BY <1>1, <1>3, <2>1, <2>2, ConstantsAssumption DEF Unstuck, Swept, Exhausts
<1>4. CASE Ages(k)
  <2>1. OlderRow(jobs[k]) = jobs[k]
    BY <1>1 DEF OlderRow, Older, JobRow
  <2> QED BY <1>4, <2>1 DEF Ages, Quiet
<1>5. CASE Returns(k)
  BY <1>1, <1>5 DEF Returns, Returned, Expired, Quiet
<1> QED BY <1>2, <1>3, <1>4, <1>5 DEF RowStep

LEMMA ExhaustsIsSound ==
  ASSUME NEW k \in Jobs, MemSound(jobs[k], artifacts[k]), ~Spare(jobs[k]), Exhausts(k)
  PROVE  MemSound(jobs'[k], artifacts'[k]) /\ Promised(k)
<1>1. /\ jobs[k] \in JobRow /\ jobs[k].status = "PENDING" /\ jobs[k].attempt = MaxAttempts
      /\ jobs[k].lease_owner = None
      /\ jobs[k].lease_expires_at = None /\ jobs[k].retry_after = None
  BY ConstantsAssumption DEF MemSound, Spare, WholeRow, JobRow
<1>2. /\ jobs'[k] \in JobRow /\ jobs'[k].status = "FAILED" /\ jobs'[k].attempt = MaxAttempts
      /\ jobs'[k].lease_owner = None /\ jobs'[k].lease_expires_at = None
      /\ jobs'[k].retry_after = None /\ jobs'[k].failure_code = LeaseLost
      /\ artifacts'[k] = artifacts[k]
  BY <1>1 DEF Exhausts, JobRow, Statuses
<1>3. MemSound(jobs'[k], artifacts'[k])
  BY <1>1, <1>2, ConstantsAssumption DEF MemSound, WholeRow, Unstranded
<1>4. Lifecycle(k)!Exhaust
  BY <1>1, <1>2, ConstantsAssumption DEF Lifecycle!Exhaust, Stage, Lapsed, Spent
<1> QED BY <1>3, <1>4 DEF Promised, Lifecycle!Next

LEMMA ReturnsIsSound ==
  ASSUME NEW k \in Jobs, MemSound(jobs[k], artifacts[k]), Returns(k)
  PROVE  MemSound(jobs'[k], artifacts'[k]) /\ Promised(k)
<1>1. PICK lag \in Lags : jobs'[k] = Returned(jobs[k], lag)
  BY DEF Returns
<1>2. CASE ~Expired(jobs[k], lag)
  <2>1. Quiet(k)
    BY <1>1, <1>2 DEF Returned, Returns, Quiet
  <2> QED BY <2>1, QuietIsPromised DEF Quiet
<1>3. CASE Expired(jobs[k], lag)
  <2>1. /\ jobs[k] \in JobRow /\ jobs[k].status = "LEASED" /\ jobs[k].failure_code = None
        /\ jobs[k].retry_after = None /\ jobs[k].attempt \in 1 .. MaxAttempts
    BY <1>3 DEF Expired, MemSound, WholeRow, Unstranded
  <2>2. Lapsed(k)
    BY <1>3, <2>1, ConstantsAssumption DEF Expired, Lapsed, JobRow, Countdown, Lags
  <2>3. /\ jobs'[k] \in JobRow /\ jobs'[k].status = "PENDING"
        /\ jobs'[k].attempt = jobs[k].attempt
        /\ jobs'[k].lease_owner = None /\ jobs'[k].lease_expires_at = None
        /\ jobs'[k].retry_after = None /\ jobs'[k].failure_code = None
        /\ artifacts'[k] = artifacts[k]
    BY <1>1, <1>3, <2>1 DEF Returned, Returns, JobRow, Statuses
  <2>4. MemSound(jobs'[k], artifacts'[k])
    BY <2>1, <2>3, ConstantsAssumption DEF MemSound, WholeRow
  <2>5. Lifecycle(k)!EndSilence
    BY <2>1, <2>2, <2>3, ConstantsAssumption DEF Lifecycle!EndSilence, Stage, Lapsed, Spent
  <2> QED BY <2>4, <2>5 DEF Promised, Lifecycle!Next
<1> QED BY <1>2, <1>3

LEMMA MemRowStepIsSound ==
  ASSUME NEW k \in Jobs, MemSound(jobs[k], artifacts[k]), RowStep(k) \/ Returns(k)
  PROVE  MemSound(jobs'[k], artifacts'[k]) /\ Promised(k)
<1>1. CASE ~Spare(jobs[k])
  BY <1>1, SpentRowsOnlyEnd, ExhaustsIsSound, QuietIsPromised DEF Quiet
<1>2. CASE Returns(k)
  BY <1>2, ReturnsIsSound
<1>3. CASE Spare(jobs[k]) /\ RowStep(k)
  <2>1. SoundJob(jobs[k], artifacts[k])
    BY <1>3, SpareRowsAreSound
  <2>2. SoundJob(jobs'[k], artifacts'[k])
    BY <1>3, <2>1, RowStepIsSound
  <2>3. Promised(k)
    BY <1>3, <2>1, QuietIsPromised, SubmitIsPromised, ClaimIsPromised,
       HolderIsPromised, SweepIsPromised, AgeIsPromised DEF RowStep
  <2> QED BY <2>2, <2>3, SpareRowsAreSound
<1> QED BY <1>1, <1>2, <1>3

-----------------------------------------------------------------------------
(* The in-memory service as a whole.                                       *)

LEMMA MemNextKeepsWorkers ==
  ASSUME TypeOK, Unheard, [MemNext]_memvars
  PROVE  workers' \in [Workers -> WorkerRow] /\ spoken' \subseteq Workers /\ Unheard'
<1> USE DEF TypeOK
<1>1. ASSUME NEW w \in Workers, NEW accepted \in Builds, MemRegister(w, accepted)
      PROVE  workers' \in [Workers -> WorkerRow] /\ spoken' \subseteq Workers /\ Unheard'
  <2>1. /\ [NoWorker EXCEPT !.enrolled = TRUE, !.accepted = accepted] \in WorkerRow
        /\ [NoWorker EXCEPT !.enrolled = TRUE, !.accepted = accepted].codex = None
    BY ConstantsAssumption DEF NoWorker, WorkerRow
  <2> QED BY <1>1, <2>1 DEF MemRegister, Unheard
<1>2. ASSUME NEW w \in Workers, NEW report \in Reports, Hear(w, report)
      PROVE  workers' \in [Workers -> WorkerRow] /\ spoken' \subseteq Workers /\ Unheard'
  <2>1. Heard(w, report) \in WorkerRow
    BY HeardIsAWorkerRow
  <2>2. report.codex = None => Heard(w, report).codex = workers[w].codex
    BY DEF Heard, WorkerRow
  <2> QED BY <1>2, <2>1, <2>2 DEF Hear, Unheard
<1>3. CASE Tick
  <2>1. workers' \in [Workers -> WorkerRow] /\ spoken' = spoken
    BY <1>3, OlderWorkerIsARow DEF Tick
  <2>2. \A w \in Workers : workers[w].codex = None => workers'[w].codex = None
    BY <1>3 DEF Tick, OlderWord, WorkerRow
  <2> QED BY <2>1, <2>2 DEF Unheard
<1>4. CASE UNCHANGED <<workers, spoken>>
  BY <1>4 DEF Unheard
<1> QED BY <1>1, <1>2, <1>3, <1>4
        DEF MemNext, MemEnqueue, Enqueue, Heartbeat, MemClaim, MemHolderActs, RenewLease,
            CompleteWithArtifacts, Fail, MemReap, memvars

LEMMA MemNextKeepsDomains ==
  ASSUME TypeOK, [MemNext]_memvars
  PROVE  /\ jobs' = [j \in Jobs |-> jobs'[j]]
         /\ artifacts' = [j \in Jobs |-> artifacts'[j]]
<1>1. ASSUME NEW w \in Workers, NEW report \in Reports, NEW lag \in Lags,
             MemClaim(w, report, lag)
      PROVE  jobs' = [j \in Jobs |-> jobs'[j]] /\ artifacts' = artifacts
  <2> DEFINE rows(n) == [j \in Jobs |-> IF j \in Passed(n) THEN Returned(jobs[j], lag)
                                        ELSE jobs[j]]
  <2>1. \/ \E n : jobs' = rows(n)
        \/ \E n : jobs' = [rows(n) EXCEPT ![order[n]] = Granted(@, w, lag)]
    BY <1>1 DEF MemClaim
  <2> QED BY <1>1, <2>1 DEF MemClaim
<1> QED BY <1>1 DEF TypeOK, MemNext, MemEnqueue, Enqueue, MemRegister, Heartbeat,
        MemHolderActs, RenewLease, CompleteWithArtifacts, Fail, MemReap, Tick, memvars

LEMMA MemInitIsSound == MemInit => MemInv
<1> SUFFICES ASSUME MemInit
             PROVE  MemInv
  OBVIOUS
<1>1. IInv
  BY InitIInv DEF MemInit
<1>2. TypeOK /\ \A k \in Jobs : MemSound(jobs[k], artifacts[k])
  BY <1>1, IInvIsAboutJobs, SpareRowsAreSound DEF IInv
<1>3. Unheard
  BY DEF MemInit, Init, NoWorker, Unheard
<1> QED BY <1>2, <1>3 DEF MemInv

LEMMA MemNextIsSound ==
  ASSUME MemInv, [MemNext]_memvars
  PROVE  MemInv' /\ \A k \in Jobs : Promised(k)
<1>1. \A k \in Jobs : MemSound(jobs'[k], artifacts'[k]) /\ Promised(k)
  BY MemNextIsRowSteps, MemRowStepIsSound DEF MemInv
<1>2. \A k \in Jobs : jobs'[k] \in JobRow /\ artifacts'[k] \in Seq(Workers)
  BY <1>1 DEF MemSound
<1>3. TypeOK' /\ Unheard'
  BY <1>2, MemNextKeepsDomains, MemNextKeepsWorkers DEF MemInv, TypeOK
<1> QED BY <1>1, <1>3 DEF MemInv

LEMMA MemInvHolds == MemSpec => []MemInv
BY MemInitIsSound, MemNextIsSound, PTL DEF MemSpec

\* The rows of the in-memory service are never half written either.
THEOREM MemoryRowsStayWhole == MemSpec => []RowsAreWhole
<1>1. MemInv => RowsAreWhole
  BY DEF MemInv, MemSound, RowsAreWhole
<1> QED BY <1>1, MemInvHolds, PTL

\* The in-memory service never keeps a drawing from a machine that has said
\* nothing of Codex since it enrolled (protocol.py, codex_is_reachable).
THEOREM SilenceCostsNothing == MemSpec => []SilenceIsAvailability
<1>1. MemInv => SilenceIsAvailability
  BY DEF MemInv, Unheard, SilenceIsAvailability, CodexIsReachable
<1> QED BY <1>1, MemInvHolds, PTL

\* The in-memory service implements JobLifecycle for each of its jobs as the SQL
\* service does: what the API's tests see is what the running service promises.
THEOREM MemoryKeepsThePromise == MemSpec => MemKeepsThePromise
<1>1. MemInv /\ [MemNext]_memvars => [PromiseStep]_memvars
  BY MemNextIsSound DEF PromiseStep, Promised
<1>2. MemInit => (\A j \in Jobs : Lifecycle(j)!Init)
  BY InitIsPromised DEF MemInit
<1> QED BY <1>1, <1>2, MemInvHolds, PTL DEF MemSpec, MemKeepsThePromise

LEMMA MemEndsAreLeftAlone ==
  ASSUME MemInv, [MemNext]_memvars
  PROVE  EndStep
<1> SUFFICES ASSUME NEW k \in Jobs, jobs[k].status \in {"COMPLETED", "FAILED"}
             PROVE  Quiet(k)
  BY DEF EndStep, Quiet
<1>1. MemSound(jobs[k], artifacts[k]) /\ (RowStep(k) \/ Returns(k))
  BY MemNextIsRowSteps DEF MemInv
<1>2. CASE RowStep(k)
  BY <1>1, <1>2, EndedRowsAreQuiet DEF MemSound
<1>3. CASE Returns(k)
  BY <1>3 DEF Returns, Returned, Expired, Quiet
<1> QED BY <1>1, <1>2, <1>3

\* A job of the in-memory service ends once too, although every claim scans past
\* the jobs that ended.
THEOREM MemoryEndsAreFinal == MemSpec => [][EndStep]_memvars
BY MemEndsAreLeftAlone, MemInvHolds, PTL DEF MemSpec
=============================================================================
