-------------------------- MODULE ArtifactDelivery --------------------------
(***************************************************************************)
(* The files of one job: uploaded by its holder, named by a completion,    *)
(* downloaded by the customer once the job is done.  The job itself lives  *)
(* the life of JobLifecycle; what this module adds is that an upload and a *)
(* completion are handlers with steps of their own:                        *)
(*   - upload_job_artifact checks the lease, then waits for the body, then *)
(*     replaces the file of that kind;                                     *)
(*   - complete_job compares each file with the checksum the worker        *)
(*     states, then commits the rows, and only the commit checks the lease.*)
(* Nothing ends a request with the hold it was sent under: a body may      *)
(* arrive when the job is somebody else's, or done.  A job has one file    *)
(* per kind, whichever attempt wrote it.  The bytes a run produces are     *)
(* told apart by the number of the run.                                    *)
(***************************************************************************)
EXTENDS Integers, Sequences

CONSTANTS Workers, MaxSilences, None,
          Kinds,           \* the artifacts a completion owes
          MaxRuns          \* bound: the job is granted no more often

VARIABLES stage, holder, quiet, silences, delivered,
          run,             \* how often the job was granted: whose bytes are new
          sent,            \* the kinds this run's uploads were acknowledged for
          files,           \* whose bytes are stored, per kind
          uploads,         \* uploads past their lease check
          completions,     \* completions being handled
          rows,            \* whose checksums the artifact rows state
          overtaken        \* observer: the kinds another run's upload replaced
                           \* after the completion the rows are of compared them

life == <<stage, holder, quiet, silences, delivered>>
deliveryVars == <<life, run, sent, files, uploads, completions, rows, overtaken>>

ASSUME DeliveryAssumption ==
  /\ MaxSilences \in Nat \ {0} /\ MaxRuns \in Nat \ {0}
  /\ None \notin Workers \cup Nat

Life == INSTANCE JobLifecycle

Runs == 1 .. MaxRuns

DeliveryInit ==
  /\ Life!Init
  /\ run = 0 /\ sent = {}
  /\ files = [k \in Kinds |-> None]
  /\ uploads = {} /\ completions = {}
  /\ rows = None /\ overtaken = {}
-----------------------------------------------------------------------------
\* get_owned_active_job: the caller holds the job, and its lease still runs.
Owns(w) == stage = "held" /\ holder = w /\ ~quiet

\* The job is given to a worker, which starts from nothing.
Granted ==
  /\ run < MaxRuns
  /\ \/ \E w \in Workers : Life!Grant(w)
     \/ Life!EndSilence /\ stage' = "held"
  /\ run' = run + 1 /\ sent' = {}
  /\ UNCHANGED <<files, uploads, completions, rows, overtaken>>

\* Any other step of the job but a delivery.
JobMoves ==
  /\ \/ Life!Submit \/ Life!Wake \/ Life!Exhaust
     \/ Life!FallSilent \/ Life!Rest \/ Life!GiveUp
     \/ Life!EndSilence /\ stage' # "held"
  /\ UNCHANGED <<run, sent, files, uploads, completions, rows, overtaken>>
-----------------------------------------------------------------------------
(* upload_job_artifact.                                                    *)

BeginUpload(k) ==
  /\ \E w \in Workers : Owns(w)
  /\ uploads' = uploads \cup {[kind |-> k, run |-> run]}
  /\ UNCHANGED <<life, run, sent, files, completions, rows, overtaken>>

\* A completion of another run that has compared the file takes no notice of
\* its being replaced.
Overtake(completion, upload) ==
  IF upload.run = completion.run \/ upload.kind \in completion.left
  THEN completion
  ELSE [completion EXCEPT !.overtaken = @ \cup {upload.kind}]

\* The body has arrived and matches its checksum.
EndUpload(upload) ==
  /\ uploads' = uploads \ {upload}
  /\ files' = [files EXCEPT ![upload.kind] = upload.run]
  /\ sent' = IF upload.run = run THEN sent \cup {upload.kind} ELSE sent
  /\ completions' = {Overtake(completion, upload) : completion \in completions}
  /\ overtaken' = IF stage = "done" /\ upload.run # rows
                  THEN overtaken \cup {upload.kind} ELSE overtaken
  /\ UNCHANGED <<life, run, rows>>

\* The body never arrives, or is refused.
DropUpload(upload) ==
  /\ uploads' = uploads \ {upload}
  /\ UNCHANGED <<life, run, sent, files, completions, rows, overtaken>>
-----------------------------------------------------------------------------
(* complete_job.                                                           *)

\* The worker completes once everything it owes was acknowledged.
BeginCompletion ==
  /\ stage = "held" /\ sent = Kinds
  /\ completions' = completions \cup
       {[worker |-> holder, run |-> run, left |-> Kinds, overtaken |-> {}]}
  /\ UNCHANGED <<life, run, sent, files, uploads, rows, overtaken>>

\* Wrong on purpose: what the worker states is taken for what is stored.
VerifyUnread(completion, k) ==
  /\ k \in completion.left
  /\ completions' = (completions \ {completion}) \cup {[completion EXCEPT !.left = @ \ {k}]}
  /\ UNCHANGED <<life, run, sent, files, uploads, rows, overtaken>>

\* verify_completion, on one file: a mismatch refuses the completion.
Verify(completion, k) ==
  /\ k \in completion.left
  /\ completions' = (completions \ {completion}) \cup
       (IF files[k] = completion.run THEN {[completion EXCEPT !.left = @ \ {k}]} ELSE {})
  /\ UNCHANGED <<life, run, sent, files, uploads, rows, overtaken>>

\* complete_with_artifacts: the lease is checked, and the status and the rows
\* are committed together.  Otherwise the completion is refused, or it repeats
\* an earlier one and is acknowledged.
Commit(completion) ==
  /\ completion.left = {}
  /\ completions' = completions \ {completion}
  /\ IF Owns(completion.worker)
     THEN Life!Deliver /\ rows' = completion.run /\ overtaken' = completion.overtaken
     ELSE UNCHANGED <<life, rows, overtaken>>
  /\ UNCHANGED <<run, sent, files, uploads>>

\* The API process dies.  What is on disk and in the tables stays.
ApiDies ==
  /\ uploads # {} \/ completions # {}
  /\ uploads' = {} /\ completions' = {}
  /\ UNCHANGED <<life, run, sent, files, rows, overtaken>>

DeliveryNext ==
  \/ Granted
  \/ JobMoves
  \/ \E k \in Kinds : BeginUpload(k)
  \/ \E upload \in uploads : EndUpload(upload)
  \/ \E upload \in uploads : DropUpload(upload)
  \/ BeginCompletion
  \/ \E completion \in completions, k \in Kinds : Verify(completion, k)
  \/ \E completion \in completions : Commit(completion)
  \/ ApiDies

DeliverySpec == DeliveryInit /\ [][DeliveryNext]_deliveryVars
-----------------------------------------------------------------------------
(* Properties.                                                             *)

\* The tables, the store and the handlers hold what they may.
TypeOK ==
  /\ stage \in Life!Stages /\ holder \in Workers \cup {None} /\ quiet \in BOOLEAN
  /\ silences \in 0 .. MaxSilences /\ delivered \in Seq(Workers)
  /\ run \in 0 .. MaxRuns /\ sent \subseteq Kinds
  /\ files \in [Kinds -> Runs \cup {None}]
  /\ uploads \subseteq [kind : Kinds, run : Runs]
  /\ completions \subseteq [worker : Workers, run : Runs, left : SUBSET Kinds,
                             overtaken : SUBSET Kinds]
  /\ rows \in Runs \cup {None} /\ overtaken \subseteq Kinds

\* What the customer of a finished job downloads has the checksums its rows
\* state, whatever uploads and completions crossed, came late or were cut off,
\* but for the files that an upload of another run replaced after the completion
\* had compared them.  Nothing else lets other bytes through: not an upload that
\* ended before the comparison, not a completion of an earlier hold that is
\* committed under a later one.
OnlyLateBytesDiffer ==
  stage = "done" => \A k \in Kinds : files[k] = rows \/ k \in overtaken

\* TASK-009: "the backend verifies uploaded bytes before idempotent completion",
\* so the files of a finished job are those its completion was verified against.
\* The code lets a late upload through.
RowsDescribeFiles ==
  stage = "done" => \A k \in Kinds : files[k] = rows
=============================================================================
