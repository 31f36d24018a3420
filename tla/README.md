# Formal models of the CAD service

This directory holds TLA+ modules that model the service in `src/`, the TLC
configurations that check them and the TLAPS proofs about them.  A definition is
translated from the code and `PROJECT.json` ("map") names the lines it stands
for.  Paths below are relative to the repository; `app/` is `apps/api/app/`.

    tlc -workers 2 -config JobProtocol.cfg MCJobProtocol.tla     # one run
    tlapm ServiceProofs.tla                                      # a module of proofs

## 1. The system

A customer uploads a drawing (or an operator submits CAD-IR).  The API writes an
order and queues a job.  Machines in somebody's office poll the API, take a job
under a lease, read the drawing with an external model, build the part with a
CAD kernel in a container, upload the files and complete the job.  The API holds
the finished order until an operator releases it.

| Part | State it keeps | Operations |
|---|---|---|
| Worker protocol (`app/workers/sql_protocol.py`; in memory: `protocol.py`) | `workers`, `jobs`, `artifacts` rows | register, heartbeat, claim, renew, complete, fail, enqueue, reap |
| Scheduling gates (`app/workers/capabilities.py`, `protocol.py`) | none: functions of two rows | required and declared capabilities, CAD-IR version, Codex reachability |
| Orders (`app/orders/*`, handlers in `app/main.py`) | `orders`, `order_reviews` rows | create, answer, record a round, transition, hold, review |
| Artifact store (`app/workers/artifact_store.py`) | one directory of files per job | put, verify, read |
| Accounts, sessions, quotas (`app/accounts/*`) | `users`, `sessions` rows | register, sign in and out, resolve, quota |
| Resource ledger (`app/ledger/*`) | `job_resource_events` rows, append-only | record a batch, derive counters, audit |
| Costs (`app/costing/*`) | pricing profiles, `job_cost_snapshots` rows | publish, draft, finalise, calculate |
| Input quarantine (`app/input/*`) | files under quarantine | admit, sanitise, refuse |
| Diagnostics (`app/workers/diagnostics.py`) | none | why is nobody taking this job |
| Local worker (`apps/local-worker/*.cs`) | a job directory, a ledger in memory, what it last saw of Codex | claim loop, lease task, download, build, repair, upload, ship, report |
| Codex runner (`packages/codex-runner`) | a child process | run a stage, read its usage |
| CAD-IR (`packages/cad-ir`) | none: functions of a document | normalise, validate, check the shape claim |
| Engine and launcher (`packages/build123d-*`, `apps/cad-worker`) | a container and a job directory | describe, validate, build |
| Web client (`apps/web`) | what it last polled | poll, answer, review |

How they interact.  Everything between machines is an HTTP request that may be
late, repeated or lost.  The API is one process; its handlers run in a thread
pool and share only the database and the artifact store, so what two handlers
can do to each other happens between their transactions.  One timer in that
process, the reaper, sweeps the job table.  Nothing in the database points from
a worker to what it is doing except the lease on the job row.

What is hard.

* *Leases and lateness.*  A worker whose lease lapsed does not know it.  Its
  renewal, upload, completion or failure arrives after the job went to somebody
  else.
* *Counting attempts.*  A claim counts an attempt, a pause hands it back, a
  sweep spends it.  One too few strands a job that the customer sees as
  "waiting" for ever; one too many and it never ends.
* *Handlers of several transactions.*  A completion commits, then the order is
  held; a round is queued, then recorded; a lease is checked, then a body is
  awaited, then a file is replaced.  Other requests come in between, or the
  process dies.
* *Two vocabularies of progress.*  The stored status of an order moves only by
  decisions; what the customer sees is derived from the job and its artifacts.
* *Things that must end without anybody asking:* pauses, outages, leases of
  dead machines, orders that read as released and are not.
* *A directory that outlives the run that filled it.*  A job is attempted again
  on a machine that still has the reading, the documents and the model of an
  earlier attempt; nothing clears them.
* *Failures inside failures.*  A run that fails must stop renewing, may be unable
  to say why, and may have lost the job while it ran.

## 2. What correct means, component by component

* **Worker protocol.**  A running lease ends only by its holder's word.  A job
  is delivered at most once and ends once.  A job that has not ended can still
  be claimed or is being worked on.  No row keeps half of a former holder.
  Pauses end, outages end on their stated date, dead machines hold nothing.
  Both implementations promise the same.
* **Orders.**  Nothing is READY to a customer that no operator released; a
  release is of what the operator saw and leaves an audit row; an ended order
  stays ended; an order always points at a job that exists.
* **Artifacts.**  The files a customer downloads are those the completion was
  verified against, but for one that a late upload of another run replaced.
* **Diagnostics.**  What a page says of a waiting job is what a claim would do, by
  a machine whose build is accepted.
  A job said to continue by itself does, once the stated dates have passed.
* **Ledger.**  A measurement is counted once, and a batch is in the ledger whole
  or not at all.
* **Costs.**  Machine time is billed once; a price is the least that pays for the
  job; a final price that was shown stands.
* **Quota and quarantine.**  The number of orders in flight passes its limit by no
  more than overlap explains; nobody is shut out for good; what was uploaded raw
  does not stay.
* **Local worker.**  A model it delivers was accepted, built and measured by the
  run that delivers it.  A run makes a bounded number of calls and always ends,
  and so does the hold it ran under.  What it delivers answers what came with
  the drawing.  It never blocks itself from the work that would clear its own
  report.
* **CAD-IR and adapter.**  What the gate accepts the adapter can attempt; no
  feature's material is lost among bodies that are merged, renamed and moved; an
  operation applies to the body its document means; what is announced as built
  was measured.
* **Web client.**  An open page comes to show what the service says for good, and
  the customer's writes get through.

## 3. The modules

| Module | Models |
|---|---|
| `JobLifecycle` | abstract specification: the life of one job, as promised by any implementation |
| `JobRows` | the rows, the gates, the clock and the operations both services share |
| `JobProtocol` | `SqlWorkerProtocolService`: registration, claim, sweep, and its properties |
| `MemoryProtocol` | `WorkerProtocolService`, the in-memory one |
| `OrderStates` | the status tables of `orders/state_machine.py` and `orders/progress.py` |
| `OrderDesk` | one order, its rounds, holds and reviews; its jobs move as `JobLifecycle` allows |
| `ArtifactDelivery` | uploads and completions of one job as handlers with steps, over an instance of `JobLifecycle` |
| `DrawingRun` | a drawing job on the machine that runs it: claim, lease task, reading, compiling, two repair loops, build, upload, report, and the job directory |
| `DrawingRunProofs` | theorems about `DrawingRun` |
| `Diagnostics` | `SchedulerDiagnostics` over the rows of `JobProtocol` |
| `ServiceProofs` | theorems about `JobProtocol`, `Diagnostics` and `MemoryProtocol` |
| `OrderDeskProofs` | theorems about `OrderDesk` and `Studio` |
| `FilesProofs` | theorems about `ArtifactDelivery` and `Uploads` |
| `LedgerProofs` | theorems about `Metering` and `JobCosts` |
| `CadBuildProofs`, `DataLemmas` | theorems about `CadBuild`, and the lemmas about numbers, sets and folds that they and `LedgerProofs` rest on |
| `Fleet`, `FleetProofs` | the claim loops of several machines composed with `JobProtocol`, and theorems: they only use it, and what follows from that |
| `Uploads` | the quota, the quarantine and `create_drawing_job` under overlapping uploads |
| `Studio` | the customer's page and its session, composed with `OrderDesk` |
| `Metering` | a run that measures its stages, the shipper, and the ledger's ingestion |
| `Costing` | the price of a job as a function of its ledger and a profile |
| `JobCosts` | profiles, drafts and final snapshots with concurrent callers |
| `CadDocument` | a CAD-IR document and the issues the canonical validator finds in it |
| `SweepPath` | the bends of a planar sweep and the rule about their radius |
| `CadBuild` | one run of the CAD worker on a document: gate, features, bodies, verdict |
| `MC*` | constants for TLC |

### JobRows, JobProtocol, MemoryProtocol

One record per row; the columns keep their names.  Every operation is one
transaction under a row lock, hence one action: `Register`, `Heartbeat`,
`Claim`, `RenewLease`, `CompleteWithArtifacts`, `Fail`, `Enqueue`, `Reap`.
What an operation does to a row is an operator on rows (`Granted`, `Renewed`,
`Completed`, `Failed`, `Woken`, `Unstuck`) that the action applies; the proofs
are about these.  Refused calls change nothing and are left out, except a claim
that finds nothing, which is the heartbeat it began with.

*Time.*  A stored instant is a countdown of seconds, `Tick` is one second.
Claim and sweep read the clock before they lock rows, so they compare with an
instant up to `ClockLag` seconds old (`lag`).  Countdowns stop at `-ClockLag`:
nothing tells lower values apart.

*Locks.*  A claim and a sweep skip rows that another transaction has locked
(`SKIP LOCKED`).  So a claim may take any candidate row, not only the oldest,
and a sweep passes over any set of rows (`locked`).

*Messages.*  There is no channel: every worker may attempt every call on every
job at every moment, which contains all delays, repetitions and losses.

*Gates.*  `Serves` is the conjunction a claim evaluates: capabilities, CAD-IR
version, manifest keys, and for drawing jobs the last word about Codex.  The
handler asks the service only if the machine states a free slot
(`main.py:895`); its build is recorded (`accepted`) and no gate of a claim.

`MemoryProtocol` reuses the shared operations and writes its own registration,
claim and sweep: the claim scans a dictionary in order and returns every lapsed
lease it passes before it looks at attempts.  `JobLifecycle` is what both
promise.  The mapping (`Lifecycle(j)` in `JobRows`): an attempt that is in use,
or that ended in a report, is not a silence; every other counted attempt is.

### OrderDesk

One order, because orders share no rows.  An action is one transaction of a
handler; what a handler read earlier travels in `holds` (the version
`_hold_for_review` read) and `rounds` (a round between its enqueue and its
record).  `CustomerSees` is what `GET /drawing-jobs/{id}` answers.  `page` is
what the operator's browser shows, as old as it likes.  The key of a round's job
(who asked, round number, and the answers or the note) is modelled because the
unique key on it decides whether two requests become one job.

A drawing's delivery has a questions file, empty or not, beside the model or
without it, so there are three outcomes.  `asked` is the jobs whose stored file
has questions in it: an upload writes it (`StoreQuestions`), the delivery states
what is stored, and an answer reads the file of the order's latest job and nothing
else, neither a status nor the model beside it.  `answered` only remembers
which jobs' questions were answered.  `setting` is a way of using the service,
`hold_for_review` included; it is taken at the start and stays.

### ArtifactDelivery

Files are told apart by the run that produced them.  An upload passes its lease
check (`BeginUpload`), waits for its body, and replaces the file (`EndUpload`);
a completion verifies file after file, then commits under the lease check.
Nothing ends a request with the hold it was sent under, so a body may arrive
when the job is somebody else's, or done.  `overtaken` observes which files an
upload of another run replaced after the completion had compared them
(`Overtake`).

### DrawingRun

One job, one machine whose claim loop and directory are modelled, and other
machines that only take and end holds.  The job moves through an instance of
`JobLifecycle`; the machine learns of a lost hold only from the answer to a
request, so `Holds` guards the requests and nothing else.  `run` is the C# stack:
the place it has reached, the attempt the claim told it, the budget (`calls`,
`repairs`) and the counters of both loops.  `disk` is the job directory.  One
action is one stage that ends in a request, a call of the model or a call of the
engine, with everything the code does up to the next one.

*Documents* are numbers, so that the published document, the engine's input and
the built model can be compared.  What the model writes and what the engine says
of it are choices.  Failures are codes; the lists of `BuildFeedback` are
represented by one code of each kind that a stage can throw, an upload's among
them, and an exception without a code is `Untyped`.  What goes up includes the
questions file.

*The lease task* is the variable `renewal`.  When a renewal fails the task ends
and the run goes on; the `finally` block then throws that failure in place of any
other, so a failed run reports nothing (`Fail`), and a completed one is complete
all the same.  A renewal that timed out is a cancellation, which the block
swallows (`Pipeline.cs:724`): then the run reports its own failure.

*The directory* keeps what an earlier run left (`Leftovers`): the code creates
it if it is missing and never clears it.  A build that fails may have written
files before it measured them (`apps/cad-worker/cad_worker/__main__.py:183-207`).

*Assumed of the CLI:* a call that exits with 0 has written its output
(`CodexRunner.cs:240` checks only that the file exists).  Left out: the fault
injected by the diagnostic command, plain build jobs, and what `Fleet` and
`Metering` model.

### Diagnostics

Operators, no state: `Blocker` is the gates of a claim as `_worker_blockers`
writes them a second time, in its order; `Claimability` and `Summary` are what
`report` answers.  Which enrolled machines were heard from lately is any subset
of them.  A claim has the same gates but one: the diagnosis asks first whether
the machine's build is accepted (`diagnostics.py:119`), and a claim never asks.
`DiagnosisAgreesWithClaim` is therefore about machines on an accepted build, and
`JobProtocolOldBuilds.cfg` shows what happens to others.  Free slots are the last
gate of the diagnosis and the first of the claim's handler, which is why the
summary is compared and not only the verdict.  Left out: keys that are not
registered, which no enqueue accepts.

### Fleet

Each machine has a process (`machines`), a CLI that breaks and is mended
(`clis`) and a credential file; the service is an instance of `JobProtocol`
(`P`), so what a machine asks is one of its actions.  Every machine is of an
accepted build and has one slot.  A request may be lost on its way out or back
(`trouble` counts the faults used up).  A renewal that was refused or lost is
thrown in place of the run's own failure; one that timed out is not (`renewal`).
A revoked machine is answered 401 and its process ends (`ShutOut`).  What a claimed job
does is abstracted to how it ends.  `tally` and `muted` are history: what a
machine tried without a CLI, and which jobs were cut off from the service.

### Uploads

An upload is a coroutine of the one API process: it counts, awaits its body, and
then holds the event loop to the end (`LoopIsFree`), while operators, workers and
the customer's other requests run in threads.  An order is its stored status and
what its job is at; one that is over leaves the model, and the day's count keeps
its start in `started`, by age.  `raw` counts the files in quarantine.

### Studio

`Studio` EXTENDS `OrderDesk`: the page, the session row, the cookie jar and
another tab beside the same order.  Every request is sent, served and answered in
three steps, because `/auth/me` changes the row when it is served and the cookie
when it is answered.  Tokens are numbered in the order they are minted.

### Metering

A run is one attempt on one worker.  It measures a session, its operations, the
export and the validation, ships them in batches of `BatchSize` and resends a
batch whose answer it did not get; the request goes on inside the API.  The
handler checks the lease in one transaction (`CheckLease`) and records in another
(`Admits`, the unique keys).  Ids and keys are told apart as the code builds them,
from the worker, the attempt and the stage.

### Costing, JobCosts

Money is in thousandths and ratios in quarters, so amounts are integers and the
decimal arithmetic of the code is exact on them.  `Price` translates
`calculate`, `BillableSeconds` the merge of spans in order (`Sorted`, `MergedAll`), `Counters` and `Audit` the
derived counters and the audit.  `JobCosts` adds the tables and the callers.  A
caller works out a breakdown (`Calculate`) and saves it later, when the ledger and
the profiles may have changed; a save reads (`Begin`), then writes under the
partial unique index (`Commit`), so two callers may both have read.

### CadDocument, SweepPath, CadBuild

A document is a sequence of features with the references among them; a dimension
or a contour is left out, but for how far an extrusion says it goes (a distance, a
face, or neither, which the gate accepts: `StatesNoReach`), and a parameter is what
a feature reads one number from, or what only construction geometry reads
(`guide`).  A mirror is about a named datum, which the build looks up.
`Accepted` is the gate of the validator, part by part.  `CadBuild` writes a
document feature by feature, builds it and answers: `bodies` and `active` are
`Bodies` of the adapter, where a body is the names it answers to and the features
that made it.  The kernel is a choice: each feature is applied or refused with a
code its tool can give (`ExtrudeRefusals`, `HelixRefusals`, ...), or it raises
something of its own, which no handler catches and the process ends with a
traceback (`KernelFails`); a run that was refused has left no model behind.  A
full disk is left out.  `SweepPath` is the one piece of geometry that
can be counted out: quarter turns in a plane, and which side of the path the
centre of a bend is on.

## 4. The runs

Each property has a mutant in `PROJECT.json`: a plausible mistake in one mapped
definition (the operators commented "Wrong on purpose") under which the same run
fails.

| Run | Shows | Distinct states |
|---|---|---|
| `JobProtocol` | rows whole, nothing stranded, ends earned, live leases honoured, every job implements `JobLifecycle`, the diagnosis of accepted builds agrees with a claim; pauses end, silent fleets hold nothing, a paused reading continues | 117 000 |
| `MemoryProtocol` | the in-memory service implements `JobLifecycle`; jobs left PENDING without attempts are ended; registration forgets Codex | 29 000 |
| `OrderDesk` | held orders have a model and releases are of what was seen, unless answers crossed a model; rounds point at queued jobs, an unreviewed READY ends, ends are ends | 1 094 000 |
| `Studio` | a write is refused twice only if another tab overlapped; an open page keeps up | 476 000 |
| `ArtifactDelivery` | with requests that outlast their hold, only overtaken files differ from their rows | 1 200 000 |
| `DrawingRun` | delivered models are earned, calls bounded, rounds heeded, holds end | 34 000 |
| `CadBuild` | no material is lost, patterns join the body they name, accepted documents fail only in the known ways, completed builds were measured, bends of centred profiles are judged rightly | 2 810 000 |
| `Metering` | nothing is counted twice, batches are whole | 786 000 |
| `JobCosts` | time is billed once, the price is the least, a final price stands | 76 000 |
| `Fleet` | an absent CLI is told once, a lost lease means silence, drawings are taken | 150 000 |
| `Uploads` | the quota is shared, raw files are discarded, nobody is shut out | 191 000 |
| `DrawingRunEndless` | *violated*: a waiting job ends while the CLI answers | |

*Where the code differs from what it says.*  These configurations are kept beside
the runs; `tlc -continue -config X.cfg M.tla` finds the named properties violated.

| Configuration, module | Property | The code, and what is said of it |
|---|---|---|
| `DrawingRunEndless`, `MCDrawingRun` | `WaitingJobsEnd` | a spent budget is reported with a date (`Pipeline.cs:427`), which pauses the job and hands its attempt back; `BuildFeedback.cs:163-164` says the same drawing "exhausts it in the same place on every attempt" |
| `DrawingRunPromises`, `MCDrawingRun` | `AskingDeliversNoModel` | the job directory is never cleared and every file found is sent (`Pipeline.cs:570`): an attempt that stops to ask uploads the model of an earlier one; `main.py:1582` "either produced the model or stopped to ask something" |
| `DrawingRunPromises`, `MCDrawingRun` | `DocumentIsTheModels` | a document rewritten after a failed build is built and not published (`Pipeline.cs:805`); `WorkerEngine.cs:28` "the CAD-IR is the document the engine was given" |
| `JobProtocolOldBuilds`, `MCJobProtocol` | `OldBuildsAreGivenNothing` | the diagnosis calls a machine on an old build incompatible (`diagnostics.py:119`) and a claim serves it (`main.py:895` and on); `capabilities.py`, "Oldest worker build the API will hand work to" |
| `OrderDeskPromises`, `MCOrderDesk` | `NoPartIsUnseen` | a delivery may carry questions beside its model (`DrawingPipeline.cs:287`), and answers are taken whatever the order's status (`main.py:1241`): an order that was released is pointed at a job nobody looked at; ADR-038 |
| `OrderDeskPromises`, `MCOrderDesk` | `EveryUnreviewedReadyEnds` | `request_changes` of an order without a drawing skips the restart (`main.py:801`), and its customer reads READY of a refused part; ADR-038 "no part reaches a customer without somebody having looked at it" |
| `ArtifactDeliveryLate`, `MCArtifactDelivery` | `RowsDescribeFiles` | the lease is checked before the body is awaited (`main.py:1498`) and a late body replaces a verified file; `docs/TASK-009-manual-e2e-cad.md:12` |
| `StudioEnds`, `MCStudio` | `EndsShownAreEnds` | a page that polls between a completion and its hold reads READY and stops asking (`page.tsx:327`); `page.tsx:313` "READY and FAILED are ends: nothing else will happen" |
| `UploadsLimit`, `Uploads` | `LimitLifts` | an order whose job failed keeps its place (`orders/repository.py:94`); `limits.py:106` says the limit lifts when a build finishes |
| `MeteringPromises`, `Metering` | `ShippingNeverThrows` | the timeout of the HTTP client is an exception the shipper does not catch (`ResourceLedger.cs:354-358`); its comment at 297 "Never throws" |
| `MeteringPromises`, `Metering` | `HoldersAreBooked` | a repaired build measures the same stages under the same keys (`Pipeline.cs:107`, `227`), and the whole batch is refused; `ResourceLedger.cs:132-137` |
| `JobCostsPromises`, `MCJobCosts` | `FinalIsAlone` | a draft that read before a finalisation is written after it (`costing/service.py:97`); its docstring "Refused once the job has been finalised" |
| `JobCostsPromises`, `MCJobCosts` | `EveryPriceIsTheLeast` | a price in steps finer than a hundredth is shown rounded, below what pays for the job (`engine.py:274-277`) |
| `FleetRenewal`, `Fleet` | `AbsenceCostsOneRun` | a renewal that failed is rethrown in place of the failure it interrupts (`Pipeline.cs:724`), so the loop does not hear of an absent CLI and takes another drawing; `CodexHealth.cs:9` |
| `CadBuildPromises`, `MCCadBuild` | `AcceptedIsValid` | the schema refuses an extrusion with both a distance and a face, not one with neither (`canonical.py:258`), and the build finds it invalid (`parameters.py:82`); `__main__.py:269` "two validators that disagree is how a document becomes buildable on one side of a boundary and not the other" |
| `CadBuildPromises`, `MCCadBuild` | `BendsAreMeasuredInwards` | the side is taken from the direction the path leaves in, not from the bend (`sweeps.py:338`); docstring at 311 |
| `CadBuildPromises`, `MCCadBuild` | `PatternsJoinTheirSource` | instances of a source that names no body join the active one (`adapter.py:291`); docstring at 276 "the body that cut was made in" |
| `CadBuildAliases`, `MCCadBuild` | `MaterialKept` | a boolean whose tools are two names of one body drops two indices (`booleans.py:40`), one of them of another body; `booleans.py:38` |

Other disagreements were noticed and no configuration shows them: the transition
endpoint moves an order from MANUAL_REVIEW to READY and writes no audit row
(`main.py:308`, against `orders/review.py:8-11`); an order sent back whose rebuild
fails cannot be cancelled by its owner (`state_machine.py:23`); the retry date of
a refused upload, "exact" in `limits.py:118`, is not after an overlapping
overrun; nothing calls `Quarantine.empty`; a 409 of the ledger is not retried,
though `ledger/service.py:88` says the caller retries; a failed poll stops the
page until it is reloaded; the operator's page keeps its token in memory
(`operator/page.tsx:59-66`), so another tab's `/auth/me` makes its decisions fail;
`diagnostics.py:53` settles only COMPLETED jobs, so a FAILED or PAUSED one is
reported as claimable or blocked.

Of these only `DrawingRunEndless` is among the runs of `PROJECT.json`.

*Bounds.*  Two attempts are the least with a first, a last and a second attempt
after a pause; a lease of two seconds and a lag of one let a lease be live,
lapsed for a punctual caller and lapsed for a late one.  One job and two workers
are enough for `JobProtocol`, whose properties speak of one row and at most two
workers who disagree about it, and whose theorems hold of any number;
`MemoryProtocol` has two jobs, because its claim scans past one to reach the
other.  Orders get three jobs, which is the upload and two rounds of answers or
review; `RoundLimit` is 2 where the code has 3, and `versions` only stops people
from moving an order for ever.  `OrderDesk` has six settings (`EveryUse`): used
gently, without review, without a drawing; and roughly, with two answers at once
and a dying API, with completions delivered twice, and with everything at once for
an order without a drawing.  `Studio` has one round; beside a desk that only takes
answers four tokens (the page's own and its next, the other tab's, a recovery's),
beside a busy one two.  Two runs of a job by two workers and two kinds of artifact
let a late upload meet a later run half verified, or a job that is done.  `DrawingRun` has the
code's own bounds on repairs and calls, and four kinds of round.  `CadBuild` tries
every document of three features and a fourth that refers to them: a source, an
operation, another body, and a reference to one of them; parameters, expectations
and geometry vary in documents of up to two.  `Metering` has two attempts, on one
machine or on two, with two batches each and two requests inside the API, so a
resent batch meets its first delivery and a late one the next attempt.  Ledgers of
four events hold spans that nest, overlap and touch; once somebody calculates one
event is recorded at most (`MostWatched`), and two callers with three saves are a
race with a draft to delete.  `Fleet` has two machines, two outages, one lost request or process
and two enrolments; `Uploads` two requests at once against a limit of one and a
day of two.

*Fairness.*  `JobProtocol`: the clock ticks, and the sweep reaches every row
infinitely often, because the timer in `_reap_forever` survives every error and
a row is locked only for the length of a transaction.  Nothing is assumed of
workers.  `OrderDesk`: a handler that is running goes on to its next
transaction; nothing is assumed of people or workers.  `Studio`: besides, the
page's requests are answered, one way or another, and its timer fires.
`DrawingRun`: a run goes on, because every request, call and engine process has a
timeout and a failure ends it; an idle machine polls; its lease lapses if it does
not renew; the API's sweep ends lapsed holds and pauses.  Nothing is assumed of
renewals, reports or other machines, and the process may be killed or suspended at
any time.  `Fleet`: the clock and the sweep as above, and a claim loop that runs
goes on to ask and to end what it runs, for the same reason; nothing is assumed of
renewals, of people who mend a CLI, or of machines that are off (`Serving` is in
the premise of `DrawingsAreTaken`).  `Uploads`: time passes, a request is answered,
and the customer of `NobodyIsShutOut` keeps asking and gives up an order when told
that there are too many; nothing is assumed of workers and staff.

*Deadlock* is checked for `JobProtocol`, `MemoryProtocol`, `Fleet` and `Uploads`.
Elsewhere a job, an order, a build or the bound of a table ends, and then nothing
more happens.

*Conditions of the passing runs.*  `OrderDesk` is used in six ways (`EveryUse`).
What is said without conditions holds of all of them.  `HeldOrderHasModel`,
`ReleasedIsWhatWasSeen` and `UnreviewedReadyEnds` ask for `Careful`: one
submission at a time, completions delivered once, no crash, and staff who use the
review endpoint.  Without it:

* two different sets of answers to the same questions pass the same check
  (`main.py:1257`) and start two rounds; the completion of the one the order does
  not point at holds the order with no model to look at;
* a crash between a completion's commit and its hold leaves an unreviewed READY
  until the worker repeats the completion.

Careful use is not enough when questions come beside a model.  They can be
answered however the order stands, also when it is held or READY, and then it is
pointed at a job with no model and no review, under the version the operator saw.
The three properties say so (`Crossed`: answers were sent to questions of a job
that has a model): they hold until that has happened, and `OrderDeskPromises`
shows what it leads to.

Even then the customer can read READY of an unreviewed order between the commit
of a completion and that of its hold (`main.py:1594`), which is why the property
is that this ends.  `OnlyLateBytesDiffer` lets a file of a finished job differ from
its row in one way, and `ArtifactDeliveryLate` shows that it does.
`AcceptedFailsWhereKnown` names how the build of an accepted document fails: an
extrusion that states no reach, a result that is gone, and outside a boolean an
exception nobody typed.  `MaterialIsKept` leaves out booleans that name one body
twice, `NamedBodiesGetTheirPatterns` sources that name none,
`CentredBendsAreMeasured` profiles off the path's centre, `PriceIsTheLeast` steps
finer than a hundredth: the table above has what happens with them.

`SilenceIsAvailability` is checked of the in-memory service only: under the SQL
service a machine that is enrolled again inherits the Codex state of its former
self (`sql_protocol.py:67` resets every other column), and the property fails of
`JobProtocol`.

## 5. The proofs

`ServiceProofs` proves, for any jobs, workers, number of attempts, lease
length, lag and horizon that satisfy `ConstantsAssumption` and
`ReportsAssumption`:

* `TypeCorrect`: `Spec => []TypeOK`.
* `RowsStayWhole`, `NothingIsStranded`, `EndsStayEarned`: the safety invariants
  of the run `JobProtocol`.
* `LeasesAreHonoured`: the action property `LiveLeaseIsHonoured`.
* `ServiceKeepsThePromise`: the refinement `EveryJobKeepsThePromise`.

The assumptions say that numbers are numbers, that a lease is longer than the
lag of the clock, and that null is not a value.  The lag matters: with a lag as
long as a lease, a claim could grant a lease that has already run out.

The argument.  `IInv` is the conjunction of `TypeOK`, `RowsAreWhole`,
`NothingStranded` and `EndsAreEarned`, each of which the run `JobProtocol`
checks.  None but the first two is inductive alone: that a delivery exists only
with status COMPLETED needs to know that an absent or pending row has none, and
that LEASE_LOST implies spent attempts needs `failure_code` to be empty on rows
in use, which is wholeness.  All parts but the count of deliveries are facts
about one row, so the proof has two layers.  `NextIsRowSteps` shows that a step
of `Next` changes each row in one of eight ways (`RowStep`); one lemma per part
shows that each of the eight ways preserves it.  The action property and the
refinement follow from the same case split, given `IInv`.

The diagnosis (`DiagnosesAreRight`: `Spec => []DiagnosisAgreesWithClaim`) is
proved for any fleet and any set of machines online whose builds are accepted.
The gates of both, slots included, are unfolded and compared one by one
(`BlockersAreGates`); wholeness of rows says that a lease which is not over has a
date.

The in-memory service (`MemoryRowsStayWhole`, `SilenceCostsNothing`,
`MemoryKeepsThePromise`) uses the same lemmas about rows, with a weaker invariant.
`NothingStranded` is false of it: a scan may leave a job PENDING with no attempt
left.  `MemSound` allows such rows and says that they can only be given up;
`Returns` and `Exhausts` are the two ways of changing a row that the scan adds.
`Unheard` says which machines have not spoken of Codex since they enrolled.

`EndsAreFinal` and `MemoryEndsAreFinal` (`EndStep`) add an action property no run
lists: in both services the row of a job that was delivered or given up, and its
delivery, never change again, whatever is claimed, renewed, completed or swept.

`DrawingRunProofs` proves, for any bounds, rounds, codes and machines that
satisfy `RunAssumption`:

* `TypeCorrect`: `Spec => []TypeOK`.
* `ModelsAreEarned`, `CallsStayBounded`, `RoundsAreHeeded`: the other invariants
  of the run `DrawingRun`.

`RunAssumption` says that bounds are numbers, that a job has an attempt, what a
round may be, and that null is neither a number nor a machine.

The argument.  None of the three is inductive, since each speaks of the end of a
run and says nothing of its middle.  `IInv` adds what holds on the way: `Counted`
(how many calls each place may have behind it), `Numbered` (the candidate's number
is the number of rewrites begun in both loops, which keeps documents in range),
`Earned` (what is being built was accepted, what goes up was built and measured)
and `Heeded` (from the reading on, the reading is one this round may use).  It
splits into a part about the job and a part about the run, and the second is
preserved without the first except at a claim: losing the job cannot make a run
deliver the wrong thing.  Every failure goes through `Over`, so one lemma
(`OverKeeps`) covers all failing branches; the rest is one lemma per action.

Three more results say what is true where `DrawingRunPromises` shows that what the
code says is not.  A second invariant, `Published`, follows the two files that go up:
what a run has published was accepted in it and is no later than its candidate, and
what it built last is its candidate.  From it:

* `PublishedDocumentsWereAccepted`: the document delivered was accepted by the gate in
  that run, and is the model's or an earlier one.
* `UnrepairedRunsPublishTheirModel`: a run that repaired no build delivers the document
  its model was built from.  So the repair loop is all that parts them.
* `AskingRunsBuildNothing`: a run that asks has built nothing; a model beside the
  questions is one an earlier run left.

`FleetProofs` proves `TheFleetUsesTheService`: `Fleet` implements `JobProtocol`,
for any machines and bounds.  A step of a machine is one action of the service or
leaves its rows alone; the invariant `MachinesAreSound` says that what a process
remembers (the job it runs, its word about Codex) is one the service knows.  So
the theorems of `ServiceProofs` hold of a fleet of claim loops.  On that it proves

* `AbsenceStaysToldOnce` (`AbsenceIsToldOnce`).  `FleetInv` adds that a process
  which has heard of an absent CLI once is down, or keeps that word and runs no
  drawing (`AbsenceIsHeeded`): to that word the service gives none.
* `LostStaysSilent` (`LostMeansSilent`).  The job's row says nothing of the
  machine, so `LastIsWatched` follows the last attempt: while it lasts, its holder
  runs it and renews, or something has happened that the property names.

* `TheFleetKeepsThePromise` and `TheFleetEndsJobsOnce`: with the theorems of
  `ServiceProofs`, instantiated for the fleet's service, a job among any number of
  machines lives the life of `JobLifecycle`, and no machine changes one that ended.

They assume that there is a job, that null is no code, no word about Codex and no
cause of the diagnosis, and that no worker reports LEASE_LOST.

`FilesProofs` proves, of `ArtifactDelivery`, `TypeCorrect` and
`OnlyLateUploadsReplaceFiles`: `DeliverySpec => []OnlyLateBytesDiffer`, with no
assumption on how long a request lasts.  A row is written at the end of a
completion, long after the files were compared, so the invariant (`Verified`) says
the same on the way: of each file a completion has compared, the stored bytes are
its run's or an upload of another run replaced them since (`ComparedOrOvertaken`).
Of `Uploads` it
proves `TheQuotaIsShared` (`QuotaIsShared`) and `FilesAreDiscarded`
(`RawFilesAreDiscarded`), for finite sets of requests and orders.  An upload is
counted only once its order is written; `Shared` counts it from the moment it was
let in, which is what makes the bound inductive.

`OrderDeskProofs` proves, for any number of jobs, rounds, answers and ways of
use that satisfy `DeskAssumption`:

* `TypeCorrect`, `RoundsArePointedAt` (`RoundsPointAtQueuedJobs`) and `EndsStand`
  (`AnEndIsAnEnd`).  The invariant adds that a round past its enqueue has a job
  (`QueuedRoundsAreJobs`); together with the fact that a queued job stays in the
  table (`QueuedForGood`) it covers the one handler that repoints an order without
  looking at its status, `record_round`.
* `HeldOrdersHaveModels` and `ReleasesAreOfWhatWasSeen`.  Until answers cross a
  model (`Crossed`, which stays: `CrossedForGood`) a careful desk has one thing
  going on at a time (`CarefulInv`), and `Steady` spells that out: why a round was
  started is still so when it is recorded (`Follows`), a hold follows the delivery
  of the job the order points at (`HoldsFollow`), and a page that can still be
  decided on shows the order as it is (`PageFollows`).
* of the page, `RecoveriesWork` (`StudioSpec => []AWriteAloneGetsThrough`):
  `RecoveryIsAlone` says that until the retry of a recovery that nothing overlapped,
  the only token on its way is the page's own and the one the row holds, and that
  what is sent again carries it.
* `ThePageUsesTheDesk` (`StudioSpec => Spec`): what the page's tabs do, lose, repeat or
  send late are steps of the desk or leave it alone; so `EndsStandUnderThePage`.

Null is assumed to be no round (`NullAssumption`) and no token
(`TokensAssumption`).

`LedgerProofs` proves `TheLedgerNeverCountsTwice` and `TheLedgerTakesWholeBatches`
(`NothingCountedTwice`, `BatchesAreWhole`), for any number of attempts, workers,
repairs and tries and any size of batch.  A request is found again by its run and
the place of its batch, so what it carries must not move while it is under way: a run
that may still measure has nothing in the API (`NothingSentBefore`), and the places of
two batches of a run do not meet (`Span`).  `Ledger` says that a row is a measurement
some run made and that keys are unique; `Deliveries` what a request under way was let
in with and has seen, since it reads the table in one transaction (`SeenAreRows`) and
writes it in another, and that what was accepted is there.

`HoldersAreBooked` is violated, by a run that repairs a build.  That this is the only
way is `UnrepairedRunsAreBooked`: of the run that holds the job, if it repaired no
build, the API refuses no batch it does not have.  `HInv` adds that such a run makes no
key twice (`KeysAreNew`: what it may have measured, stage by stage), so a row of one of
its keys is its own measurement (`KeysTellMeasurements`); that a refused run stays where
it is until it has heard so; and that a machine which starts on the job again has no
earlier run of it waiting.

Of `JobCosts` it proves

* `FinalPricesStand` (the action property `FinalPriceStands`): a save deletes the rows
  it read some time before, and `DraftsAreDrafts` says that these were all drafts.
* `NoSecondIsBilledTwice` (`BilledOnce`), for any finite ledger.  The spans can be put in
  order (`SpansCanBeSorted`), so the choice in `Sorted` is of an ordered list
  (`SortedIsInTurn`); of the first `k` of them, `SoFar` says that the total and the open
  interval together are the number of seconds some span covers, and that none of these
  is after the interval's end.  An ordered list keeps that true (`MergedStep`).
* `TheLeastPriceIsCharged` (`PriceIsTheLeast`): that a price pays for everything is a
  linear condition on it (`EarnsIsLinear`), the price `Price` solves for is where it
  turns true, and rounding up by whole hundredths adds nothing (`WholeStepsRoundUp`).

`CostsAssumption` says what the contracts and the engine enforce: amounts are not
negative, an event that has ended did not end before it began (`contracts.py:775`), a
margin is below one (`contracts.py:918`), and commission and margin leave something to
divide by (`engine.py:87`).

`CadBuildProofs` proves, for documents of any length and any choices of the
kernel:

* `PartsAreMeasured` (`CompletedIsMeasured`).  `RunInv` carries what the gate has
  established to the verdict: a stated size and body count, and that everything
  used is something the document requires.
* `BendsAreRefusedRightly` (`CentredBendsAreMeasured`), for any radii, profiles and
  number of bends.  `BendInv`: a sweep is alone in its document, so a refusal is of
  its path; the rest is arithmetic on the sides of a profile.
* `NothingBuiltIsLost` (`MaterialIsKept`) and `PatternsJoinNamedBodies`
  (`NamedBodiesGetTheirPatterns`).  Neither is inductive: both need the names.
  `Table` says of the list of bodies that a name is one body's (`NamesApart`), that
  whatever worked on a name is in the body which answers to it
  (`NamesHoldTheirWork`), that a named body is there or was eaten (`NamesStay`).
  The hard case is a boolean: the tools' indices come highest first
  (`IndicesDescend`), so each drop removes the body that was meant
  (`DropsInTurn`); that is where `twice` is needed, as `CadBuildAliases` shows.
  `Carried` is what a step does to the table, whichever feature takes it.
* `AcceptedDocumentsBuild` (`AcceptedFailsWhereKnown`).  `Gated` is what the gate
  leaves of a document, in the form the table needs (`AcceptedIsSound`): a result that
  a build does not find is of a feature that is off or makes none of that kind, or
  was eaten by a boolean (`MissingBodiesAreGone`).

`DataLemmas` has what these use of numbers, sequences and folds.  A lemma cannot
take an operator for a parameter here, so induction is stated of sets: a property
is the set of what has it (`LEMMA LeastOfNat` and those after it, `SetsByInduction`).
A fold is handled through the table of its intermediate results (`FoldTable`,
`SumTable`), wrapped in a first-order operator of the model (`DropAll`, `MergedAll`).

Every invariant and every action property of the passing runs is a theorem.
Model-checked only: the liveness properties, since the prover does not reason about
fairness and ENABLED.  They are `PausesEnd`, `SilentFleetHoldsNothing`,
`PausedReadingContinues`, `SpentJobsEnd`, `UnreviewedReadyEnds`, `ThePageKeepsUp`,
`HoldsEnd`, `DrawingsAreTaken` and `NobodyIsShutOut`.

## 6. Not modelled, and the plan

Not modelled and not planned: geometry beyond `SweepPath` (floating point in a
CAD kernel), image decoding, migrations and deployment, passwords and one-time
codes, the operator's page beyond the version it remembers, the demonstration the
web client shows without a session, wording and layout everywhere.

Not modelled yet:

1. *`shape_claim.py` and `normalizer.py`* of CAD-IR: whether the model's reading of
   a drawing and its document agree, and the translation of older documents.
2. *The engine and Codex processes*: timeout, kill and answer of one container or
   CLI, and the output file that is believed because it exists.
3. *The sign-in lockout*: counters that two attempts may race on.
4. *The in-memory order repository*, and the adoption of older order files.

No proof is planned: what the runs check and the provers reach is proved.
