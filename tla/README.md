# Formal models of the ramp flight optimizer

TLA+ specifications of this repository: of the parts whose correctness depends on
interleavings, crashes and retries, and of the optimizer, whose constraint model,
staged solve and two passes must agree with each other; the TLC configurations that
check them on small instances; and theorems with proofs checked by TLAPS.  Paths are
relative to the repository; line numbers are in `PROJECT.json`, which maps every
definition to the code it stands for.

    tlc -workers 2 -config MCSupervision.cfg MCJobQueue.tla
    for m in JobQueue JobAdmission JobOutcome InputVersions ImportReview JobTracking \
             Schedule Pass; do tlapm ${m}Proofs.tla; done

## The system

| Component | State | Operations | What must be right |
|---|---|---|---|
| **Job admission** (`ramp_optimizer_api/job_services.py`, `job_routes.py`) | `optimization_jobs`, `optimization_job_requests` | `submit`, with one retry | a key names one job for one input for ever; one active job per fingerprint; a soft capacity |
| **Job rows** (`ramp_optimizer_persistence/jobs.py`) | status, active key, claim token, checkpoint, run of each job | `claim_job`, `cancel_job`, `owned_job`, `checkpoint`, `finish` | ended rows are frozen, runs are published exactly once, cancellation wins if it commits first |
| **Local worker** (`ramp_optimizer_api/local_worker.py`) | a supervisor's locals, its child process, a pipe, a watchdog | `recover_expired`, `run_once`, `solve_child`, `main` | one supervisor per job, never re-executed, no leaked process, every claimed job ends |
| **Input versions** (`input_services.py`, `persistence/versions.py`) | a linear history of versions per date | `create` drafts and revisions, optimistic concurrency, idempotency keys | no branch, no lost revision, a retry is answered with the first version |
| **Import review** (`ramp_optimizer_imports/services.py`, `persistence/imports.py`) | imports, their revisions, confirmations, compositions | `upload`, `correct`, `confirm`, `combine`, `readiness` | confirmed imports are frozen, one snapshot per confirmation, one composition per pair |
| **Adapters** (`employee_schedule.py`, `daily_flight_log.py`, `teamwork_import.py`) | none | parse, correct, revalidate | eligibility of a preview, ids |
| **Optimizer** (`ramp_optimizer/optimizer.py`, `candidates.py`, `execution.py`) | locals of one solve: model, locked objectives, last schedule, deadline, checkpoint | `_build_model`, lexicographic stages, emergency pass, adoption, `_build_result`, `_finalize_result` | a valid day has a legal schedule; later stages never worsen earlier ones; adoption never loses coverage; the linear encodings mean what the result reports |
| **Schedule rules** (`eligibility`, `timing`, `intervals`, `staffing`, `workload`) | none | pure functions | boundaries, overlap, rounding |
| **Input validation** (`validation.py`) | none | `validate_operational_day` | whatever passes can be modelled and solved without an exception or an overflow |
| **Persistence** (`repositories.py`, `serialization.py`, `models.py`) | snapshots and runs, immutable | insert, integrity-checked read | a damaged row is noticed |
| **Dashboard** (`frontend/src/useOperations.ts` and views) | selected version, tracked job, status and result shown, poll loop and epoch, unanswered submission, local storage | poll, optimize, cancel, restore, refresh, load, revise, select, reload | a status never goes back, what is followed is shown to its end, a repeated submission finds its job |
| **Routes, CLI, reporting, migrations, benchmarks** | none | conversion and output | not a concurrency matter |

Requests are served by a thread pool (the endpoints are plain `def`), workers are
separate processes, solvers are processes spawned by workers; they share nothing
but the SQLite database and, between a worker and its child, one pipe.  The
dashboard only talks HTTP.  What is hard: SELECTs whose answer is stale at the
write, processes that die between any two steps, a pipe that is read between a
cancellation, a deadline and an exit, and retries of what was already done.  The
list, line by line, is `PROJECT.json` "hazards".  The optimizer is sequential; hard
there is that the same figure is computed twice, by constraints that CP-SAT sees and
by code that scans the schedule, and that a time budget may end between any two of
the seventeen stages (eighteen with leads).

## Modules

| Module | Models |
|---|---|
| `JobRows` | the tables of the queue and every update of a job row: `CancelledRow`, `Owns`, `FinishedRow`, ... and the transactions `CancelJob`, `StoreCheckpoint`, `StoreFinish` |
| `JobAdmission` | `submit`, one action per SELECT and one for the write: `LookUpKey`, `LookUpActive`, `CountPending`, `InsertJob`, `InsertAlias`, `LoseRace` |
| `LocalWorker` | `recover_expired` (`ReadClaimed`, `ExpireRow`, `ExpireRaises`), `claim_job` (`SelectJob`, `ClaimJob`), the supervision loop (`StartChild`, `CheckStop`, `PollNothing`, `PollEof`, `Receive`, `CheckAlive`, `FinishJob`), its handlers (`HandleInterrupt`, `CleanUp`), the child (`ChildCheckpoint`, `ChildReturn`, `ChildExit`, `ChildWatchdog`, `ChildCrash`), time and faults |
| `JobQueue` | the composition, its properties, its fairness and its refinement mapping |
| `JobContract` | the abstract specification: keys name jobs, jobs move through their states, a closed job publishes at most one result |
| `MCJobQueue` | the symmetry of the small instances |
| `JobQueueProofs`, `JobAdmissionProofs`, `JobOutcomeProofs` | theorems and proofs: types, rows and claims; keys and capacity; processes, outcomes and refinement |
| `InputVersions` | `InputService.create`: `StartDraft`, `StartRevision`, `LookUp` (idempotency), `ReadRows` (stale parent, removal, candidate, validation, next number), `Write` with the two unique constraints, `Retry`, `DatabaseFails`, `Crash` |
| `VersionHistory` | the abstract specification: one append per version, a revision follows its parent |
| `MCInputVersions` | the inputs, snapshots and symmetry of the small instances |
| `InputVersionsProofs` | theorems and proofs |
| `ImportReview` | `ImportService` over its repository: `Upload`, `Claim` (`claim`, `claim_confirmed`), `Correct`, `Confirm`, `Combine`, `CreateDay`, `Link` (`confirm`, `compose`), `Commit`, `Fail`, and the gate `Ready` before `Optimize` |
| `ReviewContract` | the abstract specification: revisions only grow, a review is settled by one day, a day comes from one review or one pair |
| `MCImportReview` | workbooks, corrections and symmetry of the small instance |
| `ImportReviewProofs` | theorems and proofs |
| `JobTracking` | `useOperations` over `JobContract`: the effects (`RunEffects`), the poll loop (`ServePoll`, `ReceiveStatus`, `ReceiveResult`, `Interrupt`, `PollAgain`), every operation under `mutate` as click, handling and answer (`ClickOptimize`, `ServeMutation`, `ReceiveOptimize`, ...), lost requests and answers (`FailPoll`, `FailMutation`, `HandleLate`), `ReloadPage`, other pages and workers |
| `MCJobTracking` | jobs and keys of the small instance |
| `JobTrackingProofs` | theorems and proofs |
| `ScheduleRules` | the types of a day and a configuration, flight types, work windows, staffing bounds, eligibility, workload units |
| `InputValidation` | `validate_operational_day` as the set of issues it finds |
| `SolverModel` | the candidates, constraints and objectives of `_build_model` |
| `ScheduleResult` | the figures that the result derives by scanning a schedule, and their agreement with the model |
| `ScheduleBuild` | one pass up to its solver: `Validate`, `BuildModel`, `Solve` |
| `OptimizerPasses` | `optimize_schedule`: stages, locks, budget, checkpoints, the emergency pass, its adoption and the published fields |
| `MCScheduleBuild`, `MCOptimizerPasses` | days and configurations of the small instances |
| `ScheduleProofs`, `PassProofs` | theorems and proofs: validation, schedules, figures and scans of one pass; the two passes |

### How state corresponds to the code

`row[j]` is a row of `optimization_jobs`; jobs are numbered in the order of
`created_at`.  `submit` reads the clock before its INSERT waits for SQLite's write
lock, so a row can be inserted below one that is already stored (`NextRow`).
`checkpoint` and `result_run` abstract a document to the stage it was emitted
after, `Final` being the complete response.  `progress_json`, timestamps and
configuration are left out; a checkpoint that carries progress only changes
nothing that is modelled.  `intact[j]` says whether `get_operational_day` would
accept the job's snapshot.

pysqlite opens a transaction at the first write of a session and SELECTs before it
take no lock.  So each SELECT of `submit` and of `claim_job` is a step of its own,
and what follows from the first write to the commit is one step.  `owned_job`
begins with an UPDATE, so `checkpoint` and `finish` are one step each, and an
exception in `finish` rolls all of it back.

`worker[w].pc` is the place in `run_once`: `recover`, `expire`, `claim`, `load`,
`check` (cancellation, deadline), `poll`, `alive`, `finish`, `interrupted` (the
`BaseException` handler), `cleanup` (the `finally` clause), `down`.  `child[j]` is
the process spawned for `j` with the pipe only its supervisor reads.  The pipe is
a sequence; a process that dies inside a send leaves a truncated message, which
makes `recv` raise.  Deadlines are flags that time may set at any moment.

In `InputVersions` a version is named by the request that stored it, `request`
stands for its fingerprint and `content` for the snapshot, whose hash is taken to
be injective.  An input is its date, its employees and whether limits, calendar
bounds, mapping and domain validation accept it.  What is stored of one version
never changes, so reading it needs no step of its own; the lookup of the key and
the list of the date's versions are two SELECTs and two steps.  A request that a
crash interrupts is lost; a client that repeats one sends another `Call`.

In `ImportReview` every request is one transaction whose first statement is an
UPDATE.  The UPDATE takes SQLite's write lock, so `Claim` waits until no other
request holds it; what follows is read from and written to `call[c].work`, which
`Commit` installs in `stored` and `Fail` forgets.  A failure after the commit is the
reply `"LOST"`: the client does not know, and repeats the call.  The rows of a
preview are reduced to the operational dates at which they have no error, which is
all that revalidation, correction and confirmation ask of them; `Excluded` is a row
the reviewer dropped.  `Earlier` are reviews an earlier release has stored with
issues that the present one would not report: they are the reason why confirming a
flight log may append a revision of its own.

In `SolverModel` a schedule is a set of pairs `<<employee, flight>>`, the fixed ones
and the decisions taken.  Every other CP-SAT variable is tied to the decisions by
linear constraints; `...Values` is the set of values these leave to it, so that the
encoding is exact where this set is a singleton.  CP-SAT is external: `Solutions`
are all schedules that satisfy the constraints, and a stage ends with an optimal one
of them, with any feasible one, or with none, as its status allows
(`ProveStage`, `ProveLastStage`, `StopFeasible`, `StopUnknown`).
`ScheduleResult` scans the schedule as `_build_result` does, and `...Agree` compare
the two.  Times are counted in units of ten minutes.  An employee id is a pair of
its letters and its inner white space: validation compares the first and the
optimizer both.

In `JobTracking` the server is an instance of `JobContract`, the abstract
specification that `admission` and `supervision` show the queue to implement, with the
input versions as its inputs.  `partial` are the jobs with a checkpoint, the one thing
that polling sees and the contract leaves out.  JavaScript is single-threaded, so a
step of the page is what runs between two awaits; a request is served in one step and
answered in a later one.  `poll` is the loop whose controller is not aborted: replacing
it aborts the old one, and `live` says whether its `epoch` is still `pollEpoch.current`.
`mutation` is the lock of `mutate` with the request under it.  React runs effects after
the answer that caused them and before the next click, which is why clicks wait for
them (`Free`) and answers of the poll do not; `effects` says why they will run.
`submission` and `stored` are the ref and the local storage of the same purpose.
`known` is the page's list of versions.  The initial load of the page and failing local
storage are left out.

## Runs

| Run | Instance | Shows |
|---|---|---|
| `admission` | 4 requests, 2 at once, 2 keys and the legacy keys, 3 inputs, capacity 1, no worker | `RepliesAgreeWithKeys`, `SoftCapacity`, refinement of `JobContract` |
| `supervision` | 2 supervisors, 1 job, 2 checkpoints, 2 crashes or exceptions, damage, suspension | single supervision, exactly-once publication, outcomes, no leaked child, frozen rows, ordered checkpoints, no re-execution, refinement |
| `ending` | 2 supervisors, 1 job, 1 crash, suspension, fairness | `ClaimedJobsEnd`, `SolversEnd` |
| `draining` | 2 requests at once, 2 inputs, 1 worker, 1 crash, fairness | `QueueDrains`, `PostsAnswered`, the active key through every ending |
| `input_history` | 4 requests, 2 at once, 3 keys, 2 inputs, 2 snapshots, a failing operation, a crash | one line per date, keys, justified refusals, progress behind every conflict, refinement of `VersionHistory` |
| `import_review` | 4 calls, 2 at once, 2 imports of which 1 is from an earlier release, 1 row, 2 dates, 2 configurations, failing statements, lost answers | `AnswersHold`: what a client was told stays true; `OptimizedDaysAreReviewed`; refinement of `ReviewContract` |
| `tracking` | 1 page, 2 jobs, 2 versions, 3 actions of the supervisor or of other pages, 2 failures, fairness | `RetriesFindTheirJob`, `StatusNeverStepsBack`, `FollowedToTheEnd` |
| `schedule_model` | days of up to 3 flights and 3 employees, 6 configurations, 13 broken days, every solution | `ValidDaysHaveSchedules`, `SchedulesAreLegal`, and that constraints and scans give the same figures |
| `optimizer_passes` | days of 2 flights, 1 or 2 agents and 1 or 2 leads, 3 configurations, the budget ending in stage 1, stage 7 or nowhere, both passes | the eight properties at the end of `OptimizerPasses`: values kept and best, monotone checkpoints, adoption in the lexicographic order of the critical scores and leads only where needed, fields that agree, no exception but one |
| `result_kept`, `abandoned` | 1 worker | a sentence of `docs/BACKGROUND_JOBS.md` that some behaviour contradicts |
| `lead_value` | the days of `optimizer_passes` | a docstring of `optimizer.py` that some schedule contradicts |

Bounds, and why they are enough.  `Threads` is the size of the server's pool, at
least two so that requests race; three posts are needed for one to lose twice
(`JOB_ADMISSION_CONFLICT`), three different inputs for two racing admissions to
exceed a capacity that an earlier one has filled, a fourth post for a retry.  Jobs
interact only through the active key, the count and the order of claims, so
`supervision` and `ending` use one job and `draining` two.  Two supervisors are the
smallest number in which one recovers, or races for, what another holds.  Two stages
separate an old from a new checkpoint and both from the final result.  `MaxCrashes`
bounds kills and exceptions: one leaves a claim abandoned, a second kills its recovery.
In `admission` no worker runs, jobs end by cancellation, and the system stops once
every request is answered, so deadlock is not an error there; `supervision`, `ending`
and `draining` never stop and are checked for it.  The type invariants are in no run of
their own: they are theorems.

In `tracking` two actions are needed for a submission and its cancellation or its
repetition, the third is another page's or a reload; two failures lose an answer and
then a poll, or the answers of two operations.  Two jobs are one and its successor on
the same version, or one on each of two versions.  When all is answered, all jobs have
ended and the bounds are used up, the page rests.

In `input_history` two requests are needed for a race, three for one to lose both
its attempts, a fourth for the parent that the others revise or for a repetition, and three
keys for a history of three versions.
Histories of different dates share nothing, so there is one date with a history;
the second date is that of inputs and requests that do not fit it.  The system
stops once every request is answered.

In `import_review` two calls are needed to confirm both parts of a day and a third to
combine them; the fourth is a repetition, a correction or a rival.  Imports interact
only through combinations, so one employee schedule and one flight log are enough, and
a second configuration and a second date are those of inputs that do not fit.  One row
shows every outcome of a workbook: resolved at the date, at both dates, excluded or
unresolved.  The system stops once every call is answered.

In `schedule_model` three flights are the smallest day with a streak, two breaks and
a continuity pair with something between them.  The windows touch, overlap, or leave
gaps just below, at and above the break, the streak reset and the continuity
horizon.  `MaxSolverInteger` stands for `MAX_CP_SAT_INTEGER`, 2^63 - 1; 1100 lies
just above the largest workload of the accepted days, so that the same day
passes with one workload scale and is refused with a larger one.  In
`optimizer_passes` two flights and two leads let leads stand in for an agent, for each
other, or for nobody; the budget ends in the first stage (no proof at all), in a stage
between the critical and the ordinary ones, or never.  These instances are
enumerated, not sampled: every day with every configuration and every solution.

Fairness (`Fairness` in `JobQueue`).  A request that is being served and a running
worker take their next step (thread and process scheduling); a worker that went
down is started again (the operator's duty according to the documentation); time
passes for a running solver and for a claim (`DeadlinePasses`, `BecomeOverdue`);
the watchdog thread fires after the deadline; a process that has sent its last
message exits.  Nothing is assumed of the solve itself, of clients, of
cancellations or of faults.

`FairSpec` of `JobTracking` assumes that React runs pending effects, that timers fire,
that a request that is neither lost nor given up is answered, and that the server
begins queued jobs and ends begun ones, which is what `QueueDrains` and
`ClaimedJobsEnd` show of it.  Nothing is assumed of the supervisor.

The liveness runs are made without damaged snapshots.  With them recovery can be
blocked for ever, which is what `abandoned` shows.

### Where documentation and code disagree

* `result_kept`: the pipe is polled, the child sends its result and exits, the
  child is found dead: the job fails as `WORKER_PROCESS_EXITED` with its result
  unread (`local_worker.py:117` and `:141`).
* `abandoned`: `finish` raises for an abandoned job with a checkpoint whose
  snapshot is damaged, `recover_expired` does not catch it, and every worker ends
  at that row on every start; the job never ends and the queue stands still.
* `lead_value`: `_constrain_emergency_lead_value` lets a lead count as needed on
  every flight that has no more than the minimum crew.  A flight that two unqualified
  agents could staff is given to two fully qualified leads, which frees the agents for
  another flight; the model accepts it, but no reason is found to report for either
  lead, each being the other's spare, so that the better schedule is discarded as
  unusable (`optimizer.py:2168` promises "independently measurable critical value").

More is visible in the models and has no run of its own.  A revision and its repetition
run at once; the first commits between the repetition's lookup of the key and its list of
versions (`input_services.py:90`), and the repetition is refused as
`STALE_INPUT_VERSION` by its own version, where `docs/INPUT_MANAGEMENT.md:99` promises
the same resource: `RetriesAreNotStale`, as an `INVARIANT` of `MCInputHistory.cfg`, is
violated.  A result that is
received after a cancellation was accepted ends the job and releases its active key
before the child has been joined (`docs/BACKGROUND_JOBS.md:126` says it is joined
first).  A new key can be bound to a job that ended while it was being admitted
(`docs/BACKGROUND_JOBS.md:179`).  And two inputs that validation accepts make the
optimizer raise: a fixed assignment that spells its employee with other inner white
space (`ValidDaysHaveSchedules` allows just this), and, in the emergency pass, an
employee with an ordinary shift and one as a lead (`OnlyMixedRolesRaise`), where the
docstring at `optimizer.py:2099` speaks of "supporting mixed-role days".

`docs/OPERATIONAL_READINESS.md:72` says that the emergency outcome is adopted "only if
it improves the implemented critical comparison without making protected outcomes
worse".  `AdoptionImproves` says the same, and as an `INVARIANT` of `MCPasses.cfg` it is
violated in both halves.  An outcome of equal score is adopted when it has leads
(`optimizer.py:499`, asserted by `tests/test_reporting.py:468`); by `LeadsNeeded` this
happens only when the budget ended before the number of leads was proven minimal.  And
the comparison is lexicographic (`optimizer.py:142`): a schedule that covers one more
flight is adopted although an employee who had a break loses it, even when both passes
are proven.  `PublishedLeadsAreNeeded` states the order that the code does keep.

`cancel` of the dashboard invalidates the poll loop before it sends its request
(`useOperations.ts:195`), and only its success starts another.  When the request fails,
the loop ends at the next answer.  The failed operation is shown, but a panel that
was already saying "Status updates interrupted: ... Retrying automatically"
(`JobPanel.tsx:105`, `docs/SUPERVISOR_DASHBOARD.md:84`) goes on saying so while nothing
retries: `InterruptedPollsRetry`, as an `INVARIANT` of `MCTracking.cfg`, is violated by a
poll that fails, a click on cancel and its failure.  `FollowedToTheEnd` therefore allows
a stand-still under a failed operation (`Stalled`), and the run shows that nothing else
ends the loop too early.  Likewise `restore` and `optimize` leave the running poll valid
until React runs their effects, and show an answer that may be older than what was
polled meanwhile: a status may go back for a moment, which is the exception that
`StatusNeverStepsBack` makes for them.

## Proofs

Every safety invariant, every action property and every refinement that a passing run
checks is a theorem, for every value of the constants.  The assumptions are the named
ones of the modules and nothing else; each says no more than the types of constants,
that the null values are not data, and that there are enough rows for the requests
(`AdmissionAssumption`).

### The queue

`JobQueueProofs`, `JobAdmissionProofs` and `JobOutcomeProofs` speak of every number of
requests, keys, inputs, supervisors, stages and crashes, from `RowAssumption`,
`AdmissionAssumption` and `WorkerAssumption`:

| Theorem | States |
|---|---|
| `TypeCorrect` | `Spec => []TypeOK` |
| `EndedRowsStay` | `Spec => TerminalRowsFrozen` |
| `PublishedOnce` | `Spec => []PublishedExactlyOnce` |
| `OneActive` | `Spec => []OneActiveJobPerInput` |
| `SingleSupervisor` | `Spec => []OneSupervisor` |
| `RepliesAgree` | `Spec => []RepliesAgreeWithKeys` |
| `CapacitySoft` | `Spec => []SoftCapacity` |
| `SolvedOnce` | `Spec => NeverReexecuted` |
| `NoSolverLeaks` | `Spec => []NoLeakedSolver` |
| `OutcomesConsistent` | `Spec => []OutcomeConsistent` |
| `CheckpointsMoveForward` | `Spec => CheckpointsAdvance` |
| `Refines` | `Spec => ImplementsContract`: every step is a step of `JobContract` or changes nothing of it |

Rows.  `TypeOK` is not inductive: `finish` writes the status of a verdict that was
chosen earlier, and `INSERT` the inputs of a request.  `ControlOK` says what each
program counter promises about them, and `TypeOK /\ ControlOK` is inductive.
`StepIsRowStep` then reduces every step of every actor to one of six row updates
(`RowStep`): insert, claim, cancel, checkpoint, finish or nothing.  The theorems about
rows need only look at those six.  `PublishedExactlyOnce` is strengthened by "a job
that was never claimed has no checkpoint", because cancelling a queued job ends it
without a run.  `OneSupervisor` is strengthened by "a supervised job has left the
queue", together with the lemmas that nothing returns to the queue and that only the
winning claim starts supervision.

Admission.  Of what a request has read, `NamesOK` keeps what cannot become false: a
bound key names an existing job for its input (`KeysNameJobs`), the job found active
has the input of the request even after it ended (`FoundJobsMatch`), and an answer is
that of its key (`AnswersAreFinal`).  `SoftCapacity` is strengthened in `CapacityOK` by
the requests that have passed the guard and not inserted yet: each occupies a thread,
and the last one to pass saw fewer jobs than the limit.

Outcomes.  `StepKind` reduces the steps to seven kinds, by what they do to supervisors
and processes.  `SupervisionOK` says that the fence of a supervisor opens for its own
claim, and that the verdict it is about to store is sound for the row as it is now: a
row that was being cancelled when the verdict was chosen is still that, or has ended.
`PipesOK` says that the messages in a pipe continue the stored checkpoint without a gap
and that nothing follows a result or an error; with `OpenRowsUnfinished` this gives the
order of checkpoints and the agreement of status, error and result.  `SolvedOnce` rests
on `ChildrenFresh`: a process exists only for a job that was claimed, and not before the
winner of the claim spawns it.

### Input versions

`InputVersionsProofs` speaks of every number of requests, threads, dates, keys,
employees, inputs and faults, from `InputAssumption`:

| Theorem | States |
|---|---|
| `TypeCorrect` | `Spec => []TypeOK` |
| `NeverBranches` | `Spec => []LineNeverBranches` |
| `NoGaps` | `Spec => []NumbersHaveNoGaps` |
| `OneVersionPerKey` | `Spec => []KeysNameOneVersion` |
| `StaleRefusalsAreRight` | `Spec => []StaleIsJustified` |
| `ConflictsArePaid` | `Spec => []ConflictsMeanProgress` |
| `Refines` | `Spec => ImplementsHistory`: every step appends one version to the abstract history or changes nothing of it |

What a request has read may be stale when it writes, but part of it cannot become
false, because versions are never changed: the numbers below the one it will use are
taken, and its parent or source is still there (`StillTrue`).  `StepKind` shows that
every step stores nothing (`QuietStep`) or is the INSERT of one request (`Stores`).
There the unique constraint says that the number itself is free, and the absence of
gaps that everything above it is free too (`StoreIsNewest`): the parent read long ago
is still the head of the line.  Refusals are explained by `RefusalsOK`: a stale
revision has a parent with a successor or another hash (`Justified`), which versions
that never change keep true; and each attempt that a request lost is paid with a stored
version of its own or a failed operation (`Paid`): the version that the first attempt
met has another key and a smaller number than what the second one stores.

### Import review

`ImportReviewProofs` speaks of every number of calls, threads, imports, rows, dates and
configurations, from `ReviewAssumption`:

| Theorem | States |
|---|---|
| `TypeCorrect` | `Spec => []TypeOK` |
| `AnswersStayTrue` | `Spec => []AnswersHold` |
| `OnlyReviewedInput` | `Spec => []OptimizedDaysAreReviewed` |
| `Refines` | `Spec => ImplementsContract` |

The invariant `Inv` has one part per question.  `Consistent` relates the tables: a
confirmed review is resolved and has its day, a joined pair has its own, ids and pairs
are unique.  `WorkingCopy` says for each program counter how the copy of an open
transaction differs from the tables and which checks it has passed; it speaks of the
present tables, which is enough because `OneTransaction` keeps everyone else from
changing them (`QuietStep`).  `Grows` is what a commit may do to what others have seen
(`CommitStores`), and `OthersKeep` that no answer given before is falsified by it.  A
correction that succeeds on a revision finds it the newest one, which an earlier
success on the same revision excludes (`RivalsOK`).  An optimized day cannot be the day
of one confirmation, because that has no shifts or no flights (`OptimizeStep`).

### The page

`JobTrackingProofs` speaks of every number of jobs, versions, keys, clicks and lost
requests, from `TrackingAssumption`:

| Theorem | States |
|---|---|
| `RetriesFind` | `Spec => []RetriesFindTheirJob` |
| `NoStatusStepsBack` | `Spec => StatusNeverStepsBack` |

`PageOK` says what the page may believe of the server: every job it shows, follows,
has stored or is told of exists and has gone no less far since (`ServerOK`,
`MemoryOK`, `MutationOK`, `PollOK`), and what was left without an answer is the
submission that is still kept (`SubmissionOK`).  Jobs only move on and keys keep their
job (`Grows`), so no answer becomes false while it is under way.  `OrderOK` orders the
answers against each other: a poll that will be applied says no less than what is
shown, unless the effects of a restored or new job are still to run, and a cancellation
runs without a poll that would be applied.

### One pass of the optimizer

`ScheduleProofs` speaks of every set of days and configurations of the types in
`ScheduleRules` and every bound of the solver's integers, from `ScheduleAssumption`
and `SolverAssumption`:

| Theorem | States |
|---|---|
| `SchedulesLegal` | `Spec => []SchedulesAreLegal` |
| `SchedulesExist` | `Spec => []ValidDaysHaveSchedules` |
| `FiguresExact` | `Spec => []FiguresAgree` |
| `ScansExact` | `Spec => []ScansAgree` |

`BuildOK` says that what is past validation is a day without issues, that the
candidates are the legal ones and that the crews are a solution; the theorems are then
about operators.  What validation found not to be wrong is collected once
(`FlightsAreDerivable`, `ValidSettings` and their like), and the fixed assignments alone
are shown to satisfy every constraint.

Figures are sums, minima and maxima over sets, and the usual proof about them is an
induction over the set, which is out of reach here.  The proofs take a smallest
counterexample instead: two functions that both add up a term over the subsets of a
finite set (`AddsUp`), if they differed at all, would differ on a smallest subset, and
do not (`TotalsAgree`; the well-founded order on finite subsets is the library's).
Splitting a sum, comparing two and bounding one follow from that.  The linear encodings
are then shown to be singletons: each auxiliary variable has exactly one value left,
and it is the figure that is counted again from the crews.  For breaks and streaks the
flights of an employee are put in the order of their windows, their neighbours in it
are shown to be the pairs for which the model sets an arc (`Adjacent`), and the length
of a run is shown to be determined by where the arcs are (`Continues`, `CountedRuns`).

### Both passes

`PassProofs` speaks of the same days and configurations, of every order in which stages
are proven or stopped, and of both passes:

| Theorem | States |
|---|---|
| `ResultsTruthful` | `PassSpec => []ResultsAreTruthful` |
| `CheckpointsKeepValues` | `PassSpec => CheckpointsNeverWorsen` |
| `FieldsTellOneStory` | `PassSpec => []FieldsAgree` |
| `LeadsNeeded` | `PassSpec => []PublishedLeadsAreNeeded` |
| `PassFigures` | `PassSpec => []PassFiguresAgree` |
| `ProvenBest` | `PassSpec => []ProvenValuesAreBest` |
| `OnlyMixedRaise` | `PassSpec => []OnlyMixedRolesRaise` |
| `WorseRanOut` | `PassSpec => []WorseOnlyOutOfTime` |

The invariants build on each other.  `TruthOK`: the values recorded so far are those of
the schedule kept, of every schedule left in the space, and of the checkpoint.
`PassOK`: the day is valid, candidates are legal, and the ordinary pass holds no lead.
`KeptOK`: what a pass keeps is one of its model's solutions, so that the agreement of
figures, proved of any solution, holds of both passes.  `BestOK`: the space is exactly
the solutions that attain the recorded values, and no solution beats these; a
proven stage has an optimum because there are finitely many solutions and objectives
are integers (`ObjectivesAreIntegers`).  `FallbackOK`: the ordinary schedule is legal
independently of the candidates of a pass, and every ordinary candidate is one of the
emergency pass, so that a proven emergency stage cannot be worse; and a schedule that
scores higher in the adoption's order beats the other in the stages' order
(`HigherScoreGains`).  For `LeadsNeeded`, the ordinary schedule has no lead and would
beat an emergency schedule of equal score that has one in the seventh stage, which
minimizes leads (`LeadsCost`, `EqualUsesNoLead`).

### Only model-checked

The five liveness properties, `ClaimedJobsEnd`, `SolversEnd`, `QueueDrains`,
`PostsAnswered` and `FollowedToTheEnd`: fairness and `ENABLED` are beyond the prover.
What the runs `result_kept`, `abandoned` and `lead_value` find violated are
counterexamples, which a small instance settles.

## Not modelled

* Parsing of cells and file names, mapping between schemas and domain, serialization,
  layout of tables, HTTP and authentication: conversions without state.  The imports
  model takes over from a parsed preview.
* Type errors, time-zone awareness and the import configuration in `validation.py`:
  a day of the model has the types of the domain and one clock.
* Texts of warnings, summaries and explanations in `optimizer.py`.
* Overflow of the shift-adjusted deviations: their domains are products with the
  minutes of shifts, which validation does not compare with the solver's range
  (`validation.py:905` looks at workloads and their pairs only).
* CP-SAT, SQLite and the process and pipe primitives are external and appear as what
  the code can observe of them.
* The dashboard's editors, tables, import dialogs and timeline: presentation of what the
  server answers.  They call the services that are modelled and keep drafts of a form.
* Reporting, CLI, benchmarks and sample data: output.  Migrations: straight-line DDL.

## Plan

1. The job queue, input versions, import review, schedule rules, solver model,
   optimizer passes and the dashboard's job tracking (done).
2. Every safety and action property and refinement of the runs as a theorem (done).
3. Proofs to come: the lemmas about sums, orders and runs stated for any finite set,
   apart from the schedules they are used for; the safety part of the liveness
   arguments, that no step increases what is left to do of a job (a rank for
   `ClaimedJobsEnd` and `QueueDrains`); that a later objective never decides an
   adoption (`LaterImprovement`), which holds of the days of `optimizer_passes`.
