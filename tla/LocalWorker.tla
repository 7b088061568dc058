----------------------------- MODULE LocalWorker -----------------------------
(***************************************************************************)
(* local_worker.py: supervisors that claim one job at a time, the solver   *)
(* process each of them spawns with its watchdog, the pipe between them,   *)
(* and what can go wrong: a supervisor killed at any point, an exception   *)
(* in its loop, a solver that dies or hangs, a damaged snapshot, a host    *)
(* that was suspended.  Clocks are flags that time may set at any moment.  *)
(***************************************************************************)
EXTENDS JobRows, Sequences

CONSTANTS
  Workers,      \* supervisor processes
  MaxCrashes,   \* bound: kills and exceptions of supervisors
  Damage,       \* may a stored snapshot stop passing its integrity check?
  Suspends      \* may a supervised job outlive timeout + 30 s of wall clock?

ASSUME WorkerAssumption ==
  /\ MaxCrashes \in Nat
  /\ Damage \in BOOLEAN
  /\ Suspends \in BOOLEAN

VARIABLES
  worker,    \* the local variables of each supervisor
  child,     \* the solver process spawned for each job, and its pipe
  overdue,   \* has started_at + timeout + 30 s of a claimed job passed?
  minted,    \* worker tokens handed out so far (uuid4: never the same twice)
  crashes

workerVars == <<worker, child, overdue, minted, crashes>>

Verdict(status, result, error) ==
  [status |-> status, result |-> result, error |-> error]
NoVerdict == Verdict("NONE", NoResult, NoError)
TimedOut == Verdict("TIMED_OUT", NoResult, TimeoutError)
Failed(error) == Verdict("FAILED", NoResult, error)

Verdicts == [status : Terminal \cup {"NONE"}, result : Results, error : ErrorCodes]

\* Where a supervisor is in run_once; "interrupted" is its BaseException handler.
Supervision == {"load", "check", "poll", "alive", "finish", "interrupted", "cleanup"}
WorkerStages == {"down", "recover", "expire", "claim"} \cup Supervision

WorkerStates == [pc : WorkerStages,
                 job : Jobs \cup {NoJob},          \* selected or claimed
                 token : Nat,
                 rows : SUBSET (Jobs \X Nat),      \* what recover_expired read
                 verdict : Verdicts]               \* arguments of finish

IdleWorker == [pc |-> "recover", job |-> NoJob, token |-> NoToken, rows |-> {},
               verdict |-> NoVerdict]
StoppedWorker == [IdleWorker EXCEPT !.pc = "down"]

Message(kind, result) == [kind |-> kind, result |-> result]
Messages == [kind : {"checkpoint", "result", "error", "truncated"}, result : Results]

\* "closing": the last message is sent, the process has not exited yet.
ChildStates == [state : {"none", "solving", "closing", "gone"},
                exit : {"none", "0", "124", "other"},
                stage : 0 .. Stages,
                pipe : Seq(Messages),
                late : BOOLEAN,        \* timeout has elapsed since it started
                orphan : BOOLEAN]      \* its supervisor was killed

NoChild == [state |-> "none", exit |-> "none", stage |-> 0, pipe |-> <<>>,
            late |-> FALSE, orphan |-> FALSE]

WorkerInit ==
  /\ worker = [w \in Workers |-> IdleWorker]
  /\ child = [j \in Jobs |-> NoChild]
  /\ overdue = [j \in Jobs |-> FALSE]
  /\ minted = 0
  /\ crashes = 0

WorkerTypeOK ==
  /\ worker \in [Workers -> WorkerStates]
  /\ child \in [Jobs -> ChildStates]
  /\ overdue \in [Jobs -> BOOLEAN]
  /\ minted \in Nat
  /\ crashes \in 0 .. MaxCrashes

Alive(j) == child[j].state \in {"solving", "closing"}
Supervises(w, j) == worker[w].job = j /\ worker[w].pc \in Supervision
Supervised(j) == \E w \in Workers : Supervises(w, j)

Killed(c) == [c EXCEPT !.state = "gone",
                       !.exit = IF @ = "none" THEN "other" ELSE @]

ReapedChild == [NoChild EXCEPT !.state = "gone", !.exit = "other"]

Goto(w, pc) == worker' = [worker EXCEPT ![w].pc = pc]

\* Leave the loop with a call of finish.
Conclude(w, verdict) ==
  worker' = [worker EXCEPT ![w] = [@ EXCEPT !.pc = "finish", !.verdict = verdict]]

\* An exception inside the try: the handler is next.
Interrupted(w) ==
  worker' = [worker EXCEPT ![w] =
    [@ EXCEPT !.pc = "interrupted", !.verdict = NoVerdict]]

-----------------------------------------------------------------------------
(* recover_expired and claim_job.                                          *)

\* Mutant: recovery forgets jobs whose cancellation was requested.
MutantRunningRows ==
  {<<j, row[j].worker_token>> : j \in {i \in Jobs : row[i].status = "RUNNING"}}
ClaimedRows == {<<j, row[j].worker_token>> : j \in {i \in Jobs : row[i].status \in Claimed}}

ReadClaimed(w) ==
  /\ worker[w].pc = "recover"
  /\ worker' = [worker EXCEPT ![w] = [@ EXCEPT !.pc = "expire", !.rows = ClaimedRows]]
  /\ UNCHANGED <<rowVars, child, overdue, minted, crashes>>

\* One row of the list: finish it as lost, or skip it when it is not overdue.
ExpireRow(w, j, token) ==
  /\ worker[w].pc = "expire"
  /\ <<j, token>> \in worker[w].rows
  /\ \/ /\ overdue[j]
        /\ StoreFinish(j, token, "FAILED", NoResult, "WORKER_LOST")
     \/ ~overdue[j] /\ UNCHANGED rowVars
  /\ worker' = [worker EXCEPT ![w].rows = @ \ {<<j, token>>}]
  /\ UNCHANGED <<child, overdue, minted, crashes>>

\* finish raises outside run_once's handler: the worker process ends.
ExpireRaises(w, j, token) ==
  /\ worker[w].pc = "expire"
  /\ <<j, token>> \in worker[w].rows
  /\ overdue[j]
  /\ FinishRaises(j, token, NoResult)
  /\ worker' = [worker EXCEPT ![w] = StoppedWorker]
  /\ UNCHANGED <<rowVars, child, overdue, minted, crashes>>

\* Mutant: the SELECT without its status condition.
MutantOldest(j) == Exists(j) /\ \A i \in Jobs : i < j => ~Exists(i)
Oldest(j) ==
  /\ row[j].status = Waiting
  /\ \A i \in Jobs : i < j => row[i].status # Waiting

SelectJob(w) ==
  /\ worker[w].pc = "expire"
  /\ worker[w].rows = {}
  /\ \/ \E j \in Jobs :
          /\ Oldest(j)
          /\ worker' = [worker EXCEPT ![w] = [@ EXCEPT !.pc = "claim", !.job = j]]
     \/ /\ \A j \in Jobs : row[j].status # Waiting
        /\ worker' = [worker EXCEPT ![w] = IdleWorker]
  /\ UNCHANGED <<rowVars, child, overdue, minted, crashes>>

\* Mutant: the UPDATE of claim_job without its status condition.
MutantClaimable(j) == row[j].status \in Active
Claimable(j) == row[j].status = Waiting

\* The compare-and-set; losing it ends this run_once.
ClaimJob(w) ==
  LET j == worker[w].job IN
  /\ worker[w].pc = "claim"
  /\ \/ /\ Claimable(j)
        /\ minted' = minted + 1
        /\ row' = [row EXCEPT ![j] = ClaimedRow(@, minted')]
        /\ worker' = [worker EXCEPT ![w] = [@ EXCEPT !.pc = "load", !.token = minted']]
     \/ /\ ~Claimable(j)
        /\ worker' = [worker EXCEPT ![w] = IdleWorker]
        /\ UNCHANGED <<row, minted>>
  /\ UNCHANGED <<runs, intact, child, overdue, crashes>>

-----------------------------------------------------------------------------
(* Supervising one child.                                                  *)

\* A damaged snapshot is reported without a child; no result exists yet, so
\* this finish cannot raise.
StartChild(w) ==
  LET j == worker[w].job IN
  /\ worker[w].pc = "load"
  /\ \/ /\ intact[j]
        /\ child' = [child EXCEPT ![j] = [NoChild EXCEPT !.state = "solving"]]
        /\ Goto(w, "check")
        /\ UNCHANGED rowVars
     \/ /\ ~intact[j]
        /\ StoreFinish(j, worker[w].token, "FAILED", NoResult, "INPUT_INTEGRITY_FAILED")
        /\ worker' = [worker EXCEPT ![w] = IdleWorker]
        /\ UNCHANGED child
  /\ UNCHANGED <<overdue, minted, crashes>>

\* A cancellation is looked for before the deadline; both stop the child and
\* wait for its end before finish.
CheckStop(w) ==
  LET j == worker[w].job IN
  /\ worker[w].pc = "check"
  /\ \/ /\ row[j].status = "CANCELLING"
        /\ child' = [child EXCEPT ![j] = Killed(@)]
        /\ Conclude(w, Verdict("CANCELLED", NoResult, NoError))
     \/ /\ row[j].status # "CANCELLING"
        /\ child[j].late
        /\ child' = [child EXCEPT ![j] = Killed(@)]
        /\ Conclude(w, TimedOut)
     \/ /\ row[j].status # "CANCELLING"
        /\ ~child[j].late
        /\ Goto(w, "poll")
        /\ UNCHANGED child
  /\ UNCHANGED <<rowVars, overdue, minted, crashes>>

\* What the exit code of a child that ended without a verdict means.
ExitVerdict(c) ==
  IF c.exit = "124" THEN TimedOut ELSE Failed("WORKER_PROCESS_EXITED")

\* receiver.poll(0.05) is false: next ask whether the child is alive.
PollNothing(w) ==
  LET j == worker[w].job IN
  /\ worker[w].pc = "poll"
  /\ child[j].pipe = <<>>
  /\ Alive(j)
  /\ Goto(w, "alive")
  /\ UNCHANGED <<rowVars, child, overdue, minted, crashes>>

PollEof(w) ==
  LET j == worker[w].job IN
  /\ worker[w].pc = "poll"
  /\ child[j].pipe = <<>>
  /\ ~Alive(j)
  /\ Conclude(w, ExitVerdict(child[j]))
  /\ UNCHANGED <<rowVars, child, overdue, minted, crashes>>

\* One message; the checkpoint it carries is stored before the next poll.
Receive(w) ==
  LET j == worker[w].job
      message == Head(child[j].pipe)
  IN
  /\ worker[w].pc = "poll"
  /\ child[j].pipe # <<>>
  /\ \/ /\ message.kind = "checkpoint"
        /\ StoreCheckpoint(j, worker[w].token, message.result)
        /\ Goto(w, "check")
     \/ /\ message.kind = "result"
        /\ Conclude(w, Verdict("SUCCEEDED", message.result, NoError))
        /\ UNCHANGED rowVars
     \/ /\ message.kind = "error"
        /\ Conclude(w, Failed("SOLVER_EXECUTION_FAILED"))
        /\ UNCHANGED rowVars
     \/ /\ message.kind = "truncated"      \* recv raises OSError
        /\ Interrupted(w)
        /\ UNCHANGED rowVars
  /\ child' = [child EXCEPT ![j].pipe = Tail(@)]
  /\ UNCHANGED <<overdue, minted, crashes>>

\* The pipe is not looked at again when the child turns out to be dead.
CheckAlive(w) ==
  LET j == worker[w].job IN
  /\ worker[w].pc = "alive"
  /\ \/ Alive(j) /\ Goto(w, "check")
     \/ ~Alive(j) /\ Conclude(w, ExitVerdict(child[j]))
  /\ UNCHANGED <<rowVars, child, overdue, minted, crashes>>

FinishJob(w) ==
  LET v == worker[w].verdict IN
  /\ worker[w].pc = "finish"
  /\ \/ /\ StoreFinish(worker[w].job, worker[w].token, v.status, v.result, v.error)
        /\ worker' = [worker EXCEPT ![w] =
             [@ EXCEPT !.pc = "cleanup", !.verdict = NoVerdict]]
     \/ /\ FinishRaises(worker[w].job, worker[w].token, v.result)
        /\ Interrupted(w)
        /\ UNCHANGED rowVars
  /\ UNCHANGED <<child, overdue, minted, crashes>>

\* The handler and the finally clause: kill the child, fail the job, re-raise,
\* which ends the process.  When this finish raises too the row stays claimed.
HandleInterrupt(w) ==
  LET j == worker[w].job IN
  /\ worker[w].pc = "interrupted"
  /\ child' = [child EXCEPT ![j] = ReapedChild]
  /\ \/ StoreFinish(j, worker[w].token, "FAILED", NoResult, "WORKER_INTERRUPTED")
     \/ FinishRaises(j, worker[w].token, NoResult) /\ UNCHANGED rowVars
  /\ worker' = [worker EXCEPT ![w] = StoppedWorker]
  /\ UNCHANGED <<overdue, minted, crashes>>

\* Mutant: nothing is reaped.
MutantNoReap(w) ==
  /\ worker[w].pc = "cleanup"
  /\ worker' = [worker EXCEPT ![w] = IdleWorker]
  /\ UNCHANGED <<rowVars, child, overdue, minted, crashes>>

\* The finally clause after a break: the child is reaped if it still runs and
\* both ends of the pipe are closed.
CleanUp(w) ==
  /\ worker[w].pc = "cleanup"
  /\ child' = [child EXCEPT ![worker[w].job] = ReapedChild]
  /\ worker' = [worker EXCEPT ![w] = IdleWorker]
  /\ UNCHANGED <<rowVars, overdue, minted, crashes>>

-----------------------------------------------------------------------------
(* The solver process: it emits a checkpoint per completed stage, then its *)
(* result or an error.  A send to a killed supervisor fails and ends it.   *)

ChildCheckpoint(j) ==
  LET next == child[j].stage + 1 IN
  /\ child[j].state = "solving"
  /\ ~child[j].orphan
  /\ next \in 1 .. Stages
  /\ child' = [child EXCEPT ![j] =
       [child[j] EXCEPT !.stage = next,
                        !.pipe = Append(@, Message("checkpoint", next))]]
  /\ UNCHANGED <<rowVars, worker, overdue, minted, crashes>>

ChildReturn(j) ==
  /\ child[j].state = "solving"
  /\ ~child[j].orphan
  /\ \E message \in {Message("result", Final), Message("error", NoResult)} :
       child' = [child EXCEPT ![j] =
         [child[j] EXCEPT !.state = "closing", !.pipe = Append(@, message)]]
  /\ UNCHANGED <<rowVars, worker, overdue, minted, crashes>>

ChildExit(j) ==
  /\ child[j].state = "closing"
  /\ child' = [child EXCEPT ![j] = [@ EXCEPT !.state = "gone", !.exit = "0"]]
  /\ UNCHANGED <<rowVars, worker, overdue, minted, crashes>>

\* A process that ends inside a send leaves half a message in the pipe.
Dies(j, code) ==
  \E rest \in {<<>>, <<Message("truncated", NoResult)>>} :
    /\ child[j].state = "closing" \/ child[j].orphan => rest = <<>>
    /\ child' = [child EXCEPT ![j] =
         [child[j] EXCEPT !.state = "gone", !.exit = code, !.pipe = @ \o rest]]

\* Mutant: the watchdog lives and dies with the supervisor.
MutantWatchdog(j) ==
  /\ Alive(j)
  /\ child[j].late
  /\ ~child[j].orphan
  /\ Dies(j, "124")
  /\ UNCHANGED <<rowVars, worker, overdue, minted, crashes>>

\* The watchdog's os._exit(124).
ChildWatchdog(j) ==
  /\ Alive(j)
  /\ child[j].late
  /\ Dies(j, "124")
  /\ UNCHANGED <<rowVars, worker, overdue, minted, crashes>>

\* A native crash, an out-of-memory kill, or a send to a killed supervisor.
ChildCrash(j) ==
  /\ child[j].state = "solving"
  /\ Dies(j, "other")
  /\ UNCHANGED <<rowVars, worker, overdue, minted, crashes>>

-----------------------------------------------------------------------------
(* Time and faults.                                                        *)

DeadlinePasses(j) ==
  /\ Alive(j)
  /\ ~child[j].late
  /\ child' = [child EXCEPT ![j].late = TRUE]
  /\ UNCHANGED <<rowVars, worker, overdue, minted, crashes>>

BecomeOverdue(j) ==
  /\ row[j].status \in Claimed
  /\ ~overdue[j]
  /\ Suspends \/ ~Supervised(j)
  /\ overdue' = [overdue EXCEPT ![j] = TRUE]
  /\ UNCHANGED <<rowVars, worker, child, minted, crashes>>

DamageSnapshot(j) ==
  /\ Damage
  /\ Exists(j)
  /\ intact[j]
  /\ intact' = [intact EXCEPT ![j] = FALSE]
  /\ UNCHANGED <<row, runs, workerVars>>

\* SIGKILL or power loss at any point, or an exception outside the handler: a
\* child that was running is orphaned, what the pipe held is gone.
Crash(w) ==
  LET j == worker[w].job IN
  /\ worker[w].pc # "down"
  /\ crashes < MaxCrashes
  /\ crashes' = crashes + 1
  /\ worker' = [worker EXCEPT ![w] = StoppedWorker]
  /\ child' = IF worker[w].pc \in Supervision
                THEN [child EXCEPT ![j] =
                       [child[j] EXCEPT !.orphan = Alive(j), !.pipe = <<>>]]
                ELSE child
  /\ UNCHANGED <<rowVars, overdue, minted>>

\* Any exception inside the try: Ctrl+C, "database is locked", no memory.
Interrupt(w) ==
  /\ worker[w].pc \in {"check", "poll", "alive", "finish", "cleanup"}
  /\ crashes < MaxCrashes
  /\ crashes' = crashes + 1
  /\ Interrupted(w)
  /\ UNCHANGED <<rowVars, child, overdue, minted>>

\* The operator starts a worker again.
Restart(w) ==
  /\ worker[w].pc = "down"
  /\ worker' = [worker EXCEPT ![w] = IdleWorker]
  /\ UNCHANGED <<rowVars, child, overdue, minted, crashes>>

-----------------------------------------------------------------------------

WorkerStep(w) ==
  \/ ReadClaimed(w)
  \/ \E rowRead \in worker[w].rows :
       \/ ExpireRow(w, rowRead[1], rowRead[2])
       \/ ExpireRaises(w, rowRead[1], rowRead[2])
  \/ SelectJob(w)
  \/ ClaimJob(w)
  \/ StartChild(w)
  \/ CheckStop(w)
  \/ PollNothing(w)
  \/ PollEof(w)
  \/ Receive(w)
  \/ CheckAlive(w)
  \/ FinishJob(w)
  \/ HandleInterrupt(w)
  \/ CleanUp(w)

ChildStep(j) ==
  \/ ChildCheckpoint(j)
  \/ ChildReturn(j)
  \/ ChildExit(j)
  \/ ChildWatchdog(j)
  \/ ChildCrash(j)

WorkerNext ==
  \/ \E w \in Workers : WorkerStep(w) \/ Crash(w) \/ Interrupt(w) \/ Restart(w)
  \/ \E j \in Jobs : ChildStep(j) \/ DeadlinePasses(j) \/ BecomeOverdue(j)
                                  \/ DamageSnapshot(j)

=============================================================================
