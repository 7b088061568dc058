-------------------------- MODULE JobOutcomeProofs --------------------------
(***************************************************************************)
(* Theorems about supervisors, solver processes and the outcomes they      *)
(* store, and the refinement of JobContract, for all values of the         *)
(* constants.                                                              *)
(***************************************************************************)
EXTENDS JobAdmissionProofs

-----------------------------------------------------------------------------
(* Seven kinds of steps, by what they do to supervisors and processes.     *)

OnlyWorker(w) == \A v \in Workers : v # w => worker'[v] = worker[v]
OnlyChild(j) == \A k \in Jobs : k # j => child'[k] = child[k]
TablesKept == row' = row /\ runs' = runs

\* Requests, cancelling clients, clocks of rows and damage.
Quiet ==
  /\ worker' = worker /\ child' = child
  /\ \/ TablesKept
     \/ \E j \in Jobs, i \in Inputs : Inserts(j, i)
     \/ \E j \in Jobs : Cancels(j)

\* A worker that supervises nothing and still does not afterwards.
Outside(w) ==
  /\ worker[w].pc \notin Supervision
  /\ OnlyWorker(w) /\ worker'[w].pc \notin Supervision
  /\ child' = child
  /\ \/ TablesKept
     \/ \E j \in Jobs : Finishes(j, "FAILED", NoResult, "WORKER_LOST")

\* claim_job succeeds.
WinsClaim(w) ==
  /\ worker[w].job \in Jobs
  /\ worker[w].pc \notin Supervision
  /\ OnlyWorker(w)
  /\ worker'[w].pc = "load" /\ worker'[w].job = worker[w].job
  /\ child' = child
  /\ worker'[w].token \in Nat
  /\ Claims(worker[w].job, worker'[w].token)

\* A solver process is spawned.
Starts(w) ==
  /\ worker[w].job \in Jobs
  /\ worker[w].pc = "load"
  /\ OnlyWorker(w)
  /\ worker'[w].pc = "check"
  /\ worker'[w].job = worker[w].job /\ worker'[w].token = worker[w].token
  /\ OnlyChild(worker[w].job)
  /\ child'[worker[w].job] = [NoChild EXCEPT !.state = "solving"]
  /\ TablesKept

\* A supervisor gives its job up: nothing was spawned, the process is reaped,
\* or a kill leaves it behind.
Leaves(w) ==
  LET j == worker[w].job IN
  /\ j \in Jobs
  /\ worker[w].pc \in Supervision
  /\ OnlyWorker(w) /\ worker'[w].pc \notin Supervision
  /\ OnlyChild(j)
  /\ \/ worker[w].pc = "load" /\ child'[j] = child[j]
     \/ child'[j].state = "gone" /\ child'[j].pipe = <<>>
     \/ /\ child'[j].state = child[j].state
        /\ child'[j].stage = child[j].stage
        /\ child'[j].orphan = Alive(j)
        /\ child'[j].pipe = <<>>
  /\ \/ TablesKept
     \/ \E e \in FailureCodes : Finishes(j, "FAILED", NoResult, e)

\* What may be passed to finish for a job with row r.
SoundVerdict(v, r) ==
  /\ v.status = "SUCCEEDED" => v.result = Final /\ v.error = NoError
  /\ v.status # "SUCCEEDED" => v.result = NoResult
  /\ v.status = "CANCELLED" => r.status \in {"CANCELLING"} \cup Terminal
  /\ v.status = "TIMED_OUT" => v.error = TimeoutError
  /\ v.status = "FAILED" => v.error \in FailureCodes

Continues(w) ==
  /\ worker[w].job \in Jobs
  /\ worker[w].pc \in Supervision \ {"load"}
  /\ OnlyWorker(w)
  /\ worker'[w].pc \in Supervision \ {"load"}
  /\ worker'[w].job = worker[w].job /\ worker'[w].token = worker[w].token

\* A supervisor looks at the row and at its process, and may stop it.
Watches(w) ==
  LET j == worker[w].job IN
  /\ Continues(w)
  /\ worker'[w].pc = "finish" => SoundVerdict(worker'[w].verdict, row[j])
  /\ TablesKept
  /\ OnlyChild(j)
  /\ \/ child'[j] = child[j]
     \/ /\ child'[j].state = "gone"
        /\ child'[j].pipe = child[j].pipe

\* A supervisor takes one message from the pipe.
Receives(w) ==
  LET j == worker[w].job
      message == child[j].pipe[1]
  IN
  /\ Continues(w)
  /\ child[j].pipe # <<>>
  /\ OnlyChild(j)
  /\ child'[j].state = child[j].state
  /\ child'[j].stage = child[j].stage
  /\ child'[j].orphan = child[j].orphan
  /\ child'[j].pipe = Tail(child[j].pipe)
  /\ \/ /\ message.kind = "checkpoint"
        /\ worker'[w].pc # "finish"
        /\ IF Owns(row[j], worker[w].token)
             THEN Checkpoints(j, message.result) ELSE TablesKept
     \/ /\ TablesKept
        /\ message.kind = "result"
        /\ worker'[w].verdict = Verdict("SUCCEEDED", message.result, NoError)
     \/ /\ TablesKept
        /\ worker'[w].pc = "finish" => SoundVerdict(worker'[w].verdict, row[j])
        /\ message.kind # "checkpoint"

\* A supervisor calls finish.
Concludes(w) ==
  LET v == worker[w].verdict IN
  /\ Continues(w)
  /\ worker[w].pc = "finish" /\ worker'[w].pc # "finish"
  /\ child' = child
  /\ TablesKept \/ Finishes(worker[w].job, v.status, v.result, v.error)

\* A living process sends, ends, or outlives its deadline.
Moves(j) ==
  /\ worker' = worker /\ TablesKept
  /\ OnlyChild(j)
  /\ Alive(j)
  /\ child'[j].orphan = child[j].orphan
  /\ \/ /\ child[j].state = "solving" /\ child'[j].state = "solving"
        /\ ~child[j].orphan
        /\ child'[j].stage = child[j].stage + 1
        /\ child'[j].stage \in 1 .. Stages
        /\ child'[j].pipe = Append(child[j].pipe, Message("checkpoint", child'[j].stage))
     \/ /\ child[j].state = "solving" /\ child'[j].state \in {"closing", "gone"}
        /\ \E m \in {Message("result", Final), Message("error", NoResult),
                     Message("truncated", NoResult)} :
             child'[j].pipe = Append(child[j].pipe, m)
     \/ /\ child'[j].state = "gone"
        /\ child'[j].pipe = child[j].pipe
     \/ /\ child'[j].state = child[j].state
        /\ child'[j].stage = child[j].stage
        /\ child'[j].pipe = child[j].pipe

StepKind ==
  \/ Quiet
  \/ \E w \in Workers : \/ Outside(w) \/ WinsClaim(w) \/ Starts(w) \/ Leaves(w)
                        \/ Watches(w) \/ Receives(w) \/ Concludes(w)
  \/ \E j \in Jobs : Moves(j)

-----------------------------------------------------------------------------
(* Every step is of one of these kinds.                                    *)

LEMMA FinishKind ==
  ASSUME NEW j \in Jobs, NEW t, NEW s, NEW c, NEW e, StoreFinish(j, t, s, c, e)
  PROVE  TablesKept \/ Finishes(j, s, c, e)
  BY DEF StoreFinish, Finishes, Owns, TablesKept

LEMMA IdlePc ==
  /\ IdleWorker.pc \notin Supervision /\ StoppedWorker.pc \notin Supervision
  BY DEF IdleWorker, StoppedWorker, Supervision

LEMMA OutsideKinds ==
  ASSUME TypeOK, ControlOK, NEW w \in Workers,
         \/ ReadClaimed(w) \/ SelectJob(w) \/ Restart(w)
         \/ \E r \in worker[w].rows : ExpireRow(w, r[1], r[2]) \/ ExpireRaises(w, r[1], r[2])
  PROVE  Outside(w)
  <1>0. worker \in [Workers -> WorkerStates]
    BY DEF TypeOK, WorkerTypeOK
  <1>1. CASE ReadClaimed(w)
    BY <1>0, <1>1 DEF ReadClaimed, Outside, OnlyWorker, TablesKept, rowVars, Supervision,
       WorkerStates
  <1>2. CASE SelectJob(w)
    BY <1>0, <1>2, IdlePc DEF SelectJob, Outside, OnlyWorker, TablesKept, rowVars,
       Supervision, WorkerStates
  <1>3. CASE Restart(w)
    BY <1>0, <1>3, IdlePc DEF Restart, Outside, OnlyWorker, TablesKept, rowVars, Supervision
  <1>4. ASSUME NEW r \in worker[w].rows, ExpireRow(w, r[1], r[2]) PROVE Outside(w)
    <2>1. r[1] \in Jobs
      BY DEF TypeOK, WorkerTypeOK, WorkerStates
    <2>2. TablesKept \/ Finishes(r[1], "FAILED", NoResult, "WORKER_LOST")
      BY <1>4, <2>1, FinishKind DEF ExpireRow, TablesKept, rowVars
    <2>3. /\ worker[w].pc \notin Supervision
          /\ OnlyWorker(w) /\ worker'[w].pc \notin Supervision
          /\ child' = child
      BY <1>0, <1>4 DEF ExpireRow, OnlyWorker, Supervision, WorkerStates
    <2> QED
      BY <2>1, <2>2, <2>3 DEF Outside
  <1>5. ASSUME NEW r \in worker[w].rows, ExpireRaises(w, r[1], r[2]) PROVE Outside(w)
    BY <1>0, <1>5, IdlePc DEF ExpireRaises, Outside, OnlyWorker, TablesKept, rowVars,
       Supervision
  <1> QED
    BY <1>1, <1>2, <1>3, <1>4, <1>5

LEMMA ClaimKind ==
  ASSUME TypeOK, ControlOK, NEW w \in Workers, ClaimJob(w)
  PROVE  Outside(w) \/ WinsClaim(w)
  <1>0. worker \in [Workers -> WorkerStates]
    BY DEF TypeOK, WorkerTypeOK
  <1>1. /\ worker[w].job \in Jobs /\ worker[w].pc \notin Supervision
        /\ minted + 1 \in Nat
    BY DEF ClaimJob, Supervision, ControlOK, WorkerControlOK, TypeOK, WorkerTypeOK
  <1>2. CASE /\ minted' = minted + 1
             /\ Claimable(worker[w].job)
             /\ row' = [row EXCEPT ![worker[w].job] = ClaimedRow(@, minted')]
             /\ worker' = [worker EXCEPT ![w] = [@ EXCEPT !.pc = "load", !.token = minted']]
    <2>1. /\ OnlyWorker(w)
          /\ worker'[w].pc = "load" /\ worker'[w].job = worker[w].job
          /\ worker'[w].token = minted'
      BY <1>0, <1>2 DEF OnlyWorker, WorkerStates
    <2>2. Claims(worker[w].job, minted')
      BY <1>2 DEF ClaimJob, Claims, Claimable, Waiting
    <2> QED
      BY <1>1, <1>2, <2>1, <2>2 DEF ClaimJob, WinsClaim
  <1>3. CASE worker' = [worker EXCEPT ![w] = IdleWorker] /\ UNCHANGED row
    BY <1>0, <1>1, <1>3, IdlePc DEF ClaimJob, Outside, OnlyWorker, TablesKept
  <1> QED
    BY <1>2, <1>3 DEF ClaimJob

LEMMA LeaveKinds ==
  ASSUME TypeOK, ControlOK, NEW w \in Workers, HandleInterrupt(w) \/ CleanUp(w)
  PROVE  Leaves(w)
  <1>0. worker \in [Workers -> WorkerStates] /\ child \in [Jobs -> ChildStates]
    BY DEF TypeOK, WorkerTypeOK
  <1>1. worker[w].job \in Jobs /\ worker[w].pc \in Supervision
    BY DEF HandleInterrupt, CleanUp, Supervision, ControlOK, WorkerControlOK
  <1>2. ReapedChild.state = "gone" /\ ReapedChild.pipe = <<>>
    BY DEF ReapedChild, NoChild
  <1>3. /\ OnlyWorker(w) /\ worker'[w].pc \notin Supervision
        /\ OnlyChild(worker[w].job)
        /\ child'[worker[w].job] = ReapedChild
    BY <1>0, <1>1, IdlePc DEF HandleInterrupt, CleanUp, OnlyWorker, OnlyChild
  <1>4. TablesKept \/ Finishes(worker[w].job, "FAILED", NoResult, "WORKER_INTERRUPTED")
    BY <1>1, FinishKind DEF HandleInterrupt, CleanUp, TablesKept, rowVars
  <1> QED
    BY <1>1, <1>2, <1>3, <1>4 DEF Leaves, FailureCodes

LEMMA CrashKind ==
  ASSUME TypeOK, ControlOK, NEW w \in Workers, Crash(w)
  PROVE  Outside(w) \/ Leaves(w)
  <1>0. worker \in [Workers -> WorkerStates] /\ child \in [Jobs -> ChildStates]
    BY DEF TypeOK, WorkerTypeOK
  <1>1. OnlyWorker(w) /\ worker'[w].pc \notin Supervision /\ TablesKept
    BY <1>0, IdlePc DEF Crash, OnlyWorker, TablesKept, rowVars
  <1>2. CASE worker[w].pc \notin Supervision
    BY <1>1, <1>2 DEF Crash, Outside
  <1>3. CASE worker[w].pc \in Supervision
    <2> DEFINE j == worker[w].job
               alive == Alive(j)
    <2>1. j \in Jobs
      BY <1>3 DEF ControlOK, WorkerControlOK
    <2>2. child' = [child EXCEPT ![j] = [child[j] EXCEPT !.orphan = alive, !.pipe = <<>>]]
      BY <1>3 DEF Crash
    <2>3. /\ OnlyChild(j)
          /\ child'[j].state = child[j].state
          /\ child'[j].stage = child[j].stage
          /\ child'[j].orphan = alive
          /\ child'[j].pipe = <<>>
      <3> HIDE DEF alive
      <3> QED
        BY <1>0, <2>1, <2>2 DEF OnlyChild, ChildStates
    <2> QED
      BY <1>1, <1>3, <2>1, <2>3 DEF Leaves
  <1> QED
    BY <1>2, <1>3

LEMMA StartKind ==
  ASSUME TypeOK, ControlOK, NEW w \in Workers, StartChild(w)
  PROVE  Starts(w) \/ Leaves(w)
  <1>0. worker \in [Workers -> WorkerStates] /\ child \in [Jobs -> ChildStates]
    BY DEF TypeOK, WorkerTypeOK
  <1>1. worker[w].job \in Jobs /\ worker[w].pc = "load" /\ worker[w].pc \in Supervision
    BY DEF StartChild, Supervision, ControlOK, WorkerControlOK
  <1>2. CASE /\ child' = [child EXCEPT ![worker[w].job] = [NoChild EXCEPT !.state = "solving"]]
             /\ Goto(w, "check")
             /\ UNCHANGED rowVars
    BY <1>0, <1>1, <1>2 DEF Goto, Starts, OnlyWorker, OnlyChild, TablesKept, rowVars, WorkerStates
  <1>3. CASE /\ StoreFinish(worker[w].job, worker[w].token, "FAILED", NoResult,
                            "INPUT_INTEGRITY_FAILED")
             /\ worker' = [worker EXCEPT ![w] = IdleWorker]
             /\ UNCHANGED child
    <2>1. TablesKept \/ Finishes(worker[w].job, "FAILED", NoResult, "INPUT_INTEGRITY_FAILED")
      BY <1>1, <1>3, FinishKind
    <2> QED
      BY <1>0, <1>1, <1>3, <2>1, IdlePc DEF Leaves, OnlyWorker, OnlyChild, FailureCodes
  <1> QED
    BY <1>2, <1>3 DEF StartChild

\* The three ways a supervisor moves on.
LEMMA GotoContinues ==
  ASSUME worker \in [Workers -> WorkerStates], NEW w \in Workers, worker[w].job \in Jobs,
         worker[w].pc \in Supervision \ {"load"}, NEW pc \in Supervision \ {"load"},
         Goto(w, pc)
  PROVE  Continues(w) /\ worker'[w].pc = pc
  BY DEF Goto, Continues, OnlyWorker, WorkerStates

LEMMA ConcludeContinues ==
  ASSUME worker \in [Workers -> WorkerStates], NEW w \in Workers, worker[w].job \in Jobs,
         worker[w].pc \in Supervision \ {"load"}, NEW v, Conclude(w, v)
  PROVE  Continues(w) /\ worker'[w].pc = "finish" /\ worker'[w].verdict = v
  BY DEF Conclude, Continues, OnlyWorker, WorkerStates, Supervision

LEMMA InterruptedContinues ==
  ASSUME worker \in [Workers -> WorkerStates], NEW w \in Workers, worker[w].job \in Jobs,
         worker[w].pc \in Supervision \ {"load"}, Interrupted(w)
  PROVE  Continues(w) /\ worker'[w].pc = "interrupted"
  BY DEF Interrupted, Continues, OnlyWorker, WorkerStates, Supervision

LEMMA SoundVerdicts ==
  ASSUME NEW r
  PROVE  /\ SoundVerdict(TimedOut, r)
         /\ \A e \in FailureCodes : SoundVerdict(Failed(e), r)
         /\ \A c : SoundVerdict(ExitVerdict(c), r)
         /\ r.status = "CANCELLING" => SoundVerdict(Verdict("CANCELLED", NoResult, NoError), r)
  BY DEF SoundVerdict, TimedOut, Failed, Verdict, ExitVerdict, FailureCodes

LEMMA WatchKinds ==
  ASSUME TypeOK, ControlOK, NEW w \in Workers,
         CheckStop(w) \/ PollNothing(w) \/ PollEof(w) \/ CheckAlive(w) \/ Interrupt(w)
  PROVE  Watches(w)
  <1> DEFINE j == worker[w].job
  <1>0. /\ worker \in [Workers -> WorkerStates] /\ child \in [Jobs -> ChildStates]
        /\ j \in Jobs
        /\ worker[w].pc \in Supervision \ {"load"}
        /\ TablesKept
    BY DEF CheckStop, PollNothing, PollEof, CheckAlive, Interrupt, Supervision, ControlOK,
       WorkerControlOK, TypeOK, WorkerTypeOK, TablesKept, rowVars
  <1>1. ASSUME child' = child,
               \/ \E pc \in Supervision \ {"load", "finish"} : Goto(w, pc)
               \/ \E v : Conclude(w, v) /\ SoundVerdict(v, row[j])
               \/ Interrupted(w)
        PROVE  Watches(w)
    <2>1. OnlyChild(j) /\ child'[j] = child[j]
      BY <1>1 DEF OnlyChild
    <2>2. Continues(w) /\ (worker'[w].pc = "finish" => SoundVerdict(worker'[w].verdict, row[j]))
      BY <1>0, <1>1, GotoContinues, ConcludeContinues, InterruptedContinues
    <2> QED
      BY <1>0, <2>1, <2>2 DEF Watches
  <1>2. CASE CheckStop(w)
    <2>1. ASSUME child' = [child EXCEPT ![j] = Killed(@)],
                 NEW v, Conclude(w, v), SoundVerdict(v, row[j])
          PROVE  Watches(w)
      <3>1. OnlyChild(j) /\ child'[j].state = "gone" /\ child'[j].pipe = child[j].pipe
        BY <1>0, <2>1 DEF OnlyChild, Killed, ChildStates
      <3>2. Continues(w) /\ worker'[w].verdict = v
        BY <1>0, <2>1, ConcludeContinues
      <3> QED
        BY <1>0, <2>1, <3>1, <3>2 DEF Watches
    <2>2. CASE Goto(w, "poll") /\ UNCHANGED child
      BY <1>1, <2>2 DEF Supervision
    <2> QED
      BY <1>2, <2>1, <2>2, SoundVerdicts DEF CheckStop
  <1>3. CASE PollNothing(w)
    BY <1>1, <1>3 DEF PollNothing, Supervision
  <1>4. CASE PollEof(w)
    BY <1>1, <1>4, SoundVerdicts DEF PollEof
  <1>5. CASE CheckAlive(w)
    BY <1>1, <1>5, SoundVerdicts DEF CheckAlive, Supervision
  <1>6. CASE Interrupt(w)
    BY <1>1, <1>6 DEF Interrupt
  <1> QED
    BY <1>2, <1>3, <1>4, <1>5, <1>6

LEMMA ReceiveKind ==
  ASSUME TypeOK, ControlOK, NEW w \in Workers, Receive(w)
  PROVE  Receives(w)
  <1> DEFINE j == worker[w].job
             message == child[j].pipe[1]
  <1>0. /\ worker \in [Workers -> WorkerStates] /\ child \in [Jobs -> ChildStates]
        /\ j \in Jobs
        /\ worker[w].pc = "poll"
        /\ worker[w].pc \in Supervision \ {"load"}
    BY DEF Receive, Supervision, ControlOK, WorkerControlOK, TypeOK, WorkerTypeOK
  <1>1. /\ child[j].pipe # <<>>
        /\ child' = [child EXCEPT ![j].pipe = Tail(@)]
        /\ Head(child[j].pipe) = message
    BY DEF Receive
  <1>2. /\ OnlyChild(j)
        /\ child'[j].state = child[j].state
  /\ child'[j].stage = child[j].stage
  /\ child'[j].orphan = child[j].orphan
  /\ child'[j].pipe = Tail(child[j].pipe)
    BY <1>0, <1>1 DEF OnlyChild
  <1>3. CASE /\ message.kind = "checkpoint"
             /\ StoreCheckpoint(j, worker[w].token, message.result)
             /\ Goto(w, "check")
    <2>1. Continues(w) /\ worker'[w].pc = "check"
      BY <1>0, <1>3, GotoContinues DEF Supervision
    <2>2. IF Owns(row[j], worker[w].token)
            THEN Checkpoints(j, message.result) ELSE TablesKept
      BY <1>0, <1>3 DEF StoreCheckpoint, Owns, Checkpoints, TablesKept
    <2> QED
      BY <1>1, <1>2, <1>3, <2>1, <2>2 DEF Receives
  <1>4. CASE /\ message.kind = "result"
             /\ Conclude(w, Verdict("SUCCEEDED", message.result, NoError))
             /\ UNCHANGED rowVars
    BY <1>0, <1>1, <1>2, <1>4, ConcludeContinues DEF Receives, TablesKept, rowVars
  <1>5. CASE /\ message.kind = "error"
             /\ Conclude(w, Failed("SOLVER_EXECUTION_FAILED"))
             /\ UNCHANGED rowVars
    <2>1. SoundVerdict(Failed("SOLVER_EXECUTION_FAILED"), row[j])
      BY SoundVerdicts DEF FailureCodes
    <2> QED
      BY <1>0, <1>1, <1>2, <1>5, <2>1, ConcludeContinues DEF Receives, TablesKept, rowVars
  <1>6. CASE message.kind = "truncated" /\ Interrupted(w) /\ UNCHANGED rowVars
    BY <1>0, <1>1, <1>2, <1>6, InterruptedContinues DEF Receives, TablesKept, rowVars
  <1> QED
    BY <1>1, <1>3, <1>4, <1>5, <1>6 DEF Receive

LEMMA ConcludeKind ==
  ASSUME TypeOK, ControlOK, NEW w \in Workers, FinishJob(w)
  PROVE  Concludes(w)
  <1>0. /\ worker \in [Workers -> WorkerStates]
        /\ worker[w].job \in Jobs
        /\ worker[w].pc = "finish"
        /\ worker[w].pc \in Supervision \ {"load"}
        /\ child' = child
    BY DEF FinishJob, Supervision, ControlOK, WorkerControlOK, TypeOK, WorkerTypeOK
  <1>1. Continues(w) /\ worker'[w].pc # "finish"
    <2>1. CASE worker' = [worker EXCEPT ![w] = [@ EXCEPT !.pc = "cleanup", !.verdict = NoVerdict]]
      BY <1>0, <2>1 DEF Continues, OnlyWorker, WorkerStates, Supervision
    <2>2. CASE Interrupted(w)
      BY <1>0, <2>2, InterruptedContinues
    <2> QED
      BY <2>1, <2>2 DEF FinishJob
  <1>2. TablesKept \/ Finishes(worker[w].job, worker[w].verdict.status,
                               worker[w].verdict.result, worker[w].verdict.error)
    BY <1>0, FinishKind DEF FinishJob, TablesKept, rowVars
  <1> QED
    BY <1>0, <1>1, <1>2 DEF Concludes

LEMMA AppendLast ==
  ASSUME NEW S, NEW s \in Seq(S), NEW x
  PROVE  s \o <<>> = s /\ s \o <<x>> = Append(s, x)
  OBVIOUS

LEMMA MoveKinds ==
  ASSUME TypeOK, NEW j \in Jobs, ChildStep(j) \/ DeadlinePasses(j)
  PROVE  Moves(j)
  <1>0. child \in [Jobs -> ChildStates] /\ Alive(j) /\ worker' = worker /\ TablesKept
    BY DEF TypeOK, WorkerTypeOK, ChildStep, ChildCheckpoint, ChildReturn, ChildExit,
       ChildWatchdog, ChildCrash, DeadlinePasses, Alive, TablesKept, rowVars
  <1>1. CASE ChildCheckpoint(j)
    <2> DEFINE next == child[j].stage + 1
               pipe == Append(child[j].pipe, Message("checkpoint", next))
    <2>1. /\ child[j].state = "solving" /\ ~child[j].orphan
          /\ next \in 1 .. Stages
          /\ child' = [child EXCEPT ![j] = [child[j] EXCEPT !.stage = next, !.pipe = pipe]]
      BY <1>1 DEF ChildCheckpoint
    <2>2. /\ OnlyChild(j)
          /\ child'[j].orphan = child[j].orphan
          /\ child'[j].state = child[j].state
          /\ child'[j].stage = next
          /\ child'[j].pipe = pipe
      <3> HIDE DEF pipe, next
      <3> QED
        BY <1>0, <2>1 DEF OnlyChild, ChildStates
    <2> QED
      BY <1>0, <2>1, <2>2 DEF Moves
  <1>2. CASE ChildReturn(j)
    <2>1. PICK m \in {Message("result", Final), Message("error", NoResult)} :
            child' = [child EXCEPT ![j] =
              [child[j] EXCEPT !.state = "closing", !.pipe = Append(@, m)]]
      BY <1>2 DEF ChildReturn
    <2> DEFINE pipe == Append(child[j].pipe, m)
    <2>2. child' = [child EXCEPT ![j] = [child[j] EXCEPT !.state = "closing", !.pipe = pipe]]
      BY <2>1
    <2>3. /\ OnlyChild(j)
          /\ child'[j].orphan = child[j].orphan
          /\ child'[j].state = "closing"
          /\ child'[j].pipe = pipe
      <3> HIDE DEF pipe
      <3> QED
        BY <1>0, <2>2 DEF OnlyChild, ChildStates
    <2>4. child[j].state = "solving"
      BY <1>2 DEF ChildReturn
    <2> QED
      BY <1>0, <2>3, <2>4 DEF Moves
  <1>3. CASE ChildExit(j)
    BY <1>0, <1>3 DEF ChildExit, Moves, OnlyChild, ChildStates
  <1>4. ASSUME NEW code, Dies(j, code) PROVE Moves(j)
    <2> DEFINE m == Message("truncated", NoResult)
    <2>1. PICK rest \in {<<>>, <<m>>} :
            child' = [child EXCEPT ![j] =
              [child[j] EXCEPT !.state = "gone", !.exit = code, !.pipe = @ \o rest]]
            /\ (child[j].state = "closing" => rest = <<>>)
      BY <1>4 DEF Dies
    <2> DEFINE pipe == child[j].pipe \o rest
    <2>2. child' = [child EXCEPT ![j] =
                      [child[j] EXCEPT !.state = "gone", !.exit = code, !.pipe = pipe]]
      BY <2>1
    <2>3. /\ OnlyChild(j)
          /\ child'[j].orphan = child[j].orphan
          /\ child'[j].state = "gone"
          /\ child'[j].pipe = pipe
      <3> HIDE DEF pipe
      <3> QED
        BY <1>0, <2>2 DEF OnlyChild, ChildStates
    <2>4. pipe = child[j].pipe \/ pipe = Append(child[j].pipe, m)
      <3>1. child[j].pipe \in Seq(Messages)
        BY <1>0 DEF ChildStates
      <3> HIDE DEF m
      <3> QED
        BY <3>1, AppendLast
    <2>5. pipe = child[j].pipe \/ child[j].state = "solving"
      <3>1. child[j].pipe \in Seq(Messages)
        BY <1>0 DEF ChildStates
      <3>2. child[j].state = "closing" => rest = <<>>
        BY <2>1
      <3> QED
        BY <1>0, <3>1, <3>2 DEF Alive
    <2> QED
      BY <1>0, <2>3, <2>4, <2>5 DEF Moves
  <1>5. CASE DeadlinePasses(j)
    BY <1>0, <1>5 DEF DeadlinePasses, Moves, OnlyChild, ChildStates
  <1> QED
    BY <1>1, <1>2, <1>3, <1>4, <1>5 DEF ChildStep, ChildWatchdog, ChildCrash

LEMMA StepHasKind ==
  ASSUME TypeOK, ControlOK, [Next]_vars PROVE StepKind
  <1>1. CASE AdmissionNext /\ UNCHANGED workerVars
    <2>1. ASSUME NEW p \in Posts, NEW j \in Jobs, InsertJob(p, j) PROVE Quiet
      <3>1. post[p].input \in Inputs
        BY <2>1 DEF InsertJob, Inserting, ControlOK, PostControlOK, InProgress
      <3>2. Inserts(j, post[p].input)
        BY <2>1 DEF InsertJob, Inserting, Inserts, NextRow, Exists, Clashes
      <3> QED
        BY <1>1, <3>1, <3>2 DEF Quiet, workerVars
    <2>2. CASE UNCHANGED rowVars
      BY <1>1, <2>2 DEF StepKind, Quiet, TablesKept, rowVars, workerVars
    <2>3. (\E p \in Posts, j \in Jobs : InsertJob(p, j)) \/ UNCHANGED rowVars
      BY <1>1
      DEF AdmissionNext, PostStep, Send, RefuseInput, LookUpKey, LookUpActive, CountPending,
          InsertAlias, LoseRace, FailPost
    <2> QED
      BY <2>1, <2>2, <2>3 DEF StepKind
  <1>2. CASE (\E j \in Jobs : CancelJob(j)) /\ UNCHANGED <<admissionVars, workerVars>>
    BY <1>2 DEF CancelJob, Exists, Cancels, Quiet, workerVars, StepKind
  <1>3. CASE UNCHANGED vars
    BY <1>3 DEF vars, rowVars, workerVars, Quiet, TablesKept, StepKind
  <1>4. ASSUME NEW w \in Workers, WorkerStep(w) \/ Crash(w) \/ Interrupt(w) \/ Restart(w)
        PROVE  StepKind
    BY <1>4, OutsideKinds, ClaimKind, LeaveKinds, CrashKind, StartKind, WatchKinds,
       ReceiveKind, ConcludeKind DEF WorkerStep, StepKind
  <1>5. ASSUME NEW j \in Jobs, ChildStep(j) \/ DeadlinePasses(j) PROVE StepKind
    BY <1>5, MoveKinds DEF StepKind
  <1>6. ASSUME NEW j \in Jobs, BecomeOverdue(j) \/ DamageSnapshot(j) PROVE StepKind
    BY <1>6 DEF BecomeOverdue, DamageSnapshot, rowVars, workerVars, Quiet, TablesKept, StepKind
  <1> QED
    BY <1>1, <1>2, <1>3, <1>4, <1>5, <1>6 DEF Next, WorkerNext

-----------------------------------------------------------------------------
(* Solver processes.                                                       *)

\* A process exists only for a job that was claimed, and not before its
\* supervisor spawns it.
ChildrenFresh ==
  /\ \A j \in Jobs : child[j].state # "none" => Left(j)
  /\ \A w \in Workers, j \in Jobs :
       Supervises(w, j) /\ worker[w].pc = "load" => child[j].state = "none"

LEMMA ChildrenFreshStep ==
  ASSUME TypeOK, ControlOK, SupervisedJobsLeft, OneSupervisor, ChildrenFresh, [Next]_vars
  PROVE  ChildrenFresh'
  <1>0. row \in [Jobs -> Rows] /\ RowStep /\ StepKind
    BY StepIsRowStep, StepHasKind DEF TypeOK, RowTypeOK
  \* Only its supervisor changes whether a process exists.
  <1>1. ASSUME NEW j \in Jobs, child[j].state = "none", child'[j].state # "none"
        PROVE  \E u \in Workers : /\ Supervises(u, j)
                                  /\ OnlyWorker(u)
                                  /\ worker'[u].pc # "load"
    <2>1. CASE child' = child
      BY <1>1, <2>1
    <2>2. ASSUME NEW u \in Workers, worker[u].pc \in Supervision, OnlyWorker(u),
                 OnlyChild(worker[u].job), worker'[u].pc # "load"
          PROVE  \E v \in Workers : /\ Supervises(v, j)
                                    /\ OnlyWorker(v)
                                    /\ worker'[v].pc # "load"
      BY <1>1, <2>2 DEF OnlyChild, Supervises
    <2>3. ASSUME NEW k \in Jobs, Moves(k) PROVE FALSE
      BY <1>1, <2>3 DEF Moves, OnlyChild, Alive
    <2> QED
      BY <1>0, <2>1, <2>2, <2>3
      DEF StepKind, Quiet, Outside, WinsClaim, Starts, Leaves, Watches, Receives, Concludes,
          Continues, Supervision
  <1>2. ASSUME NEW j \in Jobs, child'[j].state # "none" PROVE Left(j)'
    <2>1. Left(j)
      BY <1>1, <1>2 DEF ChildrenFresh, SupervisedJobsLeft
    <2> QED
      BY <1>0, <2>1, LeftStays
  <1>3. ASSUME NEW w \in Workers, NEW j \in Jobs, Supervises(w, j)', worker'[w].pc = "load"
        PROVE  child'[j].state = "none"
    <2>1. CASE Supervises(w, j) /\ worker[w].pc = "load"
      <3>1. child[j].state = "none"
        BY <2>1 DEF ChildrenFresh
      <3> QED
        BY <1>1, <1>3, <2>1, <3>1 DEF OneSupervisor
    <2>2. CASE WinsClaim(w) /\ worker[w].job = j
      BY <2>2 DEF WinsClaim, Claims, ChildrenFresh, Left
    <2>3. \/ Supervises(w, j) /\ worker[w].pc = "load"
          \/ WinsClaim(w) /\ worker[w].job = j
      <3>1. ASSUME NEW u \in Workers,
                   Outside(u) \/ Starts(u) \/ Leaves(u) \/ Watches(u) \/ Receives(u)
                     \/ Concludes(u)
            PROVE  worker'[w] = worker[w]
        BY <1>3, <3>1 DEF Outside, Starts, Leaves, Watches, Receives, Concludes, Continues,
           OnlyWorker, Supervision
      <3>2. ASSUME NEW u \in Workers, WinsClaim(u), u # w PROVE worker'[w] = worker[w]
        BY <3>2 DEF WinsClaim, OnlyWorker
      <3>3. ASSUME WinsClaim(w) PROVE worker[w].job = j
        BY <1>3, <3>3 DEF WinsClaim, Supervises
      <3>4. ASSUME worker'[w] = worker[w] PROVE Supervises(w, j) /\ worker[w].pc = "load"
        BY <1>3, <3>4 DEF Supervises
      <3>5. ASSUME NEW k \in Jobs, Moves(k) PROVE worker'[w] = worker[w]
        BY <3>5 DEF Moves
      <3>6. Quiet => worker'[w] = worker[w]
        BY DEF Quiet
      <3> QED
        BY <1>0, <3>1, <3>2, <3>3, <3>4, <3>5, <3>6 DEF StepKind
    <2> QED
      BY <2>1, <2>2, <2>3
  <1> QED
    BY <1>2, <1>3 DEF ChildrenFresh

LEMMA FreshInvariant == Spec => []ChildrenFresh
  <1>1. Init => ChildrenFresh
    BY DEF Init, WorkerInit, ChildrenFresh, NoChild, IdleWorker
  <1>2. TypeOK /\ ControlOK /\ (SupervisedJobsLeft /\ OneSupervisor) /\ ChildrenFresh
          /\ [Next]_vars => ChildrenFresh'
    BY ChildrenFreshStep
  <1> QED
    BY <1>1, <1>2, TypeControl, SupervisionInvariant, PTL DEF Spec

\* No job is ever solved twice: a process is spawned only by the one supervisor
\* that claimed the job, and only where there was none, through every kill,
\* recovery and restart.
THEOREM SolvedOnce == Spec => NeverReexecuted
  <1>1. ASSUME TypeOK, ControlOK, ChildrenFresh, [Next]_vars, NEW j \in Jobs,
               child[j].state # "none", child'[j].state = "solving"
        PROVE  child[j].state = "solving"
    <2>1. StepKind
      BY <1>1, StepHasKind
    <2>2. ASSUME NEW w \in Workers, Starts(w) PROVE child'[j] = child[j]
      BY <1>1, <2>2 DEF Starts, OnlyChild, ChildrenFresh, Supervises, Supervision
    <2>3. ASSUME NEW w \in Workers, Leaves(w) PROVE child'[j].state = child[j].state
      BY <1>1, <2>3 DEF Leaves, OnlyChild
    <2>4. ASSUME NEW w \in Workers, Watches(w) PROVE child'[j].state = child[j].state
      BY <1>1, <2>4 DEF Watches, OnlyChild
    <2>5. ASSUME NEW w \in Workers, Receives(w) PROVE child'[j].state = child[j].state
      BY <1>1, <2>5 DEF Receives, OnlyChild
    <2>6. ASSUME NEW k \in Jobs, Moves(k) PROVE child[j].state = "solving"
      BY <1>1, <2>6 DEF Moves, OnlyChild, Alive
    <2> QED
      BY <1>1, <2>1, <2>2, <2>3, <2>4, <2>5, <2>6
      DEF StepKind, Quiet, Outside, WinsClaim, Concludes
  <1>2. TypeOK /\ ControlOK /\ ChildrenFresh /\ [Next]_vars
          => [\A j \in Jobs : child[j].state # "none" /\ child'[j].state = "solving"
                                => child[j].state = "solving"]_vars
    BY <1>1
  <1> QED
    BY <1>2, TypeControl, FreshInvariant, PTL DEF Spec, NeverReexecuted

\* Every process that runs has a supervisor that will stop or reap it, unless
\* that supervisor was killed: no step of run_once, the failing ones included,
\* returns while its process lives.
THEOREM NoSolverLeaks == Spec => []NoLeakedSolver
  <1>1. Init => NoLeakedSolver
    BY DEF Init, WorkerInit, NoLeakedSolver, Alive, NoChild
  <1>2. ASSUME TypeOK, ControlOK, ChildrenFresh, NoLeakedSolver, [Next]_vars, NEW j \in Jobs,
               Alive(j)'
        PROVE  Supervised(j)' \/ child'[j].orphan
    <2>0. StepKind
      BY <1>2, StepHasKind
    <2>1. ASSUME worker' = worker, Alive(j), child'[j].orphan = child[j].orphan
          PROVE  Supervised(j)' \/ child'[j].orphan
      BY <1>2, <2>1 DEF NoLeakedSolver, Supervised, Supervises
    \* A worker acts that goes on supervising what it supervised.
    <2>2. ASSUME NEW w \in Workers, OnlyWorker(w),
                 worker[w].pc \in Supervision =>
                   worker'[w].pc \in Supervision /\ worker'[w].job = worker[w].job,
                 Alive(j), child'[j].orphan = child[j].orphan
          PROVE  Supervised(j)' \/ child'[j].orphan
      <3>1. ASSUME NEW v \in Workers, Supervises(v, j) PROVE Supervises(v, j)'
        BY <2>2, <3>1 DEF Supervises, OnlyWorker
      <3> QED
        BY <1>2, <2>2, <3>1 DEF NoLeakedSolver, Supervised
    <2>3. CASE Quiet
      BY <1>2, <2>1, <2>3 DEF Quiet, Alive
    <2>4. ASSUME NEW w \in Workers, Outside(w) PROVE Supervised(j)' \/ child'[j].orphan
      BY <1>2, <2>2, <2>4 DEF Outside, Alive
    <2>5. ASSUME NEW w \in Workers, WinsClaim(w) PROVE Supervised(j)' \/ child'[j].orphan
      BY <1>2, <2>2, <2>5 DEF WinsClaim, Alive
    <2>6. ASSUME NEW w \in Workers, Starts(w) PROVE Supervised(j)' \/ child'[j].orphan
      <3>1. CASE worker[w].job = j
        BY <2>6, <3>1 DEF Starts, Supervised, Supervises, Supervision
      <3>2. CASE worker[w].job # j
        BY <1>2, <2>2, <2>6, <3>2 DEF Starts, OnlyChild, Supervision, Alive
      <3> QED
        BY <3>1, <3>2
    <2>7. ASSUME NEW w \in Workers, Leaves(w) PROVE Supervised(j)' \/ child'[j].orphan
      <3>1. CASE worker[w].job = j
        BY <1>2, <2>7, <3>1 DEF Leaves, Alive, ChildrenFresh, Supervises
      <3>2. CASE worker[w].job # j
        <4>1. Alive(j) /\ child'[j] = child[j]
          BY <1>2, <2>7, <3>2 DEF Leaves, OnlyChild, Alive
        <4>2. ASSUME NEW v \in Workers, Supervises(v, j) PROVE Supervises(v, j)'
          BY <2>7, <3>2, <4>2 DEF Leaves, OnlyWorker, Supervises
        <4> QED
          BY <1>2, <4>1, <4>2 DEF NoLeakedSolver, Supervised
      <3> QED
        BY <3>1, <3>2
    <2>8. ASSUME NEW w \in Workers, Watches(w) PROVE Supervised(j)' \/ child'[j].orphan
      BY <1>2, <2>2, <2>8 DEF Watches, Continues, OnlyChild, Alive
    <2>9. ASSUME NEW w \in Workers, Receives(w) PROVE Supervised(j)' \/ child'[j].orphan
      <3>1. child'[j].state = child[j].state /\ child'[j].orphan = child[j].orphan
        BY <1>2, <2>9 DEF Receives, OnlyChild
      <3> QED
        BY <1>2, <2>2, <2>9, <3>1 DEF Receives, Continues, Alive
    <2>10. ASSUME NEW w \in Workers, Concludes(w) PROVE Supervised(j)' \/ child'[j].orphan
      BY <1>2, <2>2, <2>10 DEF Concludes, Continues, Alive
    <2>11. ASSUME NEW k \in Jobs, Moves(k) PROVE Supervised(j)' \/ child'[j].orphan
      <3>1. Alive(j) /\ child'[j].orphan = child[j].orphan /\ worker' = worker
        BY <1>2, <2>11 DEF Moves, OnlyChild, Alive
      <3> QED
        BY <2>1, <3>1
    <2> QED
      BY <2>0, <2>3, <2>4, <2>5, <2>6, <2>7, <2>8, <2>9, <2>10, <2>11 DEF StepKind
  <1>3. TypeOK /\ ControlOK /\ ChildrenFresh /\ NoLeakedSolver /\ [Next]_vars
          => NoLeakedSolver'
    BY <1>2 DEF NoLeakedSolver
  <1> QED
    BY <1>1, <1>3, TypeControl, FreshInvariant, PTL DEF Spec

-----------------------------------------------------------------------------
(* Outcomes.                                                               *)

\* The fence of a supervisor opens for its own claim, and what it is about to
\* pass to finish is sound for the row as it is now.
SupervisionOK ==
  \A w \in Workers, j \in Jobs :
    Supervises(w, j) =>
      /\ row[j].status \in Claimed => row[j].worker_token = worker[w].token
      /\ worker[w].pc = "finish" => SoundVerdict(worker[w].verdict, row[j])

\* What is in a pipe fits the row of its job: the checkpoints continue the
\* stored one without a gap, up to the stage the process has reached, and a
\* message of another kind is the last one.
PipeOK(c, r) ==
  /\ c.state = "none" => c.pipe = <<>>
  /\ \A n \in 1 .. Len(c.pipe) :
       /\ c.pipe[n].kind = "result" => c.pipe[n].result = Final
       /\ c.pipe[n].kind # "checkpoint" => n = Len(c.pipe) /\ c.state # "solving"
  /\ r.status \in Claimed =>
       /\ c.state = "none" => r.checkpoint = NoResult
       /\ \A n \in 1 .. Len(c.pipe) :
            c.pipe[n].kind = "checkpoint" =>
              c.pipe[n].result = r.checkpoint + n /\ c.pipe[n].result <= Stages
       /\ c.state = "solving" /\ ~c.orphan => c.stage = r.checkpoint + Len(c.pipe)

PipesOK == \A j \in Jobs : PipeOK(child[j], row[j])

\* The final result is stored by the transaction that ends the job, not before.
OpenRowsUnfinished ==
  \A j \in Jobs : row[j].status \notin Terminal => row[j].checkpoint # Final

\* What steps do to the tables, with the arguments they do it with.
SoundRowStep ==
  \/ TablesKept
  \/ \E j \in Jobs, i \in Inputs : Inserts(j, i)
  \/ \E j \in Jobs, t \in Nat : Claims(j, t)
  \/ \E j \in Jobs : Cancels(j)
  \/ \E j \in Jobs, c \in 1 .. Stages :
       c = row[j].checkpoint + 1 /\ Checkpoints(j, c)
  \/ \E j \in Jobs, v \in Verdicts :
       /\ v.status \in Terminal
       /\ SoundVerdict(v, row[j])
       /\ Finishes(j, v.status, v.result, v.error)

LEMMA PipeFacts ==
  ASSUME TypeOK, NEW j \in Jobs
  PROVE  /\ child[j].pipe \in Seq(Messages)
         /\ Len(child[j].pipe) \in Nat
         /\ child[j].pipe # <<>> => Len(child[j].pipe) >= 1 /\ child[j].pipe[1] \in Messages
         /\ \A n \in 1 .. Len(child[j].pipe) : child[j].pipe[n] \in Messages
  BY DEF TypeOK, WorkerTypeOK, ChildStates

LEMMA KindIsSound ==
  ASSUME TypeOK, ControlOK, SupervisionOK, PipesOK, StepKind
  PROVE  SoundRowStep
  <1>1. CASE Quiet
    BY <1>1 DEF Quiet, SoundRowStep
  <1>2. ASSUME NEW j \in Jobs, NEW e \in FailureCodes, Finishes(j, "FAILED", NoResult, e)
        PROVE  SoundRowStep
    <2> DEFINE v == Verdict("FAILED", NoResult, e)
    <2>1. v \in Verdicts /\ v.status \in Terminal
      BY VerdictTypes, ResultFacts DEF Verdict, Verdicts, ErrorCodes, Terminal
    <2>2. SoundVerdict(v, row[j]) /\ Finishes(j, v.status, v.result, v.error)
      BY <1>2 DEF Verdict, SoundVerdict
    <2> QED
      BY <2>1, <2>2 DEF SoundRowStep
  <1>3. ASSUME NEW w \in Workers, Outside(w) \/ Leaves(w) PROVE SoundRowStep
    BY <1>2, <1>3 DEF Outside, Leaves, FailureCodes, SoundRowStep
  <1>4. ASSUME NEW w \in Workers, WinsClaim(w) PROVE SoundRowStep
    BY <1>4 DEF WinsClaim, SoundRowStep
  <1>5. ASSUME NEW w \in Workers, Starts(w) \/ Watches(w) PROVE SoundRowStep
    BY <1>5 DEF Starts, Watches, SoundRowStep
  <1>6. ASSUME NEW w \in Workers, Receives(w) PROVE SoundRowStep
    <2> DEFINE j == worker[w].job
               c == child[j].pipe[1].result
    <2>1. CASE TablesKept
      BY <2>1 DEF SoundRowStep
    <2>2. CASE /\ child[j].pipe[1].kind = "checkpoint"
               /\ Owns(row[j], worker[w].token)
               /\ Checkpoints(j, c)
      <3>1. j \in Jobs /\ child[j].pipe # <<>> /\ row[j].status \in Claimed
        BY <1>6, <2>2 DEF Receives, Continues, Owns
      <3>2. PipeOK(child[j], row[j]) /\ 1 \in 1 .. Len(child[j].pipe)
        BY <3>1, PipeFacts DEF PipesOK
      <3>3. c = row[j].checkpoint + 1 /\ c <= Stages
        BY <2>2, <3>1, <3>2 DEF PipeOK
      <3>4. row[j].checkpoint \in Nat
        BY <3>1, RowAssumption DEF RowAssumption, TypeOK, RowTypeOK, Rows, Results, Final
      <3>5. c \in 1 .. Stages
        BY <3>3, <3>4, RowAssumption DEF RowAssumption
      <3> QED
        BY <2>2, <3>1, <3>3, <3>5 DEF SoundRowStep
    <2> QED
      BY <1>6, <2>1, <2>2 DEF Receives
  <1>7. ASSUME NEW w \in Workers, Concludes(w) PROVE SoundRowStep
    <2> DEFINE j == worker[w].job
               v == worker[w].verdict
    <2>1. /\ j \in Jobs /\ Supervises(w, j) /\ worker[w].pc = "finish"
      BY <1>7 DEF Concludes, Continues, Supervises
    <2>2. v \in Verdicts /\ v.status \in Terminal
      BY <2>1 DEF TypeOK, WorkerTypeOK, WorkerStates, ControlOK, WorkerControlOK
    <2>3. SoundVerdict(v, row[j])
      BY <2>1 DEF SupervisionOK
    <2> QED
      BY <1>7, <2>1, <2>2, <2>3 DEF Concludes, SoundRowStep
  <1>8. ASSUME NEW j \in Jobs, Moves(j) PROVE SoundRowStep
    BY <1>8 DEF Moves, SoundRowStep
  <1> QED
    BY <1>1, <1>3, <1>4, <1>5, <1>6, <1>7, <1>8 DEF StepKind

LEMMA SoundIsRowStep == SoundRowStep => RowStep
  BY RowAssumption DEF RowAssumption, SoundRowStep, RowStep, TablesKept, Verdicts, Results, Final

\* A job that left the queue keeps the token it was claimed with, is not
\* claimed again, and keeps a cancellation.
LEMMA LeftRowStep ==
  ASSUME row \in [Jobs -> Rows], RowStep, NEW k \in Jobs, Left(k)
  PROVE  /\ row'[k].worker_token = row[k].worker_token
         /\ row'[k].status \in Claimed => row[k].status \in Claimed
         /\ row[k].status \in {"CANCELLING"} \cup Terminal
              => row'[k].status \in {"CANCELLING"} \cup Terminal
  <1> DEFINE Goal == /\ row'[k].worker_token = row[k].worker_token
                     /\ row'[k].status \in Claimed => row[k].status \in Claimed
                     /\ row[k].status \in {"CANCELLING"} \cup Terminal
                          => row'[k].status \in {"CANCELLING"} \cup Terminal
  <1>1. ASSUME NEW j \in Jobs, NEW i \in Inputs, Inserts(j, i) PROVE Goal
    BY <1>1 DEF Inserts, Left
  <1>2. ASSUME NEW j \in Jobs, NEW t \in Nat, Claims(j, t) PROVE Goal
    BY <1>2 DEF Claims, Left
  <1>3. ASSUME NEW j \in Jobs, Cancels(j) PROVE Goal
    BY <1>3 DEF Cancels, CancelledRow, Left, Rows, Claimed, Terminal
  <1>4. ASSUME NEW j \in Jobs, NEW c \in Results, Checkpoints(j, c) PROVE Goal
    BY <1>4 DEF Checkpoints, CheckpointedRow, Rows
  <1>5. ASSUME NEW j \in Jobs, NEW s \in Terminal, NEW c \in Results, NEW e \in ErrorCodes,
               Finishes(j, s, c, e)
        PROVE  Goal
    BY <1>5 DEF Finishes, FinishedRow, StoredStatus, Claimed, Terminal, Rows
  <1> QED
    BY <1>1, <1>2, <1>3, <1>4, <1>5 DEF RowStep

LEMMA SupervisionOKStep ==
  ASSUME TypeOK, ControlOK, SupervisedJobsLeft, SupervisionOK, PipesOK, [Next]_vars
  PROVE  SupervisionOK'
  <1>0. row \in [Jobs -> Rows] /\ RowStep /\ StepKind
    BY StepIsRowStep, StepHasKind DEF TypeOK, RowTypeOK
  <1> SUFFICES ASSUME NEW w \in Workers, NEW j \in Jobs, Supervises(w, j)'
               PROVE  /\ row'[j].status \in Claimed => row'[j].worker_token = worker'[w].token
                      /\ worker'[w].pc = "finish" => SoundVerdict(worker'[w].verdict, row'[j])
    BY DEF SupervisionOK
  <1> DEFINE Goal ==
               /\ row'[j].status \in Claimed => row'[j].worker_token = worker'[w].token
               /\ worker'[w].pc = "finish" => SoundVerdict(worker'[w].verdict, row'[j])
  \* What was sound for the row stays sound.
  <1>1. ASSUME Supervises(w, j), worker'[w].token = worker[w].token,
               worker'[w].pc = "finish" => SoundVerdict(worker'[w].verdict, row[j])
        PROVE  Goal
    <2>1. Left(j)
      BY <1>1 DEF SupervisedJobsLeft
    <2>2. row'[j].status \in Claimed => row'[j].worker_token = worker'[w].token
      BY <1>0, <1>1, <2>1, LeftRowStep DEF SupervisionOK
    <2>3. worker'[w].pc = "finish" => SoundVerdict(worker'[w].verdict, row'[j])
      BY <1>0, <1>1, <2>1, LeftRowStep DEF SoundVerdict
    <2> QED
      BY <2>2, <2>3
  <1>2. ASSUME worker'[w] = worker[w] PROVE Goal
    BY <1>1, <1>2 DEF Supervises, SupervisionOK
  <1>3. ASSUME NEW u \in Workers, OnlyWorker(u), u # w PROVE Goal
    BY <1>2, <1>3 DEF OnlyWorker
  <1>4. CASE Quiet \/ \E k \in Jobs : Moves(k)
    BY <1>2, <1>4 DEF Quiet, Moves
  <1>5. ASSUME NEW u \in Workers, Outside(u) \/ Leaves(u) PROVE Goal
    BY <1>3, <1>5 DEF Outside, Leaves, Supervises
  <1>6. ASSUME NEW u \in Workers, WinsClaim(u) PROVE Goal
    <2>1. CASE u = w
      <3>1. worker'[w].pc = "load" /\ Claims(j, worker'[w].token)
        BY <1>6, <2>1 DEF WinsClaim, Supervises
      <3> QED
        BY <1>0, <3>1 DEF Claims, ClaimedRow, Rows
    <2>2. CASE u # w
      BY <1>3, <1>6, <2>2 DEF WinsClaim
    <2> QED
      BY <2>1, <2>2
  <1>7. ASSUME NEW u \in Workers, Starts(u) \/ Concludes(u) PROVE Goal
    <2>1. CASE u = w
      BY <1>1, <1>7, <2>1 DEF Starts, Concludes, Continues, Supervises, Supervision
    <2>2. CASE u # w
      BY <1>3, <1>7, <2>2 DEF Starts, Concludes, Continues
    <2> QED
      BY <2>1, <2>2
  <1>8. ASSUME NEW u \in Workers, Watches(u) PROVE Goal
    <2>1. CASE u = w
      BY <1>1, <1>8, <2>1 DEF Watches, Continues, Supervises
    <2>2. CASE u # w
      BY <1>3, <1>8, <2>2 DEF Watches, Continues
    <2> QED
      BY <2>1, <2>2
  <1>9. ASSUME NEW u \in Workers, Receives(u) PROVE Goal
    <2>1. CASE u = w
      <3>1. Supervises(w, j) /\ worker'[w].token = worker[w].token
        BY <1>9, <2>1 DEF Receives, Continues, Supervises
      <3>2. worker'[w].pc = "finish" => SoundVerdict(worker'[w].verdict, row[j])
        <4> DEFINE message == child[j].pipe[1]
        <4>1. CASE /\ message.kind = "result"
                   /\ worker'[w].verdict = Verdict("SUCCEEDED", message.result, NoError)
          <5>1. PipeOK(child[j], row[j]) /\ 1 \in 1 .. Len(child[j].pipe)
            BY <1>9, <2>1, <3>1, PipeFacts DEF Receives, Supervises, PipesOK
          <5>2. message.result = Final
            BY <4>1, <5>1 DEF PipeOK
          <5> QED
            BY <4>1, <5>2 DEF SoundVerdict, Verdict
        <4> QED
          BY <1>9, <2>1, <3>1, <4>1 DEF Receives, Supervises
      <3> QED
        BY <1>1, <3>1, <3>2
    <2>2. CASE u # w
      BY <1>3, <1>9, <2>2 DEF Receives, Continues
    <2> QED
      BY <2>1, <2>2
  <1> QED
    BY <1>0, <1>4, <1>5, <1>6, <1>7, <1>8, <1>9 DEF StepKind

LEMMA TailFacts ==
  ASSUME NEW S, NEW s \in Seq(S), s # <<>>
  PROVE  /\ Tail(s) \in Seq(S)
         /\ Len(Tail(s)) = Len(s) - 1
         /\ \A n \in 1 .. Len(s) - 1 : Tail(s)[n] = s[n + 1]
  OBVIOUS

LEMMA AppendFacts ==
  ASSUME NEW S, NEW s \in Seq(S), NEW e \in S
  PROVE  /\ Append(s, e) \in Seq(S)
         /\ Len(Append(s, e)) = Len(s) + 1
         /\ Append(s, e)[Len(s) + 1] = e
         /\ \A n \in 1 .. Len(s) : Append(s, e)[n] = s[n]
  OBVIOUS

\* The result stored for a job that is still open afterwards is the same.
ResultKept(k) ==
  row'[k].status \in Claimed =>
    row[k].status \in Claimed /\ row'[k].checkpoint = row[k].checkpoint

LEMMA ResultKeptStep ==
  ASSUME row \in [Jobs -> Rows], NEW k \in Jobs
  PROVE  /\ TablesKept => ResultKept(k)
         /\ \A j \in Jobs, i \in Inputs : Inserts(j, i) => ResultKept(k)
         /\ \A j \in Jobs, t \in Nat : Claims(j, t) /\ j # k => ResultKept(k)
         /\ \A j \in Jobs : Cancels(j) => ResultKept(k)
         /\ \A j \in Jobs : \A c : Checkpoints(j, c) /\ j # k => ResultKept(k)
         /\ \A j \in Jobs, s \in Terminal : \A c, e : Finishes(j, s, c, e) => ResultKept(k)
  <1> USE DEF ResultKept
  <1>1. TablesKept => ResultKept(k)
    BY DEF TablesKept
  <1>2. ASSUME NEW j \in Jobs, NEW i \in Inputs, Inserts(j, i) PROVE ResultKept(k)
    BY <1>2 DEF Inserts, QueuedRow, AbsentRow, Claimed, Waiting
  <1>3. ASSUME NEW j \in Jobs, NEW t \in Nat, Claims(j, t), j # k PROVE ResultKept(k)
    BY <1>3 DEF Claims
  <1>4. ASSUME NEW j \in Jobs, Cancels(j) PROVE ResultKept(k)
    BY <1>4 DEF Cancels, CancelledRow, Claimed, Terminal, Rows, Waiting, Active
  <1>5. ASSUME NEW j \in Jobs, NEW c, Checkpoints(j, c), j # k PROVE ResultKept(k)
    BY <1>5 DEF Checkpoints
  <1>6. ASSUME NEW j \in Jobs, NEW s \in Terminal, NEW c, NEW e, Finishes(j, s, c, e)
        PROVE  ResultKept(k)
    BY <1>6 DEF Finishes, FinishedRow, StoredStatus, Claimed, Terminal, Rows
  <1> QED
    BY <1>1, <1>2, <1>3, <1>4, <1>5, <1>6

\* A pipe that is left alone still fits its row.
LEMMA PipeStays ==
  ASSUME NEW c, NEW d, NEW k \in Jobs, PipeOK(c, row[k]), ResultKept(k),
         d.pipe = c.pipe,
         \/ d = c
         \/ d.state = "gone"
         \/ d.state = c.state /\ d.stage = c.stage /\ d.orphan = c.orphan
  PROVE  PipeOK(d, row'[k])
  BY DEF PipeOK, ResultKept

\* What is left of a pipe once its first message was taken and, if it is a
\* checkpoint, stored.
LEMMA TailFits ==
  ASSUME NEW c, NEW d, NEW r, NEW q, PipeOK(c, r),
         c.pipe \in Seq(Messages), c.pipe # <<>>, r.checkpoint \in Nat,
         d.state = c.state, d.stage = c.stage, d.orphan = c.orphan, d.pipe = Tail(c.pipe),
         q.status \in Claimed => r.status \in Claimed,
         q.status \in Claimed /\ c.pipe[1].kind = "checkpoint" => q.checkpoint = c.pipe[1].result
  PROVE  PipeOK(d, q)
  <1> DEFINE s == c.pipe
             t == d.pipe
             L == Len(s)
  <1>1. s \in Seq(Messages) /\ s # <<>> /\ L \in Nat /\ L >= 1
    OBVIOUS
  <1>2. Len(t) = L - 1 /\ \A n \in 1 .. L - 1 : t[n] = s[n + 1]
    BY <1>1, TailFacts
  <1>3. c.state # "none"
    BY <1>1 DEF PipeOK
  <1>4. \A n \in 1 .. L : /\ s[n].kind = "result" => s[n].result = Final
                          /\ s[n].kind # "checkpoint" => n = L /\ c.state # "solving"
    BY DEF PipeOK
  <1>5. q.status \in Claimed =>
          /\ \A n \in 1 .. L :
               s[n].kind = "checkpoint" =>
                 s[n].result = r.checkpoint + n /\ s[n].result <= Stages
          /\ c.state = "solving" /\ ~c.orphan => c.stage = r.checkpoint + L
    BY DEF PipeOK
  <1>6. q.status \in Claimed /\ s[1].kind = "checkpoint" => q.checkpoint = s[1].result
    OBVIOUS
  <1>12. ASSUME t = <<>> /\ c.state # "solving" PROVE PipeOK(d, q)
    BY <1>3, <1>12 DEF PipeOK
  <1> HIDE DEF s, t, L
  <1>7. \A n \in 1 .. Len(t) : /\ n \in Nat /\ n + 1 \in 1 .. L /\ t[n] = s[n + 1]
                               /\ n + 1 = L => n = Len(t)
    BY <1>1, <1>2
  <1>8. \A n \in 1 .. Len(t) : /\ t[n].kind = "result" => t[n].result = Final
                               /\ t[n].kind # "checkpoint" => n = Len(t) /\ c.state # "solving"
    <2> SUFFICES ASSUME NEW n \in 1 .. Len(t)
                 PROVE  /\ t[n].kind = "result" => t[n].result = Final
                        /\ t[n].kind # "checkpoint" => n = Len(t) /\ c.state # "solving"
      OBVIOUS
    <2>1. /\ s[n + 1].kind = "result" => s[n + 1].result = Final
          /\ s[n + 1].kind # "checkpoint" => n + 1 = L /\ c.state # "solving"
      BY <1>4, <1>7
    <2>2. t[n] = s[n + 1] /\ (n + 1 = L => n = Len(t))
      BY <1>7
    <2> QED
      BY <2>1, <2>2
  <1>9. CASE q.status \in Claimed /\ s[1].kind = "checkpoint"
    <2>1. q.checkpoint = r.checkpoint + 1
      BY <1>1, <1>5, <1>6, <1>9
    <2>2. \A n \in 1 .. Len(t) :
            t[n].kind = "checkpoint" =>
              t[n].result = q.checkpoint + n /\ t[n].result <= Stages
      <3> SUFFICES ASSUME NEW n \in 1 .. Len(t), t[n].kind = "checkpoint"
                   PROVE  t[n].result = q.checkpoint + n /\ t[n].result <= Stages
        OBVIOUS
      <3>1. s[n + 1].result = r.checkpoint + (n + 1) /\ s[n + 1].result <= Stages
        BY <1>5, <1>7, <1>9
      <3>2. r.checkpoint + (n + 1) = q.checkpoint + n
        <4>1. n \in Nat
          BY <1>7
        <4> QED
          BY <2>1, <4>1
      <3>3. t[n] = s[n + 1]
        BY <1>7
      <3> QED
        BY <3>1, <3>2, <3>3
    <2>3. c.state = "solving" /\ ~c.orphan => c.stage = q.checkpoint + Len(t)
      BY <1>1, <1>2, <1>5, <1>9, <2>1
    <2> QED
      BY <1>3, <1>8, <2>2, <2>3 DEF PipeOK, t
  <1>10. CASE s[1].kind # "checkpoint"
    <2>1. Len(t) = 0 /\ c.state # "solving"
      BY <1>1, <1>2, <1>4, <1>10
    <2>2. t = <<>>
      <3>1. t \in Seq(Messages)
        BY <1>1, TailFacts DEF t, s
      <3> QED
        BY <2>1, <3>1
    <2> QED
      BY <1>12, <2>1, <2>2
  <1>11. CASE q.status \notin Claimed
    BY <1>3, <1>8, <1>11 DEF PipeOK, t
  <1> QED
    BY <1>9, <1>10, <1>11

\* Taking a message from a pipe: a checkpoint was stored by the same step, for
\* the row is this supervisor's.
LEMMA PipeReceived ==
  ASSUME TypeOK, SupervisionOK, PipesOK, NEW w \in Workers, Receives(w),
         NEW j \in Jobs, worker[w].job = j
  PROVE  PipeOK(child'[j], row'[j])
  <1>1. /\ Supervises(w, j) /\ child[j].pipe # <<>>
        /\ child'[j].state = child[j].state /\ child'[j].stage = child[j].stage
        /\ child'[j].orphan = child[j].orphan /\ child'[j].pipe = Tail(child[j].pipe)
    BY DEF Receives, Continues, Supervises
  <1>2. child[j].pipe \in Seq(Messages)
    BY PipeFacts
  <1>3. row[j] \in Rows /\ row[j].checkpoint \in Nat
    BY RowAssumption DEF RowAssumption, TypeOK, RowTypeOK, Rows, Results, Final
  <1>4. row'[j].status \in Claimed => row[j].status \in Claimed
    BY <1>3 DEF Receives, Checkpoints, TablesKept
  <1>5. ASSUME row'[j].status \in Claimed, child[j].pipe[1].kind = "checkpoint"
        PROVE  row'[j].checkpoint = child[j].pipe[1].result
    <2>1. Owns(row[j], worker[w].token)
      BY <1>1, <1>4, <1>5 DEF SupervisionOK, Owns
    <2>2. Checkpoints(j, child[j].pipe[1].result)
      BY <1>5, <2>1 DEF Receives
    <2> QED
      BY <1>3, <2>2 DEF Checkpoints, CheckpointedRow, TypeOK, RowTypeOK, Rows
  <1>6. PipeOK(child[j], row[j])
    BY DEF PipesOK
  <1> QED
    BY <1>1, <1>2, <1>3, <1>4, <1>5, <1>6, TailFits

\* What the pipe of a process that still computes holds once it has sent.
LEMMA AppendFits ==
  ASSUME NEW c, NEW d, NEW r, NEW m \in Messages, PipeOK(c, r),
         c.pipe \in Seq(Messages), r.checkpoint \in Nat,
         c.state = "solving", d.pipe = Append(c.pipe, m), d.orphan = c.orphan,
         m.kind = "result" => m.result = Final,
         \/ m.kind # "checkpoint" /\ d.state \in {"closing", "gone"}
         \/ /\ m = Message("checkpoint", c.stage + 1) /\ ~c.orphan
            /\ c.stage + 1 <= Stages
            /\ d.state = "solving" /\ d.stage = c.stage + 1
  PROVE  PipeOK(d, r)
  <1> DEFINE s == c.pipe
             t == d.pipe
             L == Len(s)
  <1>1. s \in Seq(Messages) /\ L \in Nat
    OBVIOUS
  <1>2. Len(t) = L + 1 /\ t[L + 1] = m /\ \A n \in 1 .. L : t[n] = s[n]
    BY <1>1, AppendFacts
  <1>3. \A n \in 1 .. L : s[n].kind = "checkpoint"
    BY DEF PipeOK
  <1>4. r.status \in Claimed =>
          /\ \A n \in 1 .. L : s[n].result = r.checkpoint + n /\ s[n].result <= Stages
          /\ ~c.orphan => c.stage = r.checkpoint + L
    BY <1>3 DEF PipeOK
  <1> HIDE DEF s, L
  <1>5. \A n \in 1 .. L + 1 : n = L + 1 \/ n \in 1 .. L
    BY <1>1
  <1>6. \A n \in 1 .. Len(t) :
          /\ t[n].kind = "result" => t[n].result = Final
          /\ t[n].kind # "checkpoint" => n = Len(t) /\ d.state # "solving"
    <2> HIDE DEF t
    <2> QED
      BY <1>2, <1>3, <1>5 DEF Message
  <1>7. ASSUME r.status \in Claimed
        PROVE  \A n \in 1 .. Len(t) :
                 t[n].kind = "checkpoint" =>
                   t[n].result = r.checkpoint + n /\ t[n].result <= Stages
    <2> HIDE DEF t
    <2>1. m.kind = "checkpoint" => m.result = r.checkpoint + (L + 1) /\ m.result <= Stages
      BY <1>1, <1>4, <1>7 DEF Message
    <2> QED
      BY <1>2, <1>4, <1>5, <1>7, <2>1
  <1>8. ASSUME r.status \in Claimed, d.state = "solving", ~d.orphan
        PROVE  d.stage = r.checkpoint + Len(t)
    <2>1. d.stage = c.stage + 1
      BY <1>8
    <2>2. c.stage = r.checkpoint + L
      BY <1>4, <1>8
    <2>3. Len(t) = L + 1
      BY <1>2
    <2>4. (r.checkpoint + L) + 1 = r.checkpoint + (L + 1)
      <3>1. \A a, b \in Nat : (a + b) + 1 = a + (b + 1)
        OBVIOUS
      <3> QED
        BY <1>1, <3>1
    <2> HIDE DEF t
    <2> QED
      BY <2>1, <2>2, <2>3, <2>4
  <1>9. d.state # "none"
    OBVIOUS
  <1> QED
    BY <1>6, <1>7, <1>8, <1>9 DEF PipeOK

LEMMA MovesFit ==
  ASSUME TypeOK, PipesOK, NEW j \in Jobs, Moves(j) PROVE PipeOK(child'[j], row'[j])
  <1>1. PipeOK(child[j], row[j]) /\ child[j].pipe \in Seq(Messages) /\ row' = row
    BY PipeFacts DEF PipesOK, Moves, TablesKept
  <1>2. row[j].checkpoint \in Nat /\ child[j].stage \in Nat
    BY RowAssumption
    DEF RowAssumption, TypeOK, RowTypeOK, WorkerTypeOK, ChildStates, Rows, Results, Final
  <1>3. child'[j].orphan = child[j].orphan
    BY DEF Moves
  <1>4. CASE /\ child[j].state = "solving" /\ child'[j].state = "solving"
             /\ ~child[j].orphan
             /\ child'[j].stage = child[j].stage + 1
             /\ child'[j].stage \in 1 .. Stages
             /\ child'[j].pipe = Append(child[j].pipe, Message("checkpoint", child'[j].stage))
    <2> DEFINE m == Message("checkpoint", child[j].stage + 1)
    <2>1. m \in Messages /\ m.kind = "checkpoint"
      BY <1>4, RowAssumption DEF RowAssumption, Message, Messages, Results, Final
    <2>2. child[j].stage + 1 <= Stages
      BY <1>2, <1>4, RowAssumption DEF RowAssumption
    <2>3. child'[j].pipe = Append(child[j].pipe, m)
      BY <1>4
    <2> QED
      BY <1>1, <1>2, <1>3, <1>4, <2>1, <2>2, <2>3, AppendFits
  <1>5. CASE /\ child[j].state = "solving" /\ child'[j].state \in {"closing", "gone"}
             /\ \E m \in {Message("result", Final), Message("error", NoResult),
                          Message("truncated", NoResult)} :
                  child'[j].pipe = Append(child[j].pipe, m)
    <2>1. PICK m \in {Message("result", Final), Message("error", NoResult),
                      Message("truncated", NoResult)} :
            child'[j].pipe = Append(child[j].pipe, m)
      BY <1>5
    <2>2. /\ m \in Messages
          /\ m.kind # "checkpoint"
          /\ m.kind = "result" => m.result = Final
      BY ResultFacts DEF Message, Messages
    <2> QED
      BY <1>1, <1>2, <1>3, <1>5, <2>1, <2>2, AppendFits
  <1>6. CASE child'[j].state = "gone" /\ child'[j].pipe = child[j].pipe
    BY <1>1, <1>6 DEF PipeOK
  <1>7. CASE /\ child'[j].state = child[j].state
             /\ child'[j].stage = child[j].stage
             /\ child'[j].pipe = child[j].pipe
    BY <1>1, <1>3, <1>7 DEF PipeOK
  <1> QED
    BY <1>4, <1>5, <1>6, <1>7 DEF Moves

LEMMA PipesOKStep ==
  ASSUME TypeOK, ControlOK, WaitingRowsEmpty, ChildrenFresh, SupervisionOK, PipesOK,
         [Next]_vars
  PROVE  PipesOK'
  <1>0. row \in [Jobs -> Rows] /\ StepKind
    BY StepHasKind DEF TypeOK, RowTypeOK
  <1> SUFFICES ASSUME NEW k \in Jobs PROVE PipeOK(child'[k], row'[k])
    BY DEF PipesOK
  <1>1. PipeOK(child[k], row[k])
    BY DEF PipesOK
  <1>2. ASSUME child'[k] = child[k], ResultKept(k) PROVE PipeOK(child'[k], row'[k])
    BY <1>1, <1>2, PipeStays
  <1>3. CASE Quiet
    BY <1>0, <1>2, <1>3, ResultKeptStep DEF Quiet
  <1>4. ASSUME NEW w \in Workers, Outside(w) PROVE PipeOK(child'[k], row'[k])
    BY <1>0, <1>2, <1>4, ResultKeptStep DEF Outside, Terminal
  <1>5. ASSUME NEW w \in Workers, WinsClaim(w) PROVE PipeOK(child'[k], row'[k])
    <2>1. CASE worker[w].job # k
      BY <1>0, <1>2, <1>5, <2>1, ResultKeptStep DEF WinsClaim
    <2>2. CASE worker[w].job = k
      <3>1. row[k].status = "QUEUED" /\ row'[k].checkpoint = row[k].checkpoint
        BY <1>0, <1>5, <2>2 DEF WinsClaim, Claims, ClaimedRow, Rows
      <3>2. child'[k] = child[k] /\ child[k].state = "none"
        BY <1>5, <3>1 DEF WinsClaim, ChildrenFresh, Left
      <3>3. row'[k].checkpoint = NoResult
        BY <3>1 DEF WaitingRowsEmpty, Waiting
      <3> QED
        BY <1>1, <3>2, <3>3 DEF PipeOK
    <2> QED
      BY <2>1, <2>2
  <1>6. ASSUME NEW w \in Workers, Starts(w) PROVE PipeOK(child'[k], row'[k])
    <2>1. CASE worker[w].job # k
      BY <1>0, <1>2, <1>6, <2>1, ResultKeptStep DEF Starts, OnlyChild
    <2>2. CASE worker[w].job = k
      <3>1. child[k].state = "none" /\ row' = row
        BY <1>6, <2>2 DEF Starts, ChildrenFresh, Supervises, Supervision, TablesKept
      <3>2. /\ child'[k].state = "solving" /\ child'[k].pipe = <<>> /\ child'[k].stage = 0
        BY <1>6, <2>2 DEF Starts, NoChild
      <3>3. row[k].status \in Claimed => row[k].checkpoint = 0
        BY <1>1, <3>1 DEF PipeOK, NoResult
      <3> QED
        BY <3>1, <3>2, <3>3 DEF PipeOK
    <2> QED
      BY <2>1, <2>2
  <1>7. ASSUME NEW w \in Workers, Leaves(w) PROVE PipeOK(child'[k], row'[k])
    <2>1. ResultKept(k)
      BY <1>0, <1>7, ResultKeptStep DEF Leaves, Terminal
    <2>2. CASE child'[k] = child[k]
      BY <1>2, <2>1, <2>2
    <2>3. CASE child'[k].state = "gone" /\ child'[k].pipe = <<>>
      BY <2>3 DEF PipeOK
    <2>4. CASE /\ child'[k].state = child[k].state
               /\ child'[k].orphan = Alive(k)
               /\ child'[k].pipe = <<>>
      <3>1. child'[k].state = "solving" => child'[k].orphan
        BY <2>4 DEF Alive
      <3>2. child'[k].state = "none" /\ row'[k].status \in Claimed
              => row'[k].checkpoint = NoResult
        BY <1>1, <2>1, <2>4 DEF PipeOK, ResultKept
      <3> QED
        BY <2>4, <3>1, <3>2 DEF PipeOK
    <2> QED
      BY <1>7, <2>2, <2>3, <2>4 DEF Leaves, OnlyChild
  <1>8. ASSUME NEW w \in Workers, Watches(w) PROVE PipeOK(child'[k], row'[k])
    <2>1. ResultKept(k)
      BY <1>0, <1>8, ResultKeptStep DEF Watches
    <2>2. \/ child'[k] = child[k]
          \/ child'[k].state = "gone" /\ child'[k].pipe = child[k].pipe
      BY <1>8 DEF Watches, OnlyChild
    <2> QED
      BY <1>1, <2>1, <2>2, PipeStays
  <1>9. ASSUME NEW w \in Workers, Receives(w) PROVE PipeOK(child'[k], row'[k])
    <2>1. CASE worker[w].job = k
      BY <1>9, <2>1, PipeReceived
    <2>2. CASE worker[w].job # k
      <3>1. child'[k] = child[k]
        BY <1>9, <2>2 DEF Receives, OnlyChild
      <3>2. TablesKept \/ \E c : Checkpoints(worker[w].job, c)
        BY <1>9 DEF Receives
      <3>3. worker[w].job \in Jobs
        BY <1>9 DEF Receives, Continues
      <3>4. ResultKept(k)
        BY <1>0, <2>2, <3>2, <3>3, ResultKeptStep
      <3> QED
        BY <1>2, <3>1, <3>4
    <2> QED
      BY <2>1, <2>2
  <1>10. ASSUME NEW w \in Workers, Concludes(w) PROVE PipeOK(child'[k], row'[k])
    <2>1. worker[w].verdict.status \in Terminal /\ worker[w].job \in Jobs
      BY <1>10 DEF Concludes, Continues, ControlOK, WorkerControlOK
    <2> QED
      BY <1>0, <1>2, <1>10, <2>1, ResultKeptStep DEF Concludes
  <1>11. ASSUME NEW j \in Jobs, Moves(j) PROVE PipeOK(child'[k], row'[k])
    <2>1. CASE j = k
      BY <1>11, <2>1, MovesFit
    <2>2. CASE j # k
      BY <1>0, <1>2, <1>11, <2>2, ResultKeptStep DEF Moves, OnlyChild
    <2> QED
      BY <2>1, <2>2
  <1> QED
    BY <1>0, <1>3, <1>4, <1>5, <1>6, <1>7, <1>8, <1>9, <1>10, <1>11 DEF StepKind

\* Completeness and success of the stored outcomes follow from what a finish
\* is called with.
LEMMA OutcomesStep ==
  ASSUME row \in [Jobs -> Rows], SoundRowStep, OpenRowsUnfinished, OutcomeConsistent
  PROVE  OpenRowsUnfinished' /\ OutcomeConsistent'
  <1> DEFINE Good(r) ==
               /\ r.status \notin Terminal => r.checkpoint # Final
               /\ r.status = "SUCCEEDED" => r.checkpoint = Final /\ r.error_code = NoError
               /\ r.checkpoint = Final => r.status \in {"SUCCEEDED", "CANCELLED"}
               /\ r.status = "TIMED_OUT" => r.error_code = TimeoutError
               /\ r.status = "FAILED" => r.error_code \in FailureCodes
  <1>0. \A k \in Jobs : Good(row[k]) /\ row[k] \in Rows
    BY DEF OpenRowsUnfinished, OutcomeConsistent
  <1> SUFFICES \A k \in Jobs : Good(row'[k])
    BY DEF OpenRowsUnfinished, OutcomeConsistent
  <1> USE DEF Terminal, Claimed
  <1>1. CASE TablesKept
    BY <1>0, <1>1 DEF TablesKept
  <1>2. ASSUME NEW j \in Jobs, NEW i \in Inputs, Inserts(j, i) PROVE \A k \in Jobs : Good(row'[k])
    BY <1>0, <1>2, ResultFacts DEF Inserts, QueuedRow, AbsentRow
  <1>3. ASSUME NEW j \in Jobs, NEW t \in Nat, Claims(j, t) PROVE \A k \in Jobs : Good(row'[k])
    BY <1>0, <1>3 DEF Claims, ClaimedRow, Rows
  <1>4. ASSUME NEW j \in Jobs, Cancels(j) PROVE \A k \in Jobs : Good(row'[k])
    BY <1>0, <1>4 DEF Cancels, CancelledRow, Rows
  <1>5. ASSUME NEW j \in Jobs, NEW c \in 1 .. Stages, Checkpoints(j, c)
        PROVE  \A k \in Jobs : Good(row'[k])
    <2>1. c # Final
      BY RowAssumption DEF RowAssumption, Final
    <2> QED
      BY <1>0, <1>5, <2>1 DEF Checkpoints, CheckpointedRow, Rows
  <1>6. ASSUME NEW j \in Jobs, NEW v \in Verdicts, v.status \in Terminal,
               SoundVerdict(v, row[j]), Finishes(j, v.status, v.result, v.error)
        PROVE  \A k \in Jobs : Good(row'[k])
    <2>1. Good(FinishedRow(row[j], v.status, v.result, v.error))
      <3> DEFINE r == FinishedRow(row[j], v.status, v.result, v.error)
      <3>1. /\ r.status = StoredStatus(row[j], v.status)
            /\ r.checkpoint = LastResult(row[j], v.result)
            /\ r.error_code = v.error
        BY <1>0 DEF FinishedRow, Rows
      <3>2. row[j].status \in Claimed /\ row[j].checkpoint # Final
        BY <1>0, <1>6 DEF Finishes
      <3> HIDE DEF r
      <3>3. v.status = "SUCCEEDED" => v.result = Final /\ v.error = NoError
        BY <1>6 DEF SoundVerdict
      <3>4. v.status = "CANCELLED" => row[j].status = "CANCELLING"
        BY <1>6, <3>2 DEF SoundVerdict
      <3>5. v.result = Final => v.status = "SUCCEEDED"
        BY <1>6, ResultFacts DEF SoundVerdict
      <3>6. /\ v.status = "TIMED_OUT" => v.error = TimeoutError
            /\ v.status = "FAILED" => v.error \in FailureCodes
        BY <1>6 DEF SoundVerdict
      <3>7. r.status = IF row[j].status = "CANCELLING" THEN "CANCELLED" ELSE v.status
        BY <3>1 DEF StoredStatus
      <3>8. r.checkpoint = Final => v.status = "SUCCEEDED"
        BY <3>1, <3>2, <3>5 DEF LastResult
      <3>9. v.status = "SUCCEEDED" => r.checkpoint = Final
        BY <3>1, <3>3, ResultFacts DEF LastResult
      <3>10. Good(r)
        BY <1>6, <3>1, <3>2, <3>3, <3>4, <3>6, <3>7, <3>8, <3>9
      <3> QED
        BY <3>10 DEF r
    <2> QED
      BY <1>0, <1>6, <2>1 DEF Finishes
  <1> QED
    BY <1>1, <1>2, <1>3, <1>4, <1>5, <1>6 DEF SoundRowStep

\* The inductive invariant of the outcomes: supervisors hold the rows they
\* write to, and what is under way in pipes and verdicts continues them.
OutcomesOK == SupervisionOK /\ PipesOK /\ OpenRowsUnfinished /\ OutcomeConsistent

LEMMA OutcomesInvariant == Spec => []OutcomesOK
  <1> DEFINE Inv == /\ TypeOK /\ ControlOK /\ ChildrenFresh
                    /\ WaitingRowsEmpty /\ PublishedExactlyOnce
                    /\ SupervisedJobsLeft /\ OneSupervisor
  <1>1. Init => OutcomesOK
    <2> SUFFICES ASSUME Init PROVE OutcomesOK
      OBVIOUS
    <2>1. SupervisionOK
      BY DEF Init, WorkerInit, SupervisionOK, Supervises, IdleWorker, Supervision
    <2>2. PipesOK
      BY DEF Init, WorkerInit, RowInit, PipesOK, PipeOK, NoChild, AbsentRow
    <2>3. OpenRowsUnfinished /\ OutcomeConsistent
      BY ResultFacts DEF Init, RowInit, AbsentRow, OpenRowsUnfinished, OutcomeConsistent,
         Terminal
    <2> QED
      BY <2>1, <2>2, <2>3 DEF OutcomesOK
  <1>2. Inv /\ OutcomesOK /\ [Next]_vars => OutcomesOK'
    <2> SUFFICES ASSUME Inv, OutcomesOK, [Next]_vars PROVE OutcomesOK'
      OBVIOUS
    <2>1. SupervisionOK /\ PipesOK /\ OpenRowsUnfinished /\ OutcomeConsistent
      BY DEF OutcomesOK
    <2>2. SoundRowStep /\ row \in [Jobs -> Rows]
      BY <2>1, StepHasKind, KindIsSound DEF TypeOK, RowTypeOK
    <2>3. SupervisionOK'
      BY <2>1, SupervisionOKStep
    <2>4. PipesOK'
      BY <2>1, PipesOKStep
    <2>5. OpenRowsUnfinished' /\ OutcomeConsistent'
      BY <2>1, <2>2, OutcomesStep
    <2> QED
      BY <2>3, <2>4, <2>5 DEF OutcomesOK
  <1>3. Spec => []Inv
    BY TypeControl, FreshInvariant, PublishedInvariant, SupervisionInvariant, PTL
  <1> QED
    BY <1>1, <1>2, <1>3, PTL DEF Spec

\* Complete results and success go together unless a cancellation committed
\* first, and an error code explains the state it is stored with: through
\* every race of finish with cancel_job, recovery, deadline, crash and a
\* process that ends on its own.
THEOREM OutcomesConsistent == Spec => []OutcomeConsistent
  BY OutcomesInvariant, PTL DEF OutcomesOK

\* The result stored for a job moves forward by one stage, or to the complete
\* one: the pipe delivers each checkpoint once and in order, and no write of a
\* supervisor that lost its claim is applied.
THEOREM CheckpointsMoveForward == Spec => CheckpointsAdvance
  <1>1. ASSUME TypeOK, ControlOK, WaitingRowsEmpty, OutcomesOK, [Next]_vars, NEW k \in Jobs,
               row'[k].checkpoint # row[k].checkpoint
        PROVE  row'[k].checkpoint \in {row[k].checkpoint + 1, Final}
    <2>0. SoundRowStep /\ row \in [Jobs -> Rows]
      BY <1>1, StepHasKind, KindIsSound DEF OutcomesOK, TypeOK, RowTypeOK
    <2>1. CASE TablesKept
      BY <1>1, <2>1 DEF TablesKept
    <2>2. ASSUME NEW j \in Jobs, NEW i \in Inputs, Inserts(j, i) PROVE FALSE
      BY <1>1, <2>0, <2>2 DEF Inserts, QueuedRow, AbsentRow, WaitingRowsEmpty
    <2>3. ASSUME NEW j \in Jobs, NEW t \in Nat, Claims(j, t) PROVE FALSE
      BY <1>1, <2>0, <2>3 DEF Claims, ClaimedRow, Rows
    <2>4. ASSUME NEW j \in Jobs, Cancels(j) PROVE FALSE
      BY <1>1, <2>0, <2>4 DEF Cancels, CancelledRow, Rows
    <2>5. ASSUME NEW j \in Jobs, NEW c \in 1 .. Stages, c = row[j].checkpoint + 1,
                 Checkpoints(j, c)
          PROVE  row'[k].checkpoint = row[k].checkpoint + 1
      BY <1>1, <2>0, <2>5 DEF Checkpoints, CheckpointedRow, Rows
    <2>6. ASSUME NEW j \in Jobs, NEW v \in Verdicts, SoundVerdict(v, row[j]),
                 Finishes(j, v.status, v.result, v.error)
          PROVE  row'[k].checkpoint = Final
      BY <1>1, <2>0, <2>6 DEF Finishes, FinishedRow, LastResult, SoundVerdict, Rows
    <2> QED
      BY <2>0, <2>1, <2>2, <2>3, <2>4, <2>5, <2>6 DEF SoundRowStep
  <1> DEFINE Advances == \A j \in Jobs : row'[j].checkpoint # row[j].checkpoint =>
                           row'[j].checkpoint \in {row[j].checkpoint + 1, Final}
  <1>2. TypeOK /\ ControlOK /\ (WaitingRowsEmpty /\ PublishedExactlyOnce) /\ OutcomesOK
          /\ [Next]_vars
          => Advances
    BY <1>1
  <1>3. CheckpointsAdvance <=> [][Advances]_vars
    BY DEF CheckpointsAdvance
  <1> HIDE DEF Advances
  <1> QED
    BY <1>2, <1>3, TypeControl, PublishedInvariant, OutcomesInvariant, PTL DEF Spec

-----------------------------------------------------------------------------
(* The tables of the job system implement JobContract: every step is a step  *)
(* of the contract or changes nothing a client can see.                      *)

\* The contract's variables, computed from the tables.
AbsState == [j \in Jobs |-> row[j].status]
AbsInput == [j \in Jobs |-> row[j].input]
AbsNames == [k \in RequestKeys |-> IF Bound(k) THEN request[k].job ELSE NoInput]
AbsPublished == [j \in Jobs |-> row[j].result_run]

-----------------------------------------------------------------------------
(* Steps of the tables, keys and rows together.                            *)

\* A supervisor or a cancelling client never inserts a row.
LEMMA ServiceInsertsNothing ==
  ASSUME row \in [Jobs -> Rows], ServiceStep, NEW j \in Jobs, NEW i \in Inputs
  PROVE  ~Inserts(j, i)
  <1> SUFFICES ASSUME row[j].status = "ABSENT" PROVE row'[j].status = "ABSENT"
    BY DEF Inserts, QueuedRow, AbsentRow
  <1>1. ASSUME NEW k \in Jobs, NEW t \in Nat, Claims(k, t) PROVE row'[j].status = "ABSENT"
    BY <1>1 DEF Claims
  <1>2. ASSUME NEW k \in Jobs, Cancels(k) PROVE row'[j].status = "ABSENT"
    BY <1>2 DEF Cancels
  <1>3. ASSUME NEW k \in Jobs, NEW c \in Results, Checkpoints(k, c)
        PROVE  row'[j].status = "ABSENT"
    BY <1>3 DEF Checkpoints, Claimed
  <1>4. ASSUME NEW k \in Jobs, NEW s \in Terminal, NEW c \in Results, NEW e \in ErrorCodes,
               Finishes(k, s, c, e)
        PROVE  row'[j].status = "ABSENT"
    BY <1>4 DEF Finishes, Claimed
  <1> QED
    BY <1>1, <1>2, <1>3, <1>4 DEF ServiceStep

\* A row appears only together with the key that names it.
LEMMA InsertsAreNamed ==
  ASSUME TypeOK, ControlOK, FoundJobsMatch, [Next]_vars, request' = request,
         NEW j \in Jobs, NEW i \in Inputs
  PROVE  ~Inserts(j, i)
  <1>0. row \in [Jobs -> Rows] /\ AdmissionTypeOK
    BY DEF TypeOK, RowTypeOK
  <1>1. CASE ServiceStep
    BY <1>0, <1>1, ServiceInsertsNothing
  <1>2. ASSUME NEW p \in Posts, NEW o \in Jobs, InsertJob(p, o) PROVE FALSE
    <2>1. post[p].key \in RequestKeys /\ Binds(post[p].key, post[p].input, o)
      BY <1>2, InsertJobBinds
    <2>2. request[post[p].key] = [request_hash |-> post[p].input, job |-> o]
      BY <1>0, <2>1 DEF Binds, AdmissionTypeOK
    <2> QED
      BY <2>1, <2>2 DEF Binds, Bound, Unbound, NoJob, Jobs
  <1>3. ASSUME NEW p \in Posts,
               \/ RefuseInput(p) \/ LookUpKey(p) \/ LookUpActive(p) \/ CountPending(p)
               \/ InsertAlias(p) \/ LoseRace(p) \/ FailPost(p)
               \/ \E k \in Keys \cup {NoKey}, l \in Inputs : Send(p, k, l)
        PROVE  row' = row
    BY <1>3 DEF RefuseInput, LookUpKey, LookUpActive, CountPending, InsertAlias, LoseRace,
       FailPost, Send, rowVars
  <1>4. row' = row => ~Inserts(j, i)
    BY <1>0 DEF Inserts, QueuedRow, AbsentRow
  <1>5. CASE AdmissionNext
    BY <1>2, <1>3, <1>4, <1>5 DEF AdmissionNext, PostStep
  <1>6. CASE UNCHANGED vars
    BY <1>4, <1>6 DEF vars, rowVars
  <1> QED
    BY <1>1, <1>5, <1>6, WorkerServiceStep, CancelServiceStep DEF Next

-----------------------------------------------------------------------------
(* The abstraction of one changed row, and of one new key.                 *)

LEMMA ChangedRow ==
  ASSUME row \in [Jobs -> Rows], NEW j \in Jobs, NEW q, row' = [row EXCEPT ![j] = q]
  PROVE  /\ AbsState' = [AbsState EXCEPT ![j] = q.status]
         /\ AbsInput' = [AbsInput EXCEPT ![j] = q.input]
         /\ AbsPublished' = [AbsPublished EXCEPT ![j] = q.result_run]
         /\ q.status = row[j].status => AbsState' = AbsState
         /\ q.input = row[j].input => AbsInput' = AbsInput
         /\ q.result_run = row[j].result_run => AbsPublished' = AbsPublished
  <1>1. \A k \in Jobs : row'[k] = IF k = j THEN q ELSE row[k]
    OBVIOUS
  <1> QED
    BY <1>1 DEF AbsState, AbsInput, AbsPublished

LEMMA SameRows ==
  row' = row => AbsState' = AbsState /\ AbsInput' = AbsInput /\ AbsPublished' = AbsPublished
  BY DEF AbsState, AbsInput, AbsPublished

LEMMA SameKeys == request' = request => AbsNames' = AbsNames
  BY DEF AbsNames, Bound

LEMMA NewKey ==
  ASSUME AdmissionTypeOK, NEW k \in RequestKeys, NEW i \in Inputs, NEW j \in Jobs, Binds(k, i, j)
  PROVE  AbsNames[k] = NoInput /\ AbsNames' = [AbsNames EXCEPT ![k] = j]
  <1>1. \A l \in RequestKeys :
          request'[l] = IF l = k THEN [request_hash |-> i, job |-> j] ELSE request[l]
    BY DEF AdmissionTypeOK, Binds
  <1>2. AbsNames[k] = NoInput
    BY DEF Binds, AbsNames
  <1>3. request'[k] # Unbound /\ request'[k].job = j
    BY <1>1, RowAssumption DEF RowAssumption, Unbound
  <1>4. AbsNames' = [l \in RequestKeys |-> IF request'[l] # Unbound THEN request'[l].job
                                                                   ELSE NoInput]
    BY DEF AbsNames, Bound, Unbound
  <1>5. AbsNames = [l \in RequestKeys |-> IF request[l] # Unbound THEN request[l].job
                                                                 ELSE NoInput]
    BY DEF AbsNames, Bound
  <1> QED
    BY <1>1, <1>2, <1>3, <1>4, <1>5

-----------------------------------------------------------------------------
(* Each kind of step is one of the contract.                               *)

LEMMA InsertAdmits ==
  ASSUME TypeOK, OneActiveJobPerInput, NEW k \in RequestKeys, NEW i \in Inputs, NEW j \in Jobs,
         Inserts(j, i), Binds(k, i, j), WaitingRowsEmpty, PublishedExactlyOnce
  PROVE  Contract!Admit(k, i, j)
  <1>0. row \in [Jobs -> Rows] /\ AdmissionTypeOK
    BY DEF TypeOK, RowTypeOK
  <1> DEFINE q == QueuedRow(i)
  <1>1. q.status = "QUEUED" /\ q.input = i /\ q.result_run = NoResult
    BY DEF QueuedRow, AbsentRow
  <1>2. row[j].status = "ABSENT" /\ row[j].result_run = NoResult
    BY DEF Inserts, PublishedExactlyOnce, Terminal
  <1>3. row' = [row EXCEPT ![j] = q]
    BY DEF Inserts
  <1> HIDE DEF q
  <1>4. /\ AbsState' = [AbsState EXCEPT ![j] = "QUEUED"]
        /\ AbsInput' = [AbsInput EXCEPT ![j] = i]
        /\ AbsPublished' = AbsPublished
    <2>1. /\ AbsState' = [AbsState EXCEPT ![j] = q.status]
          /\ AbsInput' = [AbsInput EXCEPT ![j] = q.input]
          /\ q.result_run = row[j].result_run => AbsPublished' = AbsPublished
      BY <1>0, <1>3, ChangedRow
    <2> QED
      BY <1>1, <1>2, <2>1
  <1>5. AbsNames[k] = NoInput /\ AbsNames' = [AbsNames EXCEPT ![k] = j]
    BY <1>0, NewKey
  <1>6. ASSUME NEW o \in Jobs, row[o].status \in Active PROVE row[o].input # i
    <2>1. row[o].active_key = row[o].input
      BY <1>6 DEF OneActiveJobPerInput
    <2> QED
      BY <2>1 DEF Inserts, Holder
  <1>7. \A o \in Jobs : AbsState[o] \in Contract!Open => AbsInput[o] # i
    BY <1>6 DEF AbsState, AbsInput, Contract!Open, Active, Claimed, Waiting
  <1>8. AbsState[j] = "ABSENT"
    BY <1>2 DEF AbsState
  <1> QED
    BY <1>4, <1>5, <1>7, <1>8
    DEF Contract!Admit, AbsState, AbsInput, AbsNames, AbsPublished

LEMMA AliasShares ==
  ASSUME TypeOK, NEW k \in RequestKeys, NEW i \in Inputs, NEW j \in Jobs,
         Binds(k, i, j), row' = row, Exists(j)
  PROVE  Contract!Share(k, j)
  <1>1. AbsNames[k] = NoInput /\ AbsNames' = [AbsNames EXCEPT ![k] = j]
    BY NewKey DEF TypeOK
  <1>2. AbsState' = AbsState /\ AbsInput' = AbsInput /\ AbsPublished' = AbsPublished
    BY SameRows
  <1>3. AbsState[j] # "ABSENT"
    BY DEF Exists, AbsState
  <1> QED
    BY <1>1, <1>2, <1>3 DEF Contract!Share, AbsState, AbsInput, AbsNames, AbsPublished

\* A row changes its status and nothing else that a client sees.
LEMMA StatusMoves ==
  ASSUME TypeOK, request' = request, NEW j \in Jobs, NEW q, row' = [row EXCEPT ![j] = q],
         q.input = row[j].input, q.result_run = row[j].result_run
  PROVE  /\ AbsState[j] = row[j].status
         /\ AbsState' = [AbsState EXCEPT ![j] = q.status]
         /\ UNCHANGED <<AbsInput, AbsNames, AbsPublished>>
  <1>1. /\ AbsState' = [AbsState EXCEPT ![j] = q.status]
        /\ AbsInput' = AbsInput /\ AbsPublished' = AbsPublished
    BY ChangedRow DEF TypeOK, RowTypeOK
  <1>2. AbsNames' = AbsNames
    BY SameKeys
  <1> QED
    BY <1>1, <1>2 DEF AbsState

Invisible == UNCHANGED <<AbsState, AbsInput, AbsNames, AbsPublished>>

LEMMA ClaimStarts ==
  ASSUME TypeOK, request' = request, NEW j \in Jobs, NEW t \in Nat, Claims(j, t)
  PROVE  Contract!Start(j)
  <1> DEFINE q == ClaimedRow(row[j], t)
  <1>1. row[j] \in Rows
    BY DEF TypeOK, RowTypeOK
  <1>2. q.status = "RUNNING" /\ q.input = row[j].input /\ q.result_run = row[j].result_run
    BY <1>1 DEF ClaimedRow, Rows
  <1>3. row' = [row EXCEPT ![j] = q] /\ row[j].status = "QUEUED"
    BY DEF Claims
  <1> HIDE DEF q
  <1>4. /\ AbsState[j] = "QUEUED"
        /\ AbsState' = [AbsState EXCEPT ![j] = "RUNNING"]
        /\ UNCHANGED <<AbsInput, AbsNames, AbsPublished>>
    <2>1. /\ AbsState[j] = row[j].status
          /\ AbsState' = [AbsState EXCEPT ![j] = q.status]
          /\ UNCHANGED <<AbsInput, AbsNames, AbsPublished>>
      BY <1>2, <1>3, StatusMoves
    <2> QED
      BY <1>2, <1>3, <2>1
  <1> QED
    BY <1>4 DEF Contract!Start, Contract!Move, AbsState, AbsInput, AbsNames, AbsPublished

LEMMA CancelMoves ==
  ASSUME TypeOK, request' = request, NEW j \in Jobs, Cancels(j)
  PROVE  Contract!Withdraw(j) \/ Contract!RequestCancel(j) \/ Invisible
  <1> DEFINE q == CancelledRow(row[j])
  <1>1. row[j] \in Rows /\ row \in [Jobs -> Rows]
    BY DEF TypeOK, RowTypeOK
  <1>2. q.input = row[j].input /\ q.result_run = row[j].result_run
    BY <1>1 DEF CancelledRow, Rows
  <1>3. /\ row[j].status = "QUEUED" => q.status = "CANCELLED"
        /\ row[j].status = "RUNNING" => q.status = "CANCELLING"
        /\ row[j].status \notin {"QUEUED", "RUNNING"} => q.status = row[j].status
    BY <1>1 DEF CancelledRow, Rows
  <1>4. row' = [row EXCEPT ![j] = q]
    BY DEF Cancels
  <1> HIDE DEF q
  <1>5. /\ AbsState[j] = row[j].status
        /\ AbsState' = [AbsState EXCEPT ![j] = q.status]
        /\ UNCHANGED <<AbsInput, AbsNames, AbsPublished>>
    BY <1>2, <1>4, StatusMoves
  <1>6. CASE row[j].status = "QUEUED"
    <2>1. /\ AbsState[j] = "QUEUED"
          /\ AbsState' = [AbsState EXCEPT ![j] = "CANCELLED"]
      BY <1>3, <1>5, <1>6
    <2> QED
      BY <1>5, <2>1
      DEF Contract!Withdraw, Contract!Move, AbsState, AbsInput, AbsNames, AbsPublished
  <1>7. CASE row[j].status = "RUNNING"
    <2>1. /\ AbsState[j] = "RUNNING"
          /\ AbsState' = [AbsState EXCEPT ![j] = "CANCELLING"]
      BY <1>3, <1>5, <1>7
    <2> QED
      BY <1>5, <2>1
      DEF Contract!RequestCancel, Contract!Move, AbsState, AbsInput, AbsNames, AbsPublished
  <1>8. CASE row[j].status \notin {"QUEUED", "RUNNING"}
    BY <1>1, <1>2, <1>3, <1>4, <1>8, ChangedRow, SameKeys DEF Invisible
  <1> QED
    BY <1>6, <1>7, <1>8

LEMMA CheckpointInvisible ==
  ASSUME TypeOK, request' = request, NEW j \in Jobs, NEW c, Checkpoints(j, c)
  PROVE  Invisible
  <1> DEFINE q == CheckpointedRow(row[j], c)
  <1>1. row[j] \in Rows /\ row \in [Jobs -> Rows]
    BY DEF TypeOK, RowTypeOK
  <1>2. /\ q.input = row[j].input /\ q.result_run = row[j].result_run
        /\ q.status = row[j].status
    BY <1>1 DEF CheckpointedRow, Rows
  <1>3. row' = [row EXCEPT ![j] = q]
    BY DEF Checkpoints
  <1> HIDE DEF q
  <1> QED
    BY <1>1, <1>2, <1>3, ChangedRow, SameKeys DEF Invisible

LEMMA FinishCloses ==
  ASSUME TypeOK, PublishedExactlyOnce, OpenRowsUnfinished, request' = request,
         NEW j \in Jobs, NEW v \in Verdicts, v.status \in Terminal, SoundVerdict(v, row[j]),
         Finishes(j, v.status, v.result, v.error),
         NEW to, to = StoredStatus(row[j], v.status),
         NEW result, result = LastResult(row[j], v.result)
  PROVE  /\ to \in Contract!Closed /\ result \in 0 .. Final
         /\ Contract!Close(j, to, result)
  <1> DEFINE q == FinishedRow(row[j], v.status, v.result, v.error)
  <1>1. row[j] \in Rows /\ row \in [Jobs -> Rows] /\ row[j].status \in Claimed
    BY DEF TypeOK, RowTypeOK, Finishes
  <1>2. q.input = row[j].input /\ q.result_run = result /\ q.status = to
    BY <1>1 DEF FinishedRow, Rows
  <1>3. row' = [row EXCEPT ![j] = q]
    BY DEF Finishes
  <1>4. row[j].result_run = 0 /\ row[j].checkpoint # Final
    BY <1>1 DEF PublishedExactlyOnce, OpenRowsUnfinished, Terminal, Claimed, NoResult
  <1>5. to \in Terminal /\ result \in Results
    BY <1>1 DEF StoredStatus, LastResult, Terminal, Verdicts, Rows
  <1>6. (row[j].status = "CANCELLING") <=> (to = "CANCELLED")
    BY <1>1 DEF StoredStatus, SoundVerdict, Terminal, Claimed
  <1>7. to = "SUCCEEDED" => result = Final
    BY ResultFacts DEF StoredStatus, SoundVerdict, LastResult
  <1>8. result = Final => to \in {"SUCCEEDED", "CANCELLED"}
    <2>1. result = Final => v.result = Final
      BY <1>4 DEF LastResult
    <2>2. v.result = Final => v.status = "SUCCEEDED"
      BY ResultFacts DEF SoundVerdict
    <2> QED
      BY <2>1, <2>2 DEF StoredStatus
  <1> HIDE DEF q
  <1>9. /\ AbsState' = [AbsState EXCEPT ![j] = to]
        /\ AbsInput' = AbsInput
        /\ AbsPublished' = [AbsPublished EXCEPT ![j] = result]
        /\ AbsNames' = AbsNames
    <2>1. /\ AbsState' = [AbsState EXCEPT ![j] = q.status]
          /\ q.input = row[j].input => AbsInput' = AbsInput
          /\ AbsPublished' = [AbsPublished EXCEPT ![j] = q.result_run]
      BY <1>1, <1>3, ChangedRow
    <2> QED
      BY <1>2, <2>1, SameKeys
  <1>10. AbsState[j] = row[j].status /\ AbsPublished[j] = 0
    BY <1>4 DEF AbsState, AbsPublished
  <1>11. to \in Contract!Closed
    BY <1>5 DEF Contract!Closed, Terminal
  <1>12. Contract!Close(j, to, result)
    BY <1>1, <1>6, <1>7, <1>8, <1>9, <1>10, <1>11
    DEF Contract!Close, AbsState, AbsInput, AbsNames, AbsPublished, Claimed
  <1>13. result \in 0 .. Final
    BY <1>5 DEF Results
  <1> QED
    BY <1>11, <1>12, <1>13

-----------------------------------------------------------------------------

LEMMA InitRefines == ASSUME Init PROVE Contract!Init
  <1>1. /\ AbsState = [j \in Jobs |-> "ABSENT"]
        /\ AbsInput = [j \in Jobs |-> NoInput]
        /\ AbsPublished = [j \in Jobs |-> 0]
    BY DEF Init, RowInit, AbsentRow, AbsState, AbsInput, AbsPublished, NoResult
  <1>2. AbsNames = [k \in RequestKeys |-> NoInput]
    BY DEF Init, AdmissionInit, AbsNames, Bound
  <1> QED
    BY <1>1, <1>2 DEF Contract!Init, AbsState, AbsInput, AbsNames, AbsPublished

LEMMA StepRefines ==
  ASSUME TypeOK, ControlOK, NamesOK, OneActiveJobPerInput, WaitingRowsEmpty,
         PublishedExactlyOnce, OutcomesOK, [Next]_vars
  PROVE  Contract!Next \/ Invisible
  <1>1. SoundRowStep /\ RequestStep
    BY StepHasKind, KindIsSound, StepIsRequestStep DEF OutcomesOK, NamesOK
  <1>2. ASSUME NEW k \in RequestKeys, NEW i \in Inputs, NEW j \in Jobs,
               Inserts(j, i), Binds(k, i, j)
        PROVE  Contract!Next
    BY <1>2, InsertAdmits DEF Contract!Next
  <1>3. ASSUME NEW k \in RequestKeys, NEW i \in Inputs, NEW j \in Jobs,
               Binds(k, i, j), row' = row, Exists(j)
        PROVE  Contract!Next
    BY <1>3, AliasShares DEF Contract!Next
  <1>4. CASE request' = request
    <2>1. ASSUME NEW j \in Jobs, NEW i \in Inputs, Inserts(j, i) PROVE FALSE
      BY <1>4, <2>1, InsertsAreNamed DEF NamesOK
    <2>2. CASE TablesKept
      BY <1>4, <2>2, SameRows, SameKeys DEF TablesKept, Invisible
    <2>3. ASSUME NEW j \in Jobs, NEW t \in Nat, Claims(j, t) PROVE Contract!Next
      BY <1>4, <2>3, ClaimStarts DEF Contract!Next
    <2>4. ASSUME NEW j \in Jobs, Cancels(j) PROVE Contract!Next \/ Invisible
      BY <1>4, <2>4, CancelMoves DEF Contract!Next
    <2>5. ASSUME NEW j \in Jobs, NEW c \in 1 .. Stages, Checkpoints(j, c) PROVE Invisible
      BY <1>4, <2>5, CheckpointInvisible
    <2>6. ASSUME NEW j \in Jobs, NEW v \in Verdicts, v.status \in Terminal,
                 SoundVerdict(v, row[j]), Finishes(j, v.status, v.result, v.error)
          PROVE  Contract!Next
      <3>1. PICK to, result : /\ to = StoredStatus(row[j], v.status)
                              /\ result = LastResult(row[j], v.result)
        OBVIOUS
      <3>2. /\ to \in Contract!Closed /\ result \in 0 .. Final
            /\ Contract!Close(j, to, result)
        BY <1>4, <2>6, <3>1, FinishCloses DEF OutcomesOK
      <3> QED
        BY <3>2 DEF Contract!Next
    <2> QED
      BY <1>1, <2>1, <2>2, <2>3, <2>4, <2>5, <2>6 DEF SoundRowStep
  <1> QED
    BY <1>1, <1>2, <1>3, <1>4 DEF RequestStep

\* The job tables implement the contract: whatever requests, supervisors,
\* solver processes, crashes and recoveries interleave, a client sees keys
\* named once, jobs that move QUEUED, RUNNING, CANCELLING and to one terminal
\* state, and a result published when the job ends and never again.
THEOREM Refines == Spec => ImplementsContract
  <1> DEFINE Inv == /\ TypeOK /\ ControlOK
                    /\ NamesOK
                    /\ OneActiveJobPerInput
                    /\ WaitingRowsEmpty /\ PublishedExactlyOnce
                    /\ OutcomesOK
  <1>1. Init => Contract!Init
    BY InitRefines
  <1>2. Invisible => UNCHANGED Contract!vars
    BY DEF Invisible, Contract!vars, AbsState, AbsInput, AbsNames, AbsPublished
  <1>3. Inv /\ [Next]_vars => [Contract!Next]_(Contract!vars)
    BY <1>2, StepRefines
  <1>4. Spec => []Inv
    BY TypeControl, NamesInvariant, OneActive, PublishedInvariant, OutcomesInvariant, PTL
  <1> QED
    BY <1>1, <1>3, <1>4, PTL DEF Spec, ImplementsContract, Contract!Spec

=============================================================================
