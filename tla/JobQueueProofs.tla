--------------------------- MODULE JobQueueProofs ---------------------------
(***************************************************************************)
(* Theorems about JobQueue, for all values of its constants.               *)
(***************************************************************************)
EXTENDS JobQueue, TLAPS

\* What the program counters say about the variables they guard: a POST in
\* progress has its inputs, a supervisor at work has a job, a finish in
\* preparation has a terminal status.
PostControlOK ==
  \A p \in Posts :
    InProgress(p) => post[p].input \in Inputs /\ post[p].key \in RequestKeys

WorkerControlOK ==
  \A w \in Workers :
    /\ worker[w].pc \in Supervision \cup {"claim"} => worker[w].job \in Jobs
    /\ worker[w].pc = "finish" => worker[w].verdict.status \in Terminal

ControlOK == PostControlOK /\ WorkerControlOK

-----------------------------------------------------------------------------
(* Row updates stay in the type of rows.                                   *)

LEMMA AbsentRowType == AbsentRow \in Rows
  BY RowAssumption DEF RowAssumption, AbsentRow, Rows, NoToken, NoResult, NoError,
     Results, Final, ErrorCodes

LEMMA QueuedRowType == ASSUME NEW i \in Inputs PROVE QueuedRow(i) \in Rows
  BY AbsentRowType DEF QueuedRow, Rows, Statuses, Active, Waiting

LEMMA ClaimedRowType ==
  ASSUME NEW r \in Rows, NEW t \in Nat PROVE ClaimedRow(r, t) \in Rows
  BY DEF ClaimedRow, Rows, Statuses, Active, Waiting, Claimed

LEMMA CancelledRowType == ASSUME NEW r \in Rows PROVE CancelledRow(r) \in Rows
  BY DEF CancelledRow, Rows, Statuses, Active, Waiting, Claimed, Terminal

LEMMA CheckpointedRowType ==
  ASSUME NEW r \in Rows, NEW c \in Results PROVE CheckpointedRow(r, c) \in Rows
  BY DEF CheckpointedRow, Rows

LEMMA FinishedRowType ==
  ASSUME NEW r \in Rows, NEW s \in Terminal, NEW c \in Results, NEW e \in ErrorCodes
  PROVE  FinishedRow(r, s, c, e) \in Rows
  BY DEF FinishedRow, Rows, StoredStatus, LastResult, Statuses, Terminal

LEMMA HeadTailType ==
  ASSUME NEW S, NEW s \in Seq(S), s # <<>>
  PROVE  Head(s) \in S /\ Tail(s) \in Seq(S)
  OBVIOUS

LEMMA ResultFacts == NoResult \in Results /\ Final \in Results /\ NoResult # Final
  BY RowAssumption DEF RowAssumption, NoResult, Results, Final

-----------------------------------------------------------------------------
(* Everything a step can do to the tables.                                 *)

Inserts(j, i) ==
  /\ row[j].status = "ABSENT"
  /\ Holder(i) = {}
  /\ row' = [row EXCEPT ![j] = QueuedRow(i)]
  /\ runs' = runs

Claims(j, t) ==
  /\ row[j].status = "QUEUED"
  /\ row' = [row EXCEPT ![j] = ClaimedRow(@, t)]
  /\ runs' = runs

Cancels(j) ==
  /\ row[j].status # "ABSENT"
  /\ row' = [row EXCEPT ![j] = CancelledRow(@)]
  /\ runs' = runs

Checkpoints(j, c) ==
  /\ row[j].status \in Claimed
  /\ row' = [row EXCEPT ![j] = CheckpointedRow(@, c)]
  /\ runs' = runs

Finishes(j, s, c, e) ==
  /\ row[j].status \in Claimed
  /\ row' = [row EXCEPT ![j] = FinishedRow(@, s, c, e)]
  /\ runs' = [runs EXCEPT ![j] = IF LastResult(row[j], c) # NoResult THEN @ + 1 ELSE @]

\* What supervisors and cancelling clients do: no row appears.
ServiceStep ==
  \/ row' = row /\ runs' = runs
  \/ \E j \in Jobs, t \in Nat : Claims(j, t)
  \/ \E j \in Jobs : Cancels(j)
  \/ \E j \in Jobs, c \in Results : Checkpoints(j, c)
  \/ \E j \in Jobs, s \in Terminal, c \in Results, e \in ErrorCodes : Finishes(j, s, c, e)

RowStep ==
  \/ row' = row /\ runs' = runs
  \/ \E j \in Jobs, i \in Inputs : Inserts(j, i)
  \/ \E j \in Jobs, t \in Nat : Claims(j, t)
  \/ \E j \in Jobs : Cancels(j)
  \/ \E j \in Jobs, c \in Results : Checkpoints(j, c)
  \/ \E j \in Jobs, s \in Terminal, c \in Results, e \in ErrorCodes : Finishes(j, s, c, e)

LEMMA StoreFinishServiceStep ==
  ASSUME NEW j \in Jobs, NEW t, NEW s \in Terminal, NEW c \in Results,
         NEW e \in ErrorCodes, StoreFinish(j, t, s, c, e)
  PROVE  ServiceStep
  BY DEF StoreFinish, ServiceStep, Finishes, Owns

LEMMA AdmissionRowStep ==
  ASSUME TypeOK, ControlOK, AdmissionNext PROVE RowStep /\ intact' = intact
  <1>1. CASE \E p \in Posts, k \in Keys \cup {NoKey}, i \in Inputs : Send(p, k, i)
    BY <1>1 DEF Send, rowVars, RowStep
  <1>2. CASE \E p \in Posts, j \in Jobs : InsertJob(p, j)
    <2>1. PICK p \in Posts, j \in Jobs : InsertJob(p, j)
      BY <1>2
    <2>2. post[p].input \in Inputs
      BY <2>1 DEF InsertJob, Inserting, ControlOK, PostControlOK, InProgress
    <2>3. Inserts(j, post[p].input)
      BY <2>1 DEF InsertJob, Inserting, Inserts, NextRow, Exists, Clashes
    <2> QED
      BY <2>1, <2>2, <2>3 DEF RowStep, InsertJob
  <1>3. CASE \E p \in Posts : \/ RefuseInput(p) \/ LookUpKey(p) \/ LookUpActive(p)
                              \/ CountPending(p) \/ InsertAlias(p) \/ LoseRace(p)
                              \/ FailPost(p)
    BY <1>3 DEF RefuseInput, LookUpKey, LookUpActive, CountPending, InsertAlias,
       LoseRace, FailPost, rowVars, RowStep
  <1> QED
    BY <1>1, <1>2, <1>3 DEF AdmissionNext, PostStep

LEMMA WorkerServiceStep ==
  ASSUME TypeOK, ControlOK, WorkerNext PROVE ServiceStep
  <1>1. ASSUME NEW w \in Workers, NEW r \in worker[w].rows,
               ExpireRow(w, r[1], r[2]) \/ ExpireRaises(w, r[1], r[2])
        PROVE  ServiceStep
    <2>1. r[1] \in Jobs
      BY <1>1 DEF TypeOK, WorkerTypeOK, WorkerStates
    <2>2. CASE StoreFinish(r[1], r[2], "FAILED", NoResult, "WORKER_LOST")
      BY <2>1, <2>2, StoreFinishServiceStep, ResultFacts DEF Terminal, ErrorCodes, FailureCodes
    <2>3. CASE UNCHANGED rowVars
      BY <2>3 DEF ServiceStep, rowVars
    <2> QED
      BY <1>1, <2>2, <2>3 DEF ExpireRow, ExpireRaises
  <1>2. ASSUME NEW w \in Workers, ClaimJob(w) PROVE ServiceStep
    <2>1. worker[w].job \in Jobs /\ minted + 1 \in Nat
      BY <1>2 DEF ClaimJob, ControlOK, WorkerControlOK, TypeOK, WorkerTypeOK
    <2> QED
      BY <1>2, <2>1 DEF ClaimJob, Claimable, Waiting, ServiceStep, Claims
  <1>3. ASSUME NEW w \in Workers, StartChild(w) PROVE ServiceStep
    <2>1. worker[w].job \in Jobs
      BY <1>3 DEF StartChild, ControlOK, WorkerControlOK, Supervision
    <2>2. CASE StoreFinish(worker[w].job, worker[w].token, "FAILED", NoResult,
                           "INPUT_INTEGRITY_FAILED")
      BY <2>1, <2>2, StoreFinishServiceStep, ResultFacts DEF Terminal, ErrorCodes, FailureCodes
    <2>3. CASE UNCHANGED rowVars
      BY <2>3 DEF ServiceStep, rowVars
    <2> QED
      BY <1>3, <2>2, <2>3 DEF StartChild
  <1>4. ASSUME NEW w \in Workers, Receive(w) PROVE ServiceStep
    <2>1. worker[w].job \in Jobs
      BY <1>4 DEF Receive, ControlOK, WorkerControlOK, Supervision
    <2>2. Head(child[worker[w].job].pipe).result \in Results
      <3>1. child[worker[w].job].pipe \in Seq(Messages)
        BY <2>1 DEF TypeOK, WorkerTypeOK, ChildStates
      <3>2. Head(child[worker[w].job].pipe) \in Messages
        BY <1>4, <3>1, HeadTailType DEF Receive
      <3> QED
        BY <3>2 DEF Messages
    <2>3. CASE StoreCheckpoint(worker[w].job, worker[w].token,
                               Head(child[worker[w].job].pipe).result)
      BY <2>1, <2>2, <2>3 DEF StoreCheckpoint, Owns, ServiceStep, Checkpoints
    <2>4. CASE UNCHANGED rowVars
      BY <2>4 DEF ServiceStep, rowVars
    <2> QED
      BY <1>4, <2>3, <2>4 DEF Receive
  <1>5. ASSUME NEW w \in Workers, FinishJob(w) PROVE ServiceStep
    <2>1. /\ worker[w].job \in Jobs
          /\ worker[w].verdict.status \in Terminal
      BY <1>5 DEF FinishJob, ControlOK, WorkerControlOK, Supervision
    <2>2. /\ worker[w].verdict.result \in Results
          /\ worker[w].verdict.error \in ErrorCodes
      BY DEF TypeOK, WorkerTypeOK, WorkerStates, Verdicts
    <2>3. CASE UNCHANGED rowVars
      BY <2>3 DEF ServiceStep, rowVars
    <2> QED
      BY <1>5, <2>1, <2>2, <2>3, StoreFinishServiceStep DEF FinishJob
  <1>6. ASSUME NEW w \in Workers, HandleInterrupt(w) PROVE ServiceStep
    <2>1. worker[w].job \in Jobs
      BY <1>6 DEF HandleInterrupt, ControlOK, WorkerControlOK, Supervision
    <2>2. CASE StoreFinish(worker[w].job, worker[w].token, "FAILED", NoResult,
                           "WORKER_INTERRUPTED")
      BY <2>1, <2>2, StoreFinishServiceStep, ResultFacts DEF Terminal, ErrorCodes, FailureCodes
    <2>3. CASE UNCHANGED rowVars
      BY <2>3 DEF ServiceStep, rowVars
    <2> QED
      BY <1>6, <2>2, <2>3 DEF HandleInterrupt
  <1>7. ASSUME NEW w \in Workers,
               \/ ReadClaimed(w) \/ SelectJob(w) \/ CheckStop(w) \/ PollNothing(w)
               \/ PollEof(w) \/ CheckAlive(w) \/ CleanUp(w) \/ Crash(w)
               \/ Interrupt(w) \/ Restart(w)
        PROVE  ServiceStep
    BY <1>7 DEF ReadClaimed, SelectJob, CheckStop, PollNothing, PollEof, CheckAlive,
       CleanUp, Crash, Interrupt, Restart, rowVars, ServiceStep
  <1>8. ASSUME NEW j \in Jobs,
               \/ ChildStep(j) \/ DeadlinePasses(j) \/ BecomeOverdue(j)
               \/ DamageSnapshot(j)
        PROVE  ServiceStep
    BY <1>8 DEF ChildStep, ChildCheckpoint, ChildReturn, ChildExit, ChildWatchdog,
       ChildCrash, DeadlinePasses, BecomeOverdue, DamageSnapshot, rowVars, ServiceStep
  <1> QED
    BY <1>1, <1>2, <1>3, <1>4, <1>5, <1>6, <1>7, <1>8 DEF WorkerNext, WorkerStep

LEMMA CancelServiceStep ==
  ASSUME NEW j \in Jobs, CancelJob(j) PROVE ServiceStep
  BY DEF CancelJob, Exists, ServiceStep, Cancels

LEMMA StepIsRowStep ==
  ASSUME TypeOK, ControlOK, [Next]_vars PROVE RowStep
  <1>1. ServiceStep => RowStep
    BY DEF ServiceStep, RowStep
  <1>2. CASE UNCHANGED vars
    BY <1>2 DEF vars, rowVars, RowStep
  <1> QED
    BY <1>1, <1>2, AdmissionRowStep, WorkerServiceStep, CancelServiceStep DEF Next

\* Row steps keep rows and run counts in their types.
LEMMA RowStepType ==
  ASSUME row \in [Jobs -> Rows], runs \in [Jobs -> Nat], RowStep
  PROVE  row' \in [Jobs -> Rows] /\ runs' \in [Jobs -> Nat]
  <1>1. CASE row' = row /\ runs' = runs
    BY <1>1
  <1>2. ASSUME NEW j \in Jobs, NEW i \in Inputs, Inserts(j, i)
        PROVE  row' \in [Jobs -> Rows] /\ runs' \in [Jobs -> Nat]
    BY <1>2, QueuedRowType DEF Inserts
  <1>3. ASSUME NEW j \in Jobs, NEW t \in Nat, Claims(j, t)
        PROVE  row' \in [Jobs -> Rows] /\ runs' \in [Jobs -> Nat]
    BY <1>3, ClaimedRowType DEF Claims
  <1>4. ASSUME NEW j \in Jobs, Cancels(j)
        PROVE  row' \in [Jobs -> Rows] /\ runs' \in [Jobs -> Nat]
    BY <1>4, CancelledRowType DEF Cancels
  <1>5. ASSUME NEW j \in Jobs, NEW c \in Results, Checkpoints(j, c)
        PROVE  row' \in [Jobs -> Rows] /\ runs' \in [Jobs -> Nat]
    BY <1>5, CheckpointedRowType DEF Checkpoints
  <1>6. ASSUME NEW j \in Jobs, NEW s \in Terminal, NEW c \in Results, NEW e \in ErrorCodes,
               Finishes(j, s, c, e)
        PROVE  row' \in [Jobs -> Rows] /\ runs' \in [Jobs -> Nat]
    BY <1>6, FinishedRowType DEF Finishes
  <1> QED
    BY <1>1, <1>2, <1>3, <1>4, <1>5, <1>6 DEF RowStep

-----------------------------------------------------------------------------
(* Type correctness.                                                       *)

LEMMA InitType == ASSUME Init PROVE TypeOK /\ ControlOK
  <1>1. RowTypeOK
    BY AbsentRowType DEF Init, RowInit, RowTypeOK
  <1>2. AdmissionTypeOK /\ PostControlOK
    BY DEF Init, AdmissionInit, AdmissionTypeOK, PostControlOK, InProgress, UnsentPost,
       Unbound, PostStates, PostStages, NoJob
  <1>3. NoVerdict \in Verdicts
    BY ResultFacts DEF NoVerdict, Verdict, Verdicts, ErrorCodes
  <1>4. IdleWorker \in WorkerStates
    BY <1>3 DEF IdleWorker, WorkerStates, WorkerStages, NoToken
  <1>5. NoChild \in ChildStates
    BY RowAssumption DEF RowAssumption, NoChild, ChildStates
  <1>6. WorkerTypeOK /\ WorkerControlOK
    BY <1>4, <1>5, WorkerAssumption
    DEF WorkerAssumption, Init, WorkerInit, WorkerTypeOK, WorkerControlOK, IdleWorker,
        Supervision
  <1> QED
    BY <1>1, <1>2, <1>6 DEF TypeOK, ControlOK

\* A POST's record may be replaced by any well-typed one that keeps what an
\* unfinished POST needs.
LEMMA PostUpdateType ==
  ASSUME post \in [Posts -> PostStates], PostControlOK,
         NEW p \in Posts, NEW q \in PostStates,
         q.pc \notin {"unsent", "done"} => q.input \in Inputs /\ q.key \in RequestKeys,
         post' = [post EXCEPT ![p] = q]
  PROVE  post' \in [Posts -> PostStates] /\ PostControlOK'
  BY DEF PostControlOK, InProgress

LEMMA RefuseType ==
  ASSUME post \in [Posts -> PostStates], PostControlOK, NEW p \in Posts, Refuse(p)
  PROVE  post' \in [Posts -> PostStates] /\ PostControlOK'
  <1> DEFINE q == [UnsentPost EXCEPT !.pc = "done", !.reply = "REFUSED"]
  <1>1. q \in PostStates /\ q.pc = "done"
    BY DEF UnsentPost, PostStates, PostStages, NoJob
  <1> QED
    BY <1>1, PostUpdateType DEF Refuse

LEMMA AnswerJobType ==
  ASSUME post \in [Posts -> PostStates], PostControlOK, NEW p \in Posts,
         NEW j \in Jobs \cup {NoJob}, AnswerJob(p, j)
  PROVE  post' \in [Posts -> PostStates] /\ PostControlOK'
  <1> DEFINE q == [post[p] EXCEPT !.pc = "done", !.job = j, !.reply = "JOB", !.attempt = 0]
  <1>1. q \in PostStates /\ q.pc = "done"
    BY DEF PostStates, PostStages
  <1> QED
    BY <1>1, PostUpdateType DEF AnswerJob

\* A step that binds a key leaves the request table well-typed.
LEMMA BindType ==
  ASSUME AdmissionTypeOK, NEW k, NEW i \in Inputs, NEW j \in Jobs \cup {NoJob},
         request' = [request EXCEPT ![k] = [request_hash |-> i, job |-> j]]
  PROVE  request' \in [RequestKeys -> [request_hash : Inputs \cup {NoInput},
                                       job : Jobs \cup {NoJob}]]
  BY DEF AdmissionTypeOK

LEMMA AdmissionTypeStep ==
  ASSUME AdmissionTypeOK, PostControlOK, AdmissionNext
  PROVE  AdmissionTypeOK' /\ PostControlOK'
  <1> USE DEF AdmissionTypeOK
  <1> DEFINE Goal == AdmissionTypeOK' /\ PostControlOK'
  <1>1. ASSUME NEW p \in Posts, NEW k \in Keys \cup {NoKey}, NEW i \in Inputs, Send(p, k, i)
        PROVE  Goal
    <2> DEFINE q == [post[p] EXCEPT !.pc = "lookupKey",
                                    !.key = IF k = NoKey THEN LegacyKey(i) ELSE k,
                                    !.input = i]
    <2>1. q \in PostStates /\ q.input \in Inputs /\ q.key \in RequestKeys
      BY DEF PostStates, PostStages, RequestKeys
    <2> QED
      BY <1>1, <2>1, PostUpdateType DEF Send
  <1>2. ASSUME NEW p \in Posts, RefuseInput(p) \/ FailPost(p) PROVE Goal
    BY <1>2, RefuseType DEF RefuseInput, FailPost
  <1>3. ASSUME NEW p \in Posts, LookUpKey(p) PROVE Goal
    <2>1. post[p].key \in RequestKeys /\ post[p].input \in Inputs
      BY <1>3 DEF LookUpKey, PostControlOK, InProgress
    <2>2. request[post[p].key].job \in Jobs \cup {NoJob}
      BY <2>1
    <2> DEFINE q == [post[p] EXCEPT !.pc = "lookupActive"]
    <2>3. q \in PostStates /\ q.input \in Inputs /\ q.key \in RequestKeys
      BY <2>1 DEF PostStates, PostStages
    <2>4. CASE post' = [post EXCEPT ![p].pc = "lookupActive"]
      <3>1. post' = [post EXCEPT ![p] = q]
        BY <2>4
      <3> QED
        BY <1>3, <2>3, <3>1, PostUpdateType DEF LookUpKey
    <2> QED
      BY <1>3, <2>2, <2>4, RefuseType, AnswerJobType DEF LookUpKey
  <1>4. ASSUME NEW p \in Posts, LookUpActive(p) PROVE Goal
    <2>1. post[p].key \in RequestKeys /\ post[p].input \in Inputs
      BY <1>4 DEF LookUpActive, PostControlOK, InProgress
    <2>2. ASSUME NEW j \in Jobs \cup {NoJob}, NEW pc \in {"write", "count"},
                 post' = [post EXCEPT ![p] = [@ EXCEPT !.pc = pc, !.job = j]]
          PROVE  Goal
      <3> DEFINE q == [post[p] EXCEPT !.pc = pc, !.job = j]
      <3>1. q \in PostStates /\ q.input \in Inputs /\ q.key \in RequestKeys
        BY <2>1 DEF PostStates, PostStages
      <3> QED
        BY <1>4, <2>2, <3>1, PostUpdateType DEF LookUpActive
    <2> QED
      BY <1>4, <2>2 DEF LookUpActive, Holder
  <1>5. ASSUME NEW p \in Posts, CountPending(p) PROVE Goal
    <2> DEFINE q == [post[p] EXCEPT !.pc = "write"]
    <2>1. q \in PostStates /\ q.input \in Inputs /\ q.key \in RequestKeys
      BY <1>5 DEF CountPending, PostControlOK, InProgress, PostStates, PostStages
    <2>2. CASE post' = [post EXCEPT ![p].pc = "write"]
      <3>1. post' = [post EXCEPT ![p] = q]
        BY <2>2
      <3> QED
        BY <1>5, <2>1, <3>1, PostUpdateType DEF CountPending
    <2> QED
      BY <1>5, <2>2, RefuseType DEF CountPending
  <1>6. ASSUME NEW p \in Posts, NEW j \in Jobs, InsertJob(p, j) PROVE Goal
    <2>1. post[p].input \in Inputs
      BY <1>6 DEF InsertJob, Inserting, PostControlOK, InProgress
    <2> QED
      BY <1>6, <2>1, AnswerJobType, BindType DEF InsertJob
  <1>7. ASSUME NEW p \in Posts, InsertAlias(p) PROVE Goal
    <2>1. post[p].input \in Inputs /\ post[p].job \in Jobs \cup {NoJob}
      BY <1>7 DEF InsertAlias, PostControlOK, InProgress, PostStates
    <2> QED
      BY <1>7, <2>1, AnswerJobType, BindType DEF InsertAlias
  <1>8. ASSUME NEW p \in Posts, LoseRace(p) PROVE Goal
    <2> DEFINE q == [post[p] EXCEPT !.pc = "lookupKey", !.attempt = 1, !.job = NoJob]
    <2>1. q \in PostStates /\ q.input \in Inputs /\ q.key \in RequestKeys
      BY <1>8 DEF LoseRace, PostControlOK, InProgress, PostStates, PostStages, NoJob
    <2> QED
      BY <1>8, <2>1, PostUpdateType, RefuseType DEF LoseRace
  <1> QED
    BY <1>1, <1>2, <1>3, <1>4, <1>5, <1>6, <1>7, <1>8 DEF AdmissionNext, PostStep

-----------------------------------------------------------------------------

LEMMA VerdictTypes ==
  /\ NoVerdict \in Verdicts
  /\ TimedOut \in Verdicts /\ TimedOut.status \in Terminal
  /\ \A e \in ErrorCodes : Failed(e) \in Verdicts /\ Failed(e).status \in Terminal
  /\ \A s \in Terminal, c \in Results, e \in ErrorCodes :
       Verdict(s, c, e) \in Verdicts /\ Verdict(s, c, e).status \in Terminal
  BY ResultFacts DEF NoVerdict, TimedOut, Failed, Verdict, Verdicts, Terminal, ErrorCodes,
     TimeoutError

LEMMA IdleWorkerType == IdleWorker \in WorkerStates /\ StoppedWorker \in WorkerStates
  BY VerdictTypes DEF IdleWorker, StoppedWorker, WorkerStates, WorkerStages, NoToken

\* A supervisor's record may be replaced by any well-typed one that keeps what
\* a supervisor at work needs.
LEMMA WorkerUpdateType ==
  ASSUME worker \in [Workers -> WorkerStates], WorkerControlOK,
         NEW w \in Workers, NEW q \in WorkerStates,
         q.pc \in Supervision \cup {"claim"} => q.job \in Jobs,
         q.pc = "finish" => q.verdict.status \in Terminal,
         worker' = [worker EXCEPT ![w] = q]
  PROVE  worker' \in [Workers -> WorkerStates] /\ WorkerControlOK'
  BY DEF WorkerControlOK

LEMMA StopType ==
  ASSUME worker \in [Workers -> WorkerStates], WorkerControlOK, NEW w \in Workers,
         \/ worker' = [worker EXCEPT ![w] = IdleWorker]
         \/ worker' = [worker EXCEPT ![w] = StoppedWorker]
  PROVE  worker' \in [Workers -> WorkerStates] /\ WorkerControlOK'
  <1>1. /\ IdleWorker.pc \notin Supervision \cup {"claim"}
        /\ StoppedWorker.pc \notin Supervision \cup {"claim"}
        /\ IdleWorker.pc # "finish" /\ StoppedWorker.pc # "finish"
    BY DEF IdleWorker, StoppedWorker, Supervision
  <1> QED
    BY <1>1, IdleWorkerType, WorkerUpdateType

LEMMA GotoType ==
  ASSUME worker \in [Workers -> WorkerStates], WorkerControlOK, NEW w \in Workers,
         worker[w].job \in Jobs, NEW pc \in Supervision \ {"finish"}, Goto(w, pc)
  PROVE  worker' \in [Workers -> WorkerStates] /\ WorkerControlOK'
  <1> DEFINE q == [worker[w] EXCEPT !.pc = pc]
  <1>1. q \in WorkerStates /\ q.job \in Jobs /\ q.pc # "finish"
    BY DEF WorkerStates, WorkerStages
  <1>2. worker' = [worker EXCEPT ![w] = q]
    BY DEF Goto
  <1> QED
    BY <1>1, <1>2, WorkerUpdateType

LEMMA ConcludeType ==
  ASSUME worker \in [Workers -> WorkerStates], WorkerControlOK, NEW w \in Workers,
         worker[w].job \in Jobs, NEW v \in Verdicts, v.status \in Terminal,
         Conclude(w, v)
  PROVE  worker' \in [Workers -> WorkerStates] /\ WorkerControlOK'
  <1> DEFINE q == [worker[w] EXCEPT !.pc = "finish", !.verdict = v]
  <1>1. q \in WorkerStates /\ q.job \in Jobs /\ q.verdict.status \in Terminal
    BY DEF WorkerStates, WorkerStages, Supervision
  <1>2. worker' = [worker EXCEPT ![w] = q]
    BY DEF Conclude
  <1> QED
    BY <1>1, <1>2, WorkerUpdateType

LEMMA InterruptedType ==
  ASSUME worker \in [Workers -> WorkerStates], WorkerControlOK, NEW w \in Workers,
         worker[w].job \in Jobs, Interrupted(w)
  PROVE  worker' \in [Workers -> WorkerStates] /\ WorkerControlOK'
  <1> DEFINE q == [worker[w] EXCEPT !.pc = "interrupted", !.verdict = NoVerdict]
  <1>1. q \in WorkerStates /\ q.job \in Jobs /\ q.pc # "finish"
    BY VerdictTypes DEF WorkerStates, WorkerStages, Supervision
  <1>2. worker' = [worker EXCEPT ![w] = q]
    BY DEF Interrupted
  <1> QED
    BY <1>1, <1>2, WorkerUpdateType

\* The exit code of a child that ended always names a terminal verdict.
LEMMA ExitVerdictType ==
  ASSUME NEW c PROVE ExitVerdict(c) \in Verdicts /\ ExitVerdict(c).status \in Terminal
  BY VerdictTypes DEF ExitVerdict, ErrorCodes, FailureCodes

LEMMA WorkerVariableType ==
  ASSUME TypeOK, WorkerControlOK, WorkerNext
  PROVE  worker' \in [Workers -> WorkerStates] /\ WorkerControlOK'
  <1> DEFINE Goal == worker' \in [Workers -> WorkerStates] /\ WorkerControlOK'
  <1>0. worker \in [Workers -> WorkerStates]
    BY DEF TypeOK, WorkerTypeOK
  <1>1. ASSUME NEW w \in Workers, ReadClaimed(w) PROVE Goal
    <2> DEFINE q == [worker[w] EXCEPT !.pc = "expire", !.rows = ClaimedRows]
    <2>1. ClaimedRows \in SUBSET (Jobs \X Nat)
      BY DEF ClaimedRows, TypeOK, RowTypeOK, Rows
    <2>2. q \in WorkerStates
      BY <1>0, <2>1 DEF WorkerStates, WorkerStages
    <2>3. q.pc \notin Supervision \cup {"claim"} /\ q.pc # "finish"
      BY <1>0 DEF Supervision, WorkerStates
    <2> QED
      BY <1>0, <1>1, <2>2, <2>3, WorkerUpdateType DEF ReadClaimed
  <1>2. ASSUME NEW w \in Workers, NEW r \in worker[w].rows, ExpireRow(w, r[1], r[2])
        PROVE  Goal
    <2> DEFINE q == [worker[w] EXCEPT !.rows = @ \ {<<r[1], r[2]>>}]
    <2>1. q \in WorkerStates /\ q.pc = "expire"
      BY <1>0, <1>2 DEF ExpireRow, WorkerStates
    <2>2. worker' = [worker EXCEPT ![w] = q]
      BY <1>2 DEF ExpireRow
    <2> QED
      BY <1>0, <2>1, <2>2, WorkerUpdateType DEF Supervision
  <1>3. ASSUME NEW w \in Workers, NEW r \in worker[w].rows, ExpireRaises(w, r[1], r[2])
        PROVE  Goal
    BY <1>0, <1>3, StopType DEF ExpireRaises
  <1>4. ASSUME NEW w \in Workers, SelectJob(w) PROVE Goal
    <2>1. ASSUME NEW j \in Jobs,
                 worker' = [worker EXCEPT ![w] = [@ EXCEPT !.pc = "claim", !.job = j]]
          PROVE  Goal
      <3> DEFINE q == [worker[w] EXCEPT !.pc = "claim", !.job = j]
      <3>1. q \in WorkerStates /\ q.job \in Jobs /\ q.pc # "finish"
        BY <1>0 DEF WorkerStates, WorkerStages
      <3> QED
        BY <1>0, <2>1, <3>1, WorkerUpdateType
    <2> QED
      BY <1>0, <1>4, <2>1, StopType DEF SelectJob
  <1>5. ASSUME NEW w \in Workers, ClaimJob(w) PROVE Goal
    <2>1. CASE worker' = [worker EXCEPT ![w] = [@ EXCEPT !.pc = "load", !.token = minted']]
               /\ minted' = minted + 1
      <3> DEFINE q == [worker[w] EXCEPT !.pc = "load", !.token = minted']
      <3>1. worker[w].job \in Jobs /\ minted' \in Nat
        BY <1>5, <2>1 DEF ClaimJob, WorkerControlOK, TypeOK, WorkerTypeOK
      <3>2. q \in WorkerStates /\ q.job \in Jobs /\ q.pc # "finish"
        BY <1>0, <3>1 DEF WorkerStates, WorkerStages, Supervision
      <3> QED
        BY <1>0, <2>1, <3>2, WorkerUpdateType
    <2> QED
      BY <1>0, <1>5, <2>1, StopType DEF ClaimJob
  <1>6. ASSUME NEW w \in Workers, worker[w].pc \in Supervision PROVE worker[w].job \in Jobs
    BY <1>6 DEF WorkerControlOK
  <1>7. ASSUME NEW w \in Workers, StartChild(w) PROVE Goal
    BY <1>0, <1>6, <1>7, GotoType, StopType DEF StartChild, Supervision
  <1>8. ASSUME NEW w \in Workers, CheckStop(w) PROVE Goal
    BY <1>0, <1>6, <1>8, GotoType, ConcludeType, VerdictTypes, ResultFacts
    DEF CheckStop, Supervision, Terminal, ErrorCodes
  <1>9. ASSUME NEW w \in Workers, PollNothing(w) PROVE Goal
    BY <1>0, <1>6, <1>9, GotoType DEF PollNothing, Supervision
  <1>10. ASSUME NEW w \in Workers, PollEof(w) PROVE Goal
    BY <1>0, <1>6, <1>10, ConcludeType, ExitVerdictType DEF PollEof, Supervision
  <1>11. ASSUME NEW w \in Workers, Receive(w) PROVE Goal
    <2> DEFINE message == Head(child[worker[w].job].pipe)
    <2>1. worker[w].job \in Jobs
      BY <1>6, <1>11 DEF Receive, Supervision
    <2>2. child[worker[w].job].pipe \in Seq(Messages)
      BY <2>1 DEF TypeOK, WorkerTypeOK, ChildStates
    <2>3. message \in Messages
      BY <1>11, <2>2, HeadTailType DEF Receive
    <2>4. message.result \in Results
      BY <2>3 DEF Messages
    <2>5. CASE Goto(w, "check")
      BY <1>0, <2>1, <2>5, GotoType DEF Supervision
    <2>6. CASE Conclude(w, Verdict("SUCCEEDED", message.result, NoError))
      BY <1>0, <2>1, <2>4, <2>6, ConcludeType, VerdictTypes DEF Terminal, ErrorCodes
    <2>7. CASE Conclude(w, Failed("SOLVER_EXECUTION_FAILED"))
      BY <1>0, <2>1, <2>7, ConcludeType, VerdictTypes DEF ErrorCodes, FailureCodes
    <2>8. CASE Interrupted(w)
      BY <1>0, <2>1, <2>8, InterruptedType
    <2> QED
      BY <1>11, <2>5, <2>6, <2>7, <2>8 DEF Receive
  <1>12. ASSUME NEW w \in Workers, CheckAlive(w) PROVE Goal
    BY <1>0, <1>6, <1>12, GotoType, ConcludeType, ExitVerdictType DEF CheckAlive, Supervision
  <1>13. ASSUME NEW w \in Workers, FinishJob(w) PROVE Goal
    <2>1. worker[w].job \in Jobs
      BY <1>6, <1>13 DEF FinishJob, Supervision
    <2>2. CASE worker' = [worker EXCEPT ![w] =
                 [@ EXCEPT !.pc = "cleanup", !.verdict = NoVerdict]]
      <3> DEFINE q == [worker[w] EXCEPT !.pc = "cleanup", !.verdict = NoVerdict]
      <3>1. q \in WorkerStates /\ q.job \in Jobs /\ q.pc # "finish"
        BY <1>0, <2>1, VerdictTypes DEF WorkerStates, WorkerStages, Supervision
      <3> QED
        BY <1>0, <2>2, <3>1, WorkerUpdateType
    <2> QED
      BY <1>0, <1>13, <2>1, <2>2, InterruptedType DEF FinishJob
  <1>14. ASSUME NEW w \in Workers, HandleInterrupt(w) \/ CleanUp(w) PROVE Goal
    BY <1>0, <1>14, StopType DEF HandleInterrupt, CleanUp
  <1>15. ASSUME NEW w \in Workers, Crash(w) \/ Restart(w) PROVE Goal
    BY <1>0, <1>15, StopType DEF Crash, Restart
  <1>16. ASSUME NEW w \in Workers, Interrupt(w) PROVE Goal
    BY <1>0, <1>6, <1>16, InterruptedType DEF Interrupt, Supervision
  <1>17. ASSUME NEW j \in Jobs,
                \/ ChildStep(j) \/ DeadlinePasses(j) \/ BecomeOverdue(j)
                \/ DamageSnapshot(j)
         PROVE  Goal
    BY <1>0, <1>17 DEF ChildStep, ChildCheckpoint, ChildReturn, ChildExit, ChildWatchdog,
       ChildCrash, DeadlinePasses, BecomeOverdue, DamageSnapshot, workerVars, WorkerControlOK
  <1> QED
    BY <1>1, <1>2, <1>3, <1>4, <1>5, <1>7, <1>8, <1>9, <1>10, <1>11, <1>12, <1>13, <1>14,
       <1>15, <1>16, <1>17 DEF WorkerNext, WorkerStep

LEMMA NoChildType == NoChild \in ChildStates /\ ReapedChild \in ChildStates
  <1>1. NoChild \in ChildStates
    BY RowAssumption DEF RowAssumption, NoChild, ChildStates
  <1>2. ReapedChild \in ChildStates
    BY <1>1 DEF ReapedChild, ChildStates
  <1> QED
    BY <1>1, <1>2

LEMMA ChildUpdateType ==
  ASSUME child \in [Jobs -> ChildStates], NEW j, NEW c \in ChildStates,
         child' = [child EXCEPT ![j] = c]
  PROVE  child' \in [Jobs -> ChildStates]
  OBVIOUS

LEMMA DiesType ==
  ASSUME child \in [Jobs -> ChildStates], NEW j \in Jobs, NEW code \in {"124", "other"},
         Dies(j, code)
  PROVE  child' \in [Jobs -> ChildStates]
  <1>1. PICK rest \in {<<>>, <<Message("truncated", NoResult)>>} :
          child' = [child EXCEPT ![j] =
            [child[j] EXCEPT !.state = "gone", !.exit = code, !.pipe = @ \o rest]]
    BY DEF Dies
  <1> DEFINE m == Message("truncated", NoResult)
  <1>2. m \in Messages
    BY ResultFacts DEF Message, Messages
  <1>3. rest \in Seq(Messages)
    <2>1. <<>> \in Seq(Messages) /\ <<m>> \in Seq(Messages)
      <3> HIDE DEF m
      <3> QED
        BY <1>2
    <2> QED
      BY <2>1
  <1>4. child[j].pipe \o rest \in Seq(Messages)
    BY <1>3 DEF ChildStates
  <1> DEFINE pipe == child[j].pipe \o rest
             c == [child[j] EXCEPT !.state = "gone", !.exit = code, !.pipe = pipe]
  <1>5. c \in ChildStates
    <2>1. child[j] \in ChildStates /\ pipe \in Seq(Messages)
      BY <1>4
    <2> HIDE DEF pipe
    <2> QED
      BY <2>1 DEF ChildStates
  <1>6. child' = [child EXCEPT ![j] = c]
    BY <1>1
  <1> QED
    BY <1>5, <1>6, ChildUpdateType

LEMMA SendType ==
  ASSUME child \in [Jobs -> ChildStates], NEW j \in Jobs, NEW m \in Messages
  PROVE  Append(child[j].pipe, m) \in Seq(Messages)
  BY DEF ChildStates

LEMMA ChildVariableType ==
  ASSUME TypeOK, WorkerControlOK, WorkerNext
  PROVE  child' \in [Jobs -> ChildStates]
  <1> DEFINE Goal == child' \in [Jobs -> ChildStates]
  <1>0. child \in [Jobs -> ChildStates]
    BY DEF TypeOK, WorkerTypeOK
  <1>1. NoChild \in ChildStates /\ ReapedChild \in ChildStates
    BY NoChildType
  <1>2. \A j \in Jobs : Killed(child[j]) \in ChildStates
    BY <1>0 DEF Killed, ChildStates
  <1>3. ASSUME NEW w \in Workers, worker[w].pc \in Supervision PROVE worker[w].job \in Jobs
    BY <1>3 DEF WorkerControlOK
  <1>4. ASSUME NEW w \in Workers, StartChild(w) PROVE Goal
    <2> DEFINE c == [NoChild EXCEPT !.state = "solving"]
    <2>1. c \in ChildStates
      BY <1>1 DEF ChildStates
    <2> QED
      BY <1>0, <1>4, <2>1, ChildUpdateType DEF StartChild
  <1>5. ASSUME NEW w \in Workers, CheckStop(w) PROVE Goal
    <2>1. worker[w].job \in Jobs
      BY <1>3, <1>5 DEF CheckStop, Supervision
    <2>2. CASE child' = child
      BY <1>0, <2>2
    <2>3. CASE child' = [child EXCEPT ![worker[w].job] = Killed(@)]
      BY <1>0, <1>2, <2>1, <2>3
    <2> QED
      BY <1>5, <2>2, <2>3 DEF CheckStop
  <1>6. ASSUME NEW w \in Workers, Receive(w) PROVE Goal
    <2> DEFINE j == worker[w].job
               c == [child[j] EXCEPT !.pipe = Tail(child[j].pipe)]
    <2>1. j \in Jobs
      BY <1>3, <1>6 DEF Receive, Supervision
    <2>2. Tail(child[j].pipe) \in Seq(Messages)
      BY <1>0, <1>6, <2>1, HeadTailType DEF Receive, ChildStates
    <2>3. c \in ChildStates
      BY <1>0, <2>1, <2>2 DEF ChildStates
    <2>4. child' = [child EXCEPT ![j] = c]
      BY <1>6 DEF Receive
    <2> QED
      BY <1>0, <2>3, <2>4, ChildUpdateType
  <1>7. ASSUME NEW w \in Workers, HandleInterrupt(w) \/ CleanUp(w) PROVE Goal
    BY <1>0, <1>1, <1>7, ChildUpdateType DEF HandleInterrupt, CleanUp
  <1>8. ASSUME NEW w \in Workers, Crash(w) PROVE Goal
    <2> DEFINE j == worker[w].job
               alive == Alive(j)
               c == [child[j] EXCEPT !.orphan = alive, !.pipe = <<>>]
    <2>1. CASE worker[w].pc \in Supervision
      <3>1. j \in Jobs /\ alive \in BOOLEAN
        BY <1>3, <2>1 DEF Alive
      <3>2. <<>> \in Seq(Messages)
        OBVIOUS
      <3>3. c \in ChildStates
        <4> HIDE DEF alive
        <4> QED
          BY <1>0, <3>1, <3>2 DEF ChildStates
      <3>4. child' = [child EXCEPT ![j] = c]
        BY <1>8, <2>1 DEF Crash
      <3> QED
        BY <1>0, <3>3, <3>4, ChildUpdateType
    <2>2. CASE worker[w].pc \notin Supervision
      BY <1>0, <1>8, <2>2 DEF Crash
    <2> QED
      BY <2>1, <2>2
  <1>9. ASSUME NEW w \in Workers,
               \/ ReadClaimed(w) \/ SelectJob(w) \/ ClaimJob(w) \/ PollNothing(w)
               \/ PollEof(w) \/ CheckAlive(w) \/ FinishJob(w) \/ Interrupt(w) \/ Restart(w)
               \/ \E r \in worker[w].rows : ExpireRow(w, r[1], r[2]) \/ ExpireRaises(w, r[1], r[2])
        PROVE  Goal
    BY <1>0, <1>9 DEF ReadClaimed, SelectJob, ClaimJob, PollNothing, PollEof, CheckAlive,
       FinishJob, Interrupt, Restart, ExpireRow, ExpireRaises
  <1>10. ASSUME NEW j \in Jobs, ChildCheckpoint(j) PROVE Goal
    <2> DEFINE next == child[j].stage + 1
               pipe == Append(child[j].pipe, Message("checkpoint", next))
               c == [child[j] EXCEPT !.stage = next, !.pipe = pipe]
    <2>1. next \in 0 .. Stages /\ next \in Results
      BY <1>0, <1>10, RowAssumption
      DEF RowAssumption, ChildCheckpoint, ChildStates, Results, Final
    <2>2. Message("checkpoint", next) \in Messages
      BY <2>1 DEF Message, Messages
    <2>3. pipe \in Seq(Messages)
      BY <1>0, <2>2, SendType
    <2>4. c \in ChildStates
      <3> HIDE DEF pipe, next
      <3> QED
        BY <1>0, <2>1, <2>3 DEF ChildStates
    <2>5. child' = [child EXCEPT ![j] = c]
      BY <1>10 DEF ChildCheckpoint
    <2> QED
      BY <1>0, <2>4, <2>5, ChildUpdateType
  <1>11. ASSUME NEW j \in Jobs, ChildReturn(j) PROVE Goal
    <2>1. PICK m \in {Message("result", Final), Message("error", NoResult)} :
            child' = [child EXCEPT ![j] =
              [child[j] EXCEPT !.state = "closing", !.pipe = Append(@, m)]]
      BY <1>11 DEF ChildReturn
    <2> DEFINE pipe == Append(child[j].pipe, m)
               c == [child[j] EXCEPT !.state = "closing", !.pipe = pipe]
    <2>2. m \in Messages
      BY ResultFacts DEF Message, Messages
    <2>3. pipe \in Seq(Messages)
      BY <1>0, <2>2, SendType
    <2>4. c \in ChildStates
      <3> HIDE DEF pipe
      <3> QED
        BY <1>0, <2>3 DEF ChildStates
    <2>5. child' = [child EXCEPT ![j] = c]
      BY <2>1
    <2> QED
      BY <1>0, <2>4, <2>5, ChildUpdateType
  <1>12. ASSUME NEW j \in Jobs, ChildExit(j) PROVE Goal
    <2> DEFINE c == [child[j] EXCEPT !.state = "gone", !.exit = "0"]
    <2>1. c \in ChildStates
      BY <1>0 DEF ChildStates
    <2> QED
      BY <1>0, <1>12, <2>1, ChildUpdateType DEF ChildExit
  <1>13. ASSUME NEW j \in Jobs, ChildWatchdog(j) \/ ChildCrash(j) PROVE Goal
    BY <1>0, <1>13, DiesType DEF ChildWatchdog, ChildCrash
  <1>14. ASSUME NEW j \in Jobs, DeadlinePasses(j) PROVE Goal
    <2> DEFINE c == [child[j] EXCEPT !.late = TRUE]
    <2>1. c \in ChildStates
      BY <1>0 DEF ChildStates
    <2>2. child' = [child EXCEPT ![j] = c]
      BY <1>14 DEF DeadlinePasses
    <2> QED
      BY <1>0, <2>1, <2>2, ChildUpdateType
  <1>15. ASSUME NEW j \in Jobs, BecomeOverdue(j) \/ DamageSnapshot(j) PROVE Goal
    BY <1>0, <1>15 DEF BecomeOverdue, DamageSnapshot, workerVars
  <1> QED
    BY <1>4, <1>5, <1>6, <1>7, <1>8, <1>9, <1>10, <1>11, <1>12, <1>13, <1>14, <1>15
    DEF WorkerNext, WorkerStep, ChildStep

LEMMA OtherVariableType ==
  ASSUME TypeOK, WorkerControlOK, WorkerNext
  PROVE  /\ intact' \in [Jobs -> BOOLEAN]
         /\ overdue' \in [Jobs -> BOOLEAN]
         /\ minted' \in Nat
         /\ crashes' \in 0 .. MaxCrashes
  <1> DEFINE Goal == /\ intact' \in [Jobs -> BOOLEAN]
                     /\ overdue' \in [Jobs -> BOOLEAN]
                     /\ minted' \in Nat
                     /\ crashes' \in 0 .. MaxCrashes
  <1>0. /\ intact \in [Jobs -> BOOLEAN]
        /\ overdue \in [Jobs -> BOOLEAN]
        /\ minted \in Nat
        /\ crashes \in 0 .. MaxCrashes
    BY DEF TypeOK, RowTypeOK, WorkerTypeOK
  <1>1. ASSUME NEW w \in Workers, WorkerStep(w), ~ClaimJob(w) PROVE Goal
    BY <1>0, <1>1
    DEF WorkerStep, ReadClaimed, ExpireRow, ExpireRaises, SelectJob, StartChild, CheckStop,
        PollNothing, PollEof, Receive, CheckAlive, FinishJob, HandleInterrupt, CleanUp,
        StoreFinish, StoreCheckpoint, rowVars
  <1>2. ASSUME NEW w \in Workers, ClaimJob(w) PROVE Goal
    BY <1>0, <1>2 DEF ClaimJob
  <1>3. ASSUME NEW w \in Workers, Crash(w) \/ Interrupt(w) PROVE Goal
    <2>1. crashes + 1 \in 0 .. MaxCrashes
      BY <1>0, <1>3, WorkerAssumption DEF WorkerAssumption, Crash, Interrupt
    <2> QED
      BY <1>0, <1>3, <2>1 DEF Crash, Interrupt, rowVars
  <1>4. ASSUME NEW w \in Workers, Restart(w) PROVE Goal
    BY <1>0, <1>4 DEF Restart, rowVars
  <1>5. ASSUME NEW j \in Jobs, ChildStep(j) \/ DeadlinePasses(j) PROVE Goal
    BY <1>0, <1>5 DEF ChildStep, ChildCheckpoint, ChildReturn, ChildExit, ChildWatchdog,
       ChildCrash, DeadlinePasses, rowVars
  <1>6. ASSUME NEW j \in Jobs, BecomeOverdue(j) \/ DamageSnapshot(j) PROVE Goal
    BY <1>0, <1>6 DEF BecomeOverdue, DamageSnapshot, rowVars, workerVars
  <1> QED
    BY <1>1, <1>2, <1>3, <1>4, <1>5, <1>6 DEF WorkerNext

LEMMA TypeStep ==
  ASSUME TypeOK, ControlOK, [Next]_vars PROVE TypeOK' /\ ControlOK'
  <1>1. row' \in [Jobs -> Rows] /\ runs' \in [Jobs -> Nat]
    BY StepIsRowStep, RowStepType DEF TypeOK, RowTypeOK
  <1>2. CASE UNCHANGED workerVars /\ intact' = intact
    <2>1. WorkerTypeOK' /\ WorkerControlOK'
      BY <1>2 DEF TypeOK, WorkerTypeOK, ControlOK, WorkerControlOK, workerVars
    <2>2. RowTypeOK'
      BY <1>1, <1>2 DEF TypeOK, RowTypeOK
    <2>3. CASE AdmissionNext
      BY <2>1, <2>2, <2>3, AdmissionTypeStep DEF TypeOK, ControlOK
    <2>4. CASE UNCHANGED admissionVars
      BY <2>1, <2>2, <2>4
      DEF TypeOK, ControlOK, AdmissionTypeOK, PostControlOK, InProgress, admissionVars
    <2>5. CASE WorkerNext /\ UNCHANGED admissionVars
      BY <2>4, <2>5
    <2> QED
      BY <2>3, <2>4, <2>5 DEF Next, vars
  <1>3. CASE WorkerNext /\ UNCHANGED admissionVars
    <2>1. AdmissionTypeOK' /\ PostControlOK'
      BY <1>3 DEF TypeOK, ControlOK, AdmissionTypeOK, PostControlOK, InProgress, admissionVars
    <2>2. worker' \in [Workers -> WorkerStates] /\ WorkerControlOK'
      BY <1>3, WorkerVariableType DEF ControlOK
    <2>3. child' \in [Jobs -> ChildStates]
      BY <1>3, ChildVariableType DEF ControlOK
    <2>4. /\ intact' \in [Jobs -> BOOLEAN]
          /\ overdue' \in [Jobs -> BOOLEAN]
          /\ minted' \in Nat
          /\ crashes' \in 0 .. MaxCrashes
      BY <1>3, OtherVariableType DEF ControlOK
    <2> QED
      BY <1>1, <2>1, <2>2, <2>3, <2>4 DEF TypeOK, RowTypeOK, WorkerTypeOK, ControlOK
  <1>4. AdmissionNext => intact' = intact
    BY AdmissionRowStep
  <1> QED
    BY <1>2, <1>3, <1>4 DEF Next, vars, rowVars, CancelJob

\* TypeOK alone is not inductive: what the program counters promise is needed.
LEMMA TypeControl == Spec => [](TypeOK /\ ControlOK)
  <1>1. Init => TypeOK /\ ControlOK
    BY InitType
  <1>2. (TypeOK /\ ControlOK) /\ [Next]_vars => (TypeOK /\ ControlOK)'
    BY TypeStep
  <1> QED
    BY <1>1, <1>2, PTL DEF Spec

\* Every variable of the queue stays in its type, for any number of requests,
\* keys, inputs, supervisors and stages: no reachable row, request, verdict or
\* message has a value the code has no name for.
THEOREM TypeCorrect == Spec => []TypeOK
  BY TypeControl, PTL

-----------------------------------------------------------------------------
(* Consequences of what a step can do to the tables.                       *)

\* A row that has ended is never written again: owned_job fences late writes
\* of supervisors and cancel_job's conditions spare ended rows.
THEOREM EndedRowsStay == Spec => TerminalRowsFrozen
  <1>1. ASSUME TypeOK, ControlOK, [Next]_vars, NEW k \in Jobs, row[k].status \in Terminal
        PROVE  row'[k] = row[k]
    <2>1. RowStep
      BY <1>1, StepIsRowStep
    <2>2. row \in [Jobs -> Rows]
      BY <1>1 DEF TypeOK, RowTypeOK
    <2>3. ASSUME NEW j \in Jobs, NEW i \in Inputs, Inserts(j, i) PROVE row'[k] = row[k]
      BY <1>1, <2>2, <2>3 DEF Inserts, Terminal
    <2>4. ASSUME NEW j \in Jobs, NEW t \in Nat, Claims(j, t) PROVE row'[k] = row[k]
      BY <1>1, <2>2, <2>4 DEF Claims, Terminal
    <2>5. ASSUME NEW j \in Jobs, Cancels(j) PROVE row'[k] = row[k]
      <3>1. CancelledRow(row[k]) = row[k]
        BY <1>1, <2>2 DEF CancelledRow, Terminal, Rows
      <3> QED
        BY <2>2, <2>5, <3>1 DEF Cancels
    <2>6. ASSUME NEW j \in Jobs, NEW c \in Results, Checkpoints(j, c) PROVE row'[k] = row[k]
      BY <1>1, <2>2, <2>6 DEF Checkpoints, Terminal, Claimed
    <2>7. ASSUME NEW j \in Jobs, NEW s \in Terminal, NEW c \in Results, NEW e \in ErrorCodes,
                 Finishes(j, s, c, e)
          PROVE  row'[k] = row[k]
      BY <1>1, <2>2, <2>7 DEF Finishes, Terminal, Claimed
    <2> QED
      BY <2>1, <2>3, <2>4, <2>5, <2>6, <2>7 DEF RowStep
  <1>2. TypeOK /\ ControlOK /\ [Next]_vars
          => [\A j \in Jobs : row[j].status \in Terminal => row'[j] = row[j]]_vars
    BY <1>1
  <1> QED
    BY <1>2, TypeControl, PTL DEF Spec, TerminalRowsFrozen

\* PublishedExactlyOnce is not inductive: a queued job that is cancelled ends
\* without a run, so it must not hold a checkpoint.
WaitingRowsEmpty ==
  \A j \in Jobs : row[j].status \in {"ABSENT", "QUEUED"} => row[j].checkpoint = NoResult

LEMMA PublishedStep ==
  ASSUME row \in [Jobs -> Rows], runs \in [Jobs -> Nat],
         WaitingRowsEmpty, PublishedExactlyOnce, RowStep
  PROVE  (WaitingRowsEmpty /\ PublishedExactlyOnce)'
  <1> DEFINE Good(r, n) ==
               /\ r.status \in {"ABSENT", "QUEUED"} => r.checkpoint = NoResult
               /\ r.result_run = IF r.status \in Terminal THEN r.checkpoint ELSE NoResult
               /\ n = IF r.result_run = NoResult THEN 0 ELSE 1
  <1>0. \A k \in Jobs : Good(row[k], runs[k])
    BY DEF WaitingRowsEmpty, PublishedExactlyOnce
  <1>1. ASSUME NEW j \in Jobs, NEW i \in Inputs, Inserts(j, i), NEW k \in Jobs
        PROVE  Good(row'[k], runs'[k])
    <2>1. Good(QueuedRow(i), runs[j])
      BY <1>0, <1>1 DEF Inserts, QueuedRow, AbsentRow, NoResult, Terminal
    <2> QED
      BY <1>0, <1>1, <2>1 DEF Inserts
  <1>2. ASSUME NEW j \in Jobs, NEW t \in Nat, Claims(j, t), NEW k \in Jobs
        PROVE  Good(row'[k], runs'[k])
    <2>1. Good(ClaimedRow(row[j], t), runs[j])
      BY <1>0, <1>2 DEF Claims, ClaimedRow, Terminal, Rows
    <2> QED
      BY <1>0, <1>2, <2>1 DEF Claims
  <1>3. ASSUME NEW j \in Jobs, Cancels(j), NEW k \in Jobs
        PROVE  Good(row'[k], runs'[k])
    <2>1. Good(CancelledRow(row[j]), runs[j])
      BY <1>0, <1>3 DEF Cancels, CancelledRow, Terminal, Rows
    <2> QED
      BY <1>0, <1>3, <2>1 DEF Cancels
  <1>4. ASSUME NEW j \in Jobs, NEW c \in Results, Checkpoints(j, c), NEW k \in Jobs
        PROVE  Good(row'[k], runs'[k])
    <2>1. Good(CheckpointedRow(row[j], c), runs[j])
      BY <1>0, <1>4 DEF Checkpoints, CheckpointedRow, Terminal, Claimed, Rows
    <2> QED
      BY <1>0, <1>4, <2>1 DEF Checkpoints
  <1>5. ASSUME NEW j \in Jobs, NEW s \in Terminal, NEW c \in Results, NEW e \in ErrorCodes,
               Finishes(j, s, c, e), NEW k \in Jobs
        PROVE  Good(row'[k], runs'[k])
    <2>1. runs[j] = 0
      BY <1>0, <1>5 DEF Finishes, Terminal, Claimed
    <2>2. Good(FinishedRow(row[j], s, c, e), IF LastResult(row[j], c) # NoResult THEN 1 ELSE 0)
      BY <1>5 DEF FinishedRow, StoredStatus, Terminal, Rows
    <2> QED
      BY <1>0, <1>5, <2>1, <2>2 DEF Finishes
  <1>6. \A k \in Jobs : Good(row'[k], runs'[k])
    BY <1>0, <1>1, <1>2, <1>3, <1>4, <1>5 DEF RowStep
  <1> QED
    BY <1>6 DEF WaitingRowsEmpty, PublishedExactlyOnce

LEMMA PublishedInvariant == Spec => [](WaitingRowsEmpty /\ PublishedExactlyOnce)
  <1> DEFINE IInv == WaitingRowsEmpty /\ PublishedExactlyOnce
  <1>1. Init => IInv
    BY DEF Init, RowInit, WaitingRowsEmpty, PublishedExactlyOnce, AbsentRow, Terminal, NoResult
  <1>2. TypeOK /\ ControlOK /\ IInv /\ [Next]_vars => IInv'
    BY StepIsRowStep, PublishedStep DEF TypeOK, RowTypeOK
  <1> QED
    BY <1>1, <1>2, TypeControl, PTL DEF Spec

\* A job's run is inserted by the transaction that ends it, exactly once, with
\* the last stored result, whatever supervisors, recoveries and clients race.
THEOREM PublishedOnce == Spec => []PublishedExactlyOnce
  BY PublishedInvariant, PTL

-----------------------------------------------------------------------------

LEMMA OneActiveStep ==
  ASSUME row \in [Jobs -> Rows], OneActiveJobPerInput, RowStep
  PROVE  OneActiveJobPerInput'
  <1> DEFINE Key(r) == IF r.status \in Active THEN r.input ELSE NoInput
             Keyed(r) == r.active_key = Key(r)
             Goal == OneActiveJobPerInput'
  <1>0. \A k \in Jobs : Keyed(row[k])
    BY DEF OneActiveJobPerInput
  \* A row changes without becoming active again, and keeps its input.
  <1>1. ASSUME NEW j \in Jobs, NEW r \in Rows, row' = [row EXCEPT ![j] = r],
               Keyed(r), r.input = row[j].input,
               r.status \in Active => row[j].status \in Active
        PROVE  Goal
    BY <1>0, <1>1 DEF OneActiveJobPerInput
  <1>2. ASSUME NEW j \in Jobs, NEW i \in Inputs, Inserts(j, i) PROVE Goal
    <2>1. /\ QueuedRow(i).status = "QUEUED"
          /\ QueuedRow(i).input = i
          /\ QueuedRow(i).active_key = i
      BY DEF QueuedRow, AbsentRow
    <2>2. \A k \in Jobs : row[k].status \in Active => row[k].input # i
      BY <1>0, <1>2 DEF Inserts, Holder
    <2>3. /\ row'[j] = QueuedRow(i)
          /\ \A k \in Jobs : k # j => row'[k] = row[k]
      BY <1>2 DEF Inserts
    <2>4. \A k \in Jobs : Keyed(row'[k])
      BY <1>0, <2>1, <2>3 DEF Active, Waiting
    <2>5. ASSUME NEW k \in Jobs, NEW l \in Jobs, row'[k].status \in Active,
                 row'[l].status \in Active, row'[k].input = row'[l].input
          PROVE  k = l
      BY <2>1, <2>2, <2>3, <2>5 DEF OneActiveJobPerInput
    <2> QED
      BY <2>4, <2>5 DEF OneActiveJobPerInput
  <1>3. ASSUME NEW j \in Jobs, NEW t \in Nat, Claims(j, t) PROVE Goal
    <2> DEFINE r == ClaimedRow(row[j], t)
    <2>1. Keyed(r) /\ r.input = row[j].input /\ row[j].status \in Active
      BY <1>0, <1>3 DEF Claims, ClaimedRow, Rows, Active, Waiting, Claimed
    <2>2. r \in Rows
      BY ClaimedRowType
    <2> QED
      BY <1>1, <1>3, <2>1, <2>2 DEF Claims
  <1>4. ASSUME NEW j \in Jobs, Cancels(j) PROVE Goal
    <2> DEFINE r == CancelledRow(row[j])
    <2>1. /\ Keyed(r)
          /\ r.input = row[j].input
          /\ r.status \in Active => row[j].status \in Active
      BY <1>0, <1>4 DEF Cancels, CancelledRow, Rows, Active, Waiting, Claimed
    <2>2. r \in Rows
      BY CancelledRowType
    <2> QED
      BY <1>1, <1>4, <2>1, <2>2 DEF Cancels
  <1>5. ASSUME NEW j \in Jobs, NEW c \in Results, Checkpoints(j, c) PROVE Goal
    <2> DEFINE r == CheckpointedRow(row[j], c)
    <2>1. Keyed(r) /\ r.input = row[j].input /\ r.status = row[j].status
      BY <1>0, <1>5 DEF Checkpoints, CheckpointedRow, Rows
    <2>2. r \in Rows
      BY CheckpointedRowType
    <2> QED
      BY <1>1, <1>5, <2>1, <2>2 DEF Checkpoints
  <1>6. ASSUME NEW j \in Jobs, NEW s \in Terminal, NEW c \in Results, NEW e \in ErrorCodes,
               Finishes(j, s, c, e)
        PROVE  Goal
    <2> DEFINE r == FinishedRow(row[j], s, c, e)
    <2>1. Keyed(r) /\ r.input = row[j].input /\ r.status \notin Active
      BY <1>6 DEF FinishedRow, StoredStatus, Rows, Active, Waiting, Claimed, Terminal
    <2>2. r \in Rows
      BY FinishedRowType
    <2> QED
      BY <1>1, <1>6, <2>1, <2>2 DEF Finishes
  <1>7. CASE row' = row
    BY <1>7 DEF OneActiveJobPerInput
  <1> QED
    BY <1>2, <1>3, <1>4, <1>5, <1>6, <1>7 DEF RowStep

\* One outstanding job per fingerprint, which holds its active key until it
\* ends: the unique constraint, finish and cancel_job together guarantee it for
\* any number of concurrent submissions, supervisors and cancellations.
THEOREM OneActive == Spec => []OneActiveJobPerInput
  <1>1. Init => OneActiveJobPerInput
    BY DEF Init, RowInit, OneActiveJobPerInput, AbsentRow, Active, Waiting, Claimed
  <1>2. TypeOK /\ ControlOK /\ OneActiveJobPerInput /\ [Next]_vars => OneActiveJobPerInput'
    BY StepIsRowStep, OneActiveStep DEF TypeOK, RowTypeOK
  <1> QED
    BY <1>1, <1>2, TypeControl, PTL DEF Spec

-----------------------------------------------------------------------------
(* Supervision.                                                            *)

\* The claim that makes w the supervisor of j.
ClaimWon(w, j) ==
  /\ worker[w].job = j
  /\ row[j].status = "QUEUED"
  /\ row'[j].status = "RUNNING"
  /\ \A v \in Workers : v # w => worker'[v] = worker[v]

\* A job that left the queue never returns to it.
Left(j) == row[j].status \notin {"ABSENT", "QUEUED"}

LEMMA LeftStays ==
  ASSUME row \in [Jobs -> Rows], RowStep, NEW k \in Jobs, Left(k) PROVE Left(k)'
  <1>1. ASSUME NEW j \in Jobs, NEW i \in Inputs, Inserts(j, i) PROVE Left(k)'
    BY <1>1 DEF Inserts, Left
  <1>2. ASSUME NEW j \in Jobs, NEW t \in Nat, Claims(j, t) PROVE Left(k)'
    BY <1>2 DEF Claims, Left
  <1>3. ASSUME NEW j \in Jobs, Cancels(j) PROVE Left(k)'
    BY <1>3 DEF Cancels, CancelledRow, Left, Rows
  <1>4. ASSUME NEW j \in Jobs, NEW c \in Results, Checkpoints(j, c) PROVE Left(k)'
    BY <1>4 DEF Checkpoints, CheckpointedRow, Left, Rows
  <1>5. ASSUME NEW j \in Jobs, NEW s \in Terminal, NEW c \in Results, NEW e \in ErrorCodes,
               Finishes(j, s, c, e)
        PROVE  Left(k)'
    BY <1>5 DEF Finishes, FinishedRow, StoredStatus, Terminal, Left, Rows
  <1> QED
    BY <1>1, <1>2, <1>3, <1>4, <1>5 DEF RowStep, Left

\* Only the winning claim starts supervision; every other step of a supervisor
\* keeps its job or ends its supervision.
LEMMA SupervisionStep ==
  ASSUME TypeOK, ControlOK, [Next]_vars, NEW v \in Workers, NEW j \in Jobs,
         Supervises(v, j)'
  PROVE  Supervises(v, j) \/ ClaimWon(v, j)
  <1> DEFINE Goal == Supervises(v, j) \/ ClaimWon(v, j)
  <1>0. worker \in [Workers -> WorkerStates]
    BY DEF TypeOK, WorkerTypeOK
  <1>1. CASE worker' = worker
    BY <1>1 DEF Supervises
  <1>8. ASSUME NEW w \in Workers, NEW q, q.pc \notin Supervision,
               worker' = [worker EXCEPT ![w] = q]
        PROVE  Goal
    BY <1>0, <1>8 DEF Supervises
  <1>9. IdleWorker.pc \notin Supervision /\ StoppedWorker.pc \notin Supervision
    BY DEF IdleWorker, StoppedWorker, Supervision
  <1>2. ASSUME NEW w \in Workers,
               ReadClaimed(w) \/ SelectJob(w) \/ Crash(w) \/ Restart(w) \/ HandleInterrupt(w)
                 \/ CleanUp(w) \/ \E r \in worker[w].rows : ExpireRaises(w, r[1], r[2])
        PROVE  Goal
    <2>1. CASE ReadClaimed(w)
      <3> DEFINE q == [worker[w] EXCEPT !.pc = "expire", !.rows = ClaimedRows]
      <3>1. q.pc \notin Supervision
        BY <1>0 DEF WorkerStates, Supervision
      <3> QED
        BY <1>8, <2>1, <3>1 DEF ReadClaimed
    <2>2. ASSUME NEW k \in Jobs,
                 worker' = [worker EXCEPT ![w] = [@ EXCEPT !.pc = "claim", !.job = k]]
          PROVE  Goal
      <3> DEFINE q == [worker[w] EXCEPT !.pc = "claim", !.job = k]
      <3>1. q.pc \notin Supervision
        BY <1>0 DEF WorkerStates, Supervision
      <3> QED
        BY <1>8, <2>2, <3>1
    <2>3. CASE \/ worker' = [worker EXCEPT ![w] = IdleWorker]
               \/ worker' = [worker EXCEPT ![w] = StoppedWorker]
      BY <1>8, <1>9, <2>3
    <2> QED
      BY <1>2, <2>1, <2>2, <2>3 DEF SelectJob, Crash, Restart, HandleInterrupt, CleanUp,
         ExpireRaises
  <1>3. ASSUME NEW w \in Workers, NEW r \in worker[w].rows, ExpireRow(w, r[1], r[2])
        PROVE  Goal
    BY <1>0, <1>3 DEF ExpireRow, Supervises, WorkerStates
  <1>4. ASSUME NEW w \in Workers, ClaimJob(w) PROVE Goal
    <2>1. CASE worker' = [worker EXCEPT ![w] = IdleWorker]
      BY <1>0, <2>1 DEF IdleWorker, Supervises, Supervision
    <2>2. CASE /\ Claimable(worker[w].job)
               /\ row' = [row EXCEPT ![worker[w].job] = ClaimedRow(@, minted')]
               /\ worker' = [worker EXCEPT ![w] = [@ EXCEPT !.pc = "load", !.token = minted']]
      <3>1. worker[w].job \in Jobs /\ row[worker[w].job] \in Rows
        BY <1>4 DEF ClaimJob, ControlOK, WorkerControlOK, TypeOK, RowTypeOK
      <3>2. ClaimWon(w, worker[w].job)
        BY <2>2, <3>1 DEF ClaimWon, Claimable, Waiting, ClaimedRow, Rows, TypeOK, RowTypeOK
      <3>3. worker'[w].job = worker[w].job
        BY <1>0, <2>2 DEF WorkerStates
      <3> QED
        BY <1>0, <2>2, <3>2, <3>3 DEF Supervises
    <2> QED
      BY <1>4, <2>1, <2>2 DEF ClaimJob
  <1>5. ASSUME NEW w \in Workers, worker[w].pc \in Supervision,
               worker' = [worker EXCEPT ![w] = IdleWorker]
               \/ (\A u \in Workers : worker'[u].job = worker[u].job
                                      /\ (u # w => worker'[u] = worker[u]))
        PROVE  Goal
    BY <1>0, <1>5 DEF IdleWorker, Supervises, Supervision
  <1>6. ASSUME NEW w \in Workers,
               StartChild(w) \/ CheckStop(w) \/ PollNothing(w) \/ PollEof(w) \/ Receive(w)
                 \/ CheckAlive(w) \/ FinishJob(w) \/ Interrupt(w)
        PROVE  Goal
    <2>1. worker[w].pc \in Supervision
      BY <1>6 DEF StartChild, CheckStop, PollNothing, PollEof, Receive, CheckAlive, FinishJob,
         Interrupt, Supervision
    <2>2. ASSUME NEW q, q.job = worker[w].job, worker' = [worker EXCEPT ![w] = q] PROVE Goal
      BY <1>0, <1>5, <2>1, <2>2
    <2>3. ASSUME NEW pc, Goto(w, pc) PROVE Goal
      <3> DEFINE q == [worker[w] EXCEPT !.pc = pc]
      <3>1. q.job = worker[w].job /\ worker' = [worker EXCEPT ![w] = q]
        BY <1>0, <2>3 DEF Goto, WorkerStates
      <3> QED
        BY <2>2, <3>1
    <2>4. ASSUME NEW pc, NEW x,
                 worker' = [worker EXCEPT ![w] = [@ EXCEPT !.pc = pc, !.verdict = x]]
          PROVE  Goal
      <3> DEFINE q == [worker[w] EXCEPT !.pc = pc, !.verdict = x]
      <3>1. q.job = worker[w].job /\ worker' = [worker EXCEPT ![w] = q]
        BY <1>0, <2>4 DEF WorkerStates
      <3> QED
        BY <2>2, <3>1
    <2>5. CASE worker' = [worker EXCEPT ![w] = IdleWorker]
      BY <1>5, <2>1, <2>5
    <2>6. CASE StartChild(w) \/ CheckStop(w) \/ PollNothing(w) \/ PollEof(w)
      BY <2>3, <2>4, <2>5, <2>6 DEF StartChild, CheckStop, PollNothing, PollEof, Conclude
    <2>7. CASE Receive(w) \/ CheckAlive(w) \/ FinishJob(w) \/ Interrupt(w)
      BY <2>3, <2>4, <2>7 DEF Receive, CheckAlive, FinishJob, Interrupt, Conclude, Interrupted
    <2> QED
      BY <1>6, <2>6, <2>7
  <1>7. ASSUME NEW k \in Jobs,
               \/ ChildStep(k) \/ DeadlinePasses(k) \/ BecomeOverdue(k) \/ DamageSnapshot(k)
        PROVE  Goal
    BY <1>1, <1>7 DEF ChildStep, ChildCheckpoint, ChildReturn, ChildExit, ChildWatchdog,
       ChildCrash, DeadlinePasses, BecomeOverdue, DamageSnapshot, workerVars
  <1> QED
    BY <1>1, <1>2, <1>3, <1>4, <1>6, <1>7
    DEF Next, vars, workerVars, WorkerNext, WorkerStep

\* OneSupervisor is not inductive: a claim needs the job it takes to be free.
SupervisedJobsLeft ==
  \A w \in Workers, j \in Jobs : Supervises(w, j) => Left(j)

LEMMA OneSupervisorStep ==
  ASSUME TypeOK, ControlOK, SupervisedJobsLeft, OneSupervisor, [Next]_vars
  PROVE  (SupervisedJobsLeft /\ OneSupervisor)'
  <1>1. row \in [Jobs -> Rows] /\ RowStep
    BY StepIsRowStep DEF TypeOK, RowTypeOK
  <1>2. ASSUME NEW w \in Workers, NEW j \in Jobs, Supervises(w, j)' PROVE Left(j)'
    <2>1. CASE Supervises(w, j)
      BY <1>1, <2>1, LeftStays DEF SupervisedJobsLeft
    <2>2. CASE ClaimWon(w, j)
      BY <2>2 DEF ClaimWon, Left
    <2> QED
      BY <1>2, <2>1, <2>2, SupervisionStep
  <1>3. ASSUME NEW v \in Workers, NEW w \in Workers, NEW j \in Jobs,
               ClaimWon(v, j), Supervises(w, j)'
        PROVE  v = w
    <2>1. ~Supervises(w, j)
      BY <1>3 DEF ClaimWon, SupervisedJobsLeft, Left
    <2> QED
      BY <1>3, <2>1 DEF ClaimWon, Supervises
  <1>4. ASSUME NEW v \in Workers, NEW w \in Workers, NEW j \in Jobs,
               Supervises(v, j)', Supervises(w, j)'
        PROVE  v = w
    BY <1>3, <1>4, SupervisionStep DEF OneSupervisor
  <1> QED
    BY <1>2, <1>4 DEF SupervisedJobsLeft, OneSupervisor

LEMMA SupervisionInvariant == Spec => [](SupervisedJobsLeft /\ OneSupervisor)
  <1>1. Init => SupervisedJobsLeft /\ OneSupervisor
    BY DEF Init, WorkerInit, IdleWorker, SupervisedJobsLeft, OneSupervisor, Supervises,
       Supervision
  <1>2. TypeOK /\ ControlOK /\ (SupervisedJobsLeft /\ OneSupervisor) /\ [Next]_vars
          => (SupervisedJobsLeft /\ OneSupervisor)'
    BY OneSupervisorStep
  <1> QED
    BY <1>1, <1>2, TypeControl, PTL DEF Spec

\* However many worker processes run, claim and are restarted, no job ever has
\* two supervisors: claim_job's compare-and-set and the absence of any path
\* back to the queue.
THEOREM SingleSupervisor == Spec => []OneSupervisor
  BY SupervisionInvariant, PTL

=============================================================================
