--------------------------- MODULE JobTrackingProofs ---------------------------
(***************************************************************************)
(* Proofs about the dashboard's hook: optimizing again finds the job of an *)
(* unanswered attempt, and no answer takes a shown status back.            *)
(***************************************************************************)
EXTENDS JobTracking, TLAPS

Statuses == Server!Open \cup Server!Closed
Keys == PageKeys \cup OtherKeys

-----------------------------------------------------------------------------
(* The inductive invariant.  Its parts are operators of the values they    *)
(* speak of, so that a step is a change of their arguments.                *)

\* What the server may have said of a job: the job exists, and its state has
\* gone no less far since.
Known(j, s) == j \in Jobs /\ s[j] # "ABSENT"
Reports == [id : Jobs, status : Statuses]
Report(a, s) ==
  /\ a \in Reports
  /\ s[a.id] # "ABSENT"
  /\ Progress(a.status) <= Progress(s[a.id])

ServerOK ==
  /\ state \in [Jobs -> {"ABSENT"} \cup Statuses]
  /\ names \in [Keys -> Jobs \cup {None}]
  /\ published \in [Jobs -> 0..2]
  /\ newest \in Versions
  /\ \A k \in Keys : names[k] # None => Known(names[k], state)

\* The operation that holds the lock, and what its answer says.  An
\* optimization is the unanswered submission, and its answer is the job its key
\* names.
Optimizations ==
  [kind : {"optimize"}, version : Versions, key : PageKeys, answer : {None} \cup Reports]
JobRequests == [kind : {"cancel", "restore"}, job : Jobs, answer : {None} \cup Reports]
ListRequests == [kind : {"refresh", "store"}, answer : {None} \cup Versions]

Optimizes(m, sub, n, s) ==
  /\ m \in Optimizations
  /\ sub.key = m.key
  /\ m.answer # None => Report(m.answer, s) /\ n[m.key] = m.answer.id
AsksOfJob(m, s) ==
  /\ m \in JobRequests
  /\ Known(m.job, s)
  /\ m.answer # None => Report(m.answer, s) /\ m.answer.id = m.job
MutationOK(m, sub, n, s) ==
  m = Idle \/ Optimizes(m, sub, n, s) \/ AsksOfJob(m, s) \/ m \in ListRequests

\* The poll loop follows a job, and what it was told is about that job.
Informed == {"told", "fetching", "fetched"}
Polls ==
  [stage : Informed \cup {"asking", "waiting"}, job : Jobs, version : Versions, live : BOOLEAN,
   answer : {None} \cup Reports, hasResult : BOOLEAN,
   output : {None} \cup [job : Jobs, value : 0..2]]
Follows(p, s) ==
  /\ p \in Polls
  /\ Known(p.job, s)
  /\ p.stage \in Informed => Report(p.answer, s) /\ p.answer.id = p.job
PollOK(p, s) == p = NoPoll \/ Follows(p, s)

MemoryOK ==
  /\ version \in Versions /\ known \in Versions
  /\ stored \in [Versions -> Jobs \cup {None}]
  /\ \A v \in Versions : stored[v] # None => Known(stored[v], state)
  /\ tracked # None => Known(tracked, state)
  /\ job # None => Report(job, state)

\* What was left without an answer is the submission that is still kept.
SubmissionOK ==
  /\ submission # None => submission \in [version : Versions, key : PageKeys]
  /\ doubt # None => doubt = submission

LockOK ==
  /\ mutation # Idle => effects = {}
  /\ \A request \in adrift : request.kind \in {"optimize", "cancel"}

PageOK ==
  /\ ServerOK
  /\ MemoryOK
  /\ SubmissionOK
  /\ LockOK
  /\ MutationOK(mutation, submission, names, state)
  /\ PollOK(poll, state)

\* A cancellation works on the job shown, with no poll that would be applied;
\* a poll that is applied says no less than what is shown, except when a
\* restored or new job was shown and its effects are still to run.
CancelOK(m, p, q) ==
  m.kind = "cancel" =>
    /\ p # NoPoll => ~p.live
    /\ q # None /\ q.id = m.job
    /\ m.answer # None => Progress(q.status) <= Progress(m.answer.status)
Ahead(p, q) ==
  /\ p.stage \in Informed
  /\ p.live
  /\ q # None /\ q.id = p.job
  => Progress(q.status) <= Progress(p.answer.status)
Replaced == {"restore", "optimize"}
OrderOK ==
  /\ CancelOK(mutation, poll, job)
  /\ effects \cap Replaced = {} => Ahead(poll, job)

-----------------------------------------------------------------------------
(* The server only moves on.                                               *)

Grows ==
  /\ ServerOK'
  /\ \A k \in Keys : names[k] # None => names'[k] = names[k]
  /\ \A j \in Jobs : state[j] # "ABSENT" =>
       state'[j] # "ABSENT" /\ Progress(state[j]) <= Progress(state'[j])

LEMMA ProgressBounds == \A status : Progress(status) \in 1..4
  BY DEF Progress

LEMMA EndedIsLast ==
  /\ \A status \in Server!Closed : Progress(status) = 4
  /\ Progress("QUEUED") = 1 /\ Progress("RUNNING") = 2 /\ Progress("CANCELLING") = 3
  BY DEF Progress, Server!Closed

LEMMA NothingChanges == ASSUME ServerOK, UNCHANGED <<jobVars, newest>> PROVE Grows
  <1>1. state' = state /\ names' = names /\ published' = published /\ newest' = newest
    BY DEF jobVars
  <1>2. ServerOK'
    BY <1>1 DEF ServerOK, Known
  <1> QED
    BY <1>1, <1>2, ProgressBounds DEF Grows

LEMMA StateMoves ==
  ASSUME ServerOK, NEW i, NEW to \in Statuses,
         i \in Jobs /\ state[i] # "ABSENT" => Progress(state[i]) <= Progress(to),
         state' = [state EXCEPT ![i] = to],
         published' \in [Jobs -> 0..2], names' = names, newest' = newest
  PROVE  Grows
  <1>0. \A j \in Jobs : state'[j] = IF j = i THEN to ELSE state[j]
    BY DEF ServerOK
  <1>1. state' \in [Jobs -> {"ABSENT"} \cup Statuses]
    BY DEF ServerOK
  <1>2. to # "ABSENT"
    BY DEF Statuses, Server!Open, Server!Closed
  <1>3. ASSUME NEW j \in Jobs, state[j] # "ABSENT"
        PROVE  state'[j] # "ABSENT" /\ Progress(state[j]) <= Progress(state'[j])
    <2>1. CASE j = i
      BY <1>0, <1>2, <1>3, <2>1
    <2>2. CASE j # i
      BY <1>0, <1>3, <2>2, ProgressBounds
    <2> QED
      BY <2>1, <2>2
  <1>4. ServerOK'
    BY <1>1, <1>3 DEF ServerOK, Known
  <1> QED
    BY <1>3, <1>4 DEF Grows

LEMMA NewNameGrows ==
  ASSUME ServerOK, NEW k, NEW v, NEW j \in Jobs, SubmitNew(k, v, j)
  PROVE  Grows /\ names[k] = None /\ names' = [names EXCEPT ![k] = j]
         /\ state'[j] # "ABSENT" /\ newest' = newest
  <1>1. /\ names[k] = None /\ names' = [names EXCEPT ![k] = j] /\ newest' = newest
        /\ published' = published
    BY DEF SubmitNew, Server!Share, Server!Admit
  <1>2. /\ names' \in [Keys -> Jobs \cup {None}]
        /\ \A key \in Keys : names[key] # None => names'[key] = names[key]
    BY <1>1 DEF ServerOK
  <1>3. CASE Server!Share(k, j)
    <2>1. state' = state /\ state[j] # "ABSENT"
      BY <1>3 DEF Server!Share
    <2>2. ServerOK'
      BY <1>1, <1>2, <2>1 DEF ServerOK, Known
    <2> QED
      BY <1>1, <1>2, <2>1, <2>2, ProgressBounds DEF Grows
  <1>4. CASE Server!Admit(k, v, j)
    <2>1. state' = [state EXCEPT ![j] = "QUEUED"] /\ state[j] = "ABSENT"
      BY <1>4 DEF Server!Admit
    <2>2. \A i \in Jobs : state'[i] = IF i = j THEN "QUEUED" ELSE state[i]
      BY <2>1 DEF ServerOK
    <2>3. "QUEUED" \in Statuses
      BY DEF Statuses, Server!Open
    <2>4. state' \in [Jobs -> {"ABSENT"} \cup Statuses]
      BY <2>1, <2>3 DEF ServerOK
    <2>5. \A key \in Keys : names'[key] # None => Known(names'[key], state')
      BY <1>1, <2>2 DEF ServerOK, Known
    <2>6. ServerOK'
      BY <1>1, <1>2, <2>4, <2>5 DEF ServerOK
    <2> QED
      BY <1>1, <1>2, <2>1, <2>2, <2>6, ProgressBounds DEF Grows
  <1> QED
    BY <1>3, <1>4 DEF SubmitNew

\* What submit answers is the job that the key names from then on.
LEMMA SubmitGrows ==
  ASSUME ServerOK, NEW k \in Keys, NEW v, NEW j \in Jobs, Submit(k, v, j)
  PROVE  Grows /\ names'[k] = j /\ state'[j] # "ABSENT"
  <1>1. CASE SubmitNew(k, v, j)
    BY <1>1, NewNameGrows DEF ServerOK
  <1>2. CASE names[k] = j /\ UNCHANGED serverVars
    <2>1. UNCHANGED <<jobVars, newest>> /\ names' = names /\ state' = state
      BY <1>2 DEF serverVars, jobVars
    <2>2. state[j] # "ABSENT"
      BY <1>2, TrackingAssumption DEF ServerOK, Known
    <2> QED
      BY <1>2, <2>1, <2>2, NothingChanges
  <1> QED
    BY <1>1, <1>2 DEF Submit

LEMMA CancelGrows ==
  ASSUME ServerOK, NEW i, Cancel(i) PROVE Grows
  <1>1. CASE Server!Withdraw(i) /\ UNCHANGED <<newest, partial>>
    <2>1. "CANCELLED" \in Statuses /\ Progress("CANCELLED") = 4
      BY EndedIsLast DEF Statuses, Server!Closed
    <2>2. /\ state' = [state EXCEPT ![i] = "CANCELLED"]
          /\ names' = names /\ published' = published /\ newest' = newest
      BY <1>1 DEF Server!Withdraw, Server!Move
    <2>3. published' \in [Jobs -> 0..2] /\ Progress(state[i]) <= Progress("CANCELLED")
      BY <2>1, <2>2, ProgressBounds DEF ServerOK
    <2> QED
      BY <2>1, <2>2, <2>3, StateMoves
  <1>2. CASE Server!RequestCancel(i) /\ UNCHANGED <<newest, partial>>
    <2>1. "CANCELLING" \in Statuses
      BY DEF Statuses, Server!Open
    <2>2. /\ state[i] = "RUNNING" /\ state' = [state EXCEPT ![i] = "CANCELLING"]
          /\ names' = names /\ published' = published /\ newest' = newest
      BY <1>2 DEF Server!RequestCancel, Server!Move
    <2>3. published' \in [Jobs -> 0..2] /\ Progress(state[i]) <= Progress("CANCELLING")
      BY <2>2, EndedIsLast DEF ServerOK
    <2> QED
      BY <2>1, <2>2, <2>3, StateMoves
  <1>3. CASE UNCHANGED serverVars
    BY <1>3, NothingChanges DEF serverVars
  <1> QED
    BY <1>1, <1>2, <1>3 DEF Cancel

LEMMA WorkGrows ==
  ASSUME ServerOK, NEW i \in Jobs, Begin(i) \/ StoreCheckpoint(i) \/ End(i) PROVE Grows
  <1>1. CASE Begin(i)
    <2>1. "RUNNING" \in Statuses
      BY DEF Statuses, Server!Open
    <2>2. /\ state[i] = "QUEUED" /\ state' = [state EXCEPT ![i] = "RUNNING"]
          /\ names' = names /\ published' = published /\ newest' = newest
      BY <1>1 DEF Begin, Server!Start, Server!Move
    <2>3. published' \in [Jobs -> 0..2] /\ Progress(state[i]) <= Progress("RUNNING")
      BY <2>2, EndedIsLast DEF ServerOK
    <2> QED
      BY <2>1, <2>2, <2>3, StateMoves
  <1>2. CASE StoreCheckpoint(i)
    BY <1>2, NothingChanges DEF StoreCheckpoint
  <1>3. CASE End(i)
    <2>0. PICK to \in Server!Closed, value \in {IF i \in partial THEN Checkpoint ELSE 0, Complete} :
            Server!Close(i, to, value) /\ newest' = newest
      BY <1>3 DEF End
    <2>1. /\ state' = [state EXCEPT ![i] = to]
          /\ published' = [published EXCEPT ![i] = value]
          /\ names' = names /\ newest' = newest /\ value \in 0..2
      BY <2>0 DEF Server!Close, Checkpoint, Complete
    <2>2. to \in Statuses /\ Progress(to) = 4
      BY EndedIsLast DEF Statuses
    <2>3. published' \in [Jobs -> 0..2]
      BY <2>1 DEF ServerOK
    <2>4. Progress(state[i]) <= Progress(to)
      BY <2>2, ProgressBounds
    <2> QED
      BY <2>1, <2>2, <2>3, <2>4, StateMoves
  <1> QED
    BY <1>1, <1>2, <1>3

LEMMA StoreGrows == ASSUME ServerOK, Store PROVE Grows /\ newest' \in Versions
  <1>1. newest' \in Versions /\ state' = state /\ names' = names /\ published' = published
    BY DEF Store, jobVars
  <1>2. ServerOK'
    BY <1>1 DEF ServerOK, Known
  <1> QED
    BY <1>1, <1>2, ProgressBounds DEF Grows

\* What was true of a job stays true while the server moves on.
LEMMA ReportsStay ==
  ASSUME Grows, ServerOK
  PROVE  /\ \A j : Known(j, state) => Known(j, state')
         /\ \A a : Report(a, state) => Report(a, state')
  <1>1. \A j : Known(j, state) => Known(j, state')
    BY DEF Grows, Known
  <1>2. ASSUME NEW a, Report(a, state) PROVE Report(a, state')
    <2>1. a \in Reports /\ a.id \in Jobs
      BY <1>2 DEF Report, Reports
    <2>2. /\ state'[a.id] # "ABSENT"
          /\ Progress(state[a.id]) <= Progress(state'[a.id])
      BY <1>2, <2>1 DEF Report, Grows
    <2>3. Progress(a.status) <= Progress(state'[a.id])
      BY <1>2, <2>2, ProgressBounds DEF Report
    <2> QED
      BY <2>1, <2>2, <2>3 DEF Report
  <1> QED
    BY <1>1, <1>2

LEMMA AnswersStay ==
  ASSUME Grows, ServerOK
  PROVE  /\ \A m, sub : MutationOK(m, sub, names, state) => MutationOK(m, sub, names', state')
         /\ \A p : PollOK(p, state) => PollOK(p, state')
  <1>1. ASSUME NEW m, NEW sub, Optimizes(m, sub, names, state)
        PROVE  Optimizes(m, sub, names', state')
    <2>1. m.key \in Keys
      BY <1>1 DEF Optimizes, Optimizations, Keys
    <2>2. ASSUME m.answer # None
          PROVE  Report(m.answer, state') /\ names'[m.key] = m.answer.id
      <3>1. m.answer.id \in Jobs
        BY <1>1, <2>2 DEF Optimizes, Report, Reports
      <3>2. names[m.key] # None
        BY <1>1, <2>2, <3>1, TrackingAssumption DEF Optimizes
      <3> QED
        BY <1>1, <2>1, <2>2, <3>2, ReportsStay DEF Optimizes, Grows
    <2> QED
      BY <1>1, <2>2 DEF Optimizes
  <1>2. \A m : AsksOfJob(m, state) => AsksOfJob(m, state')
    BY ReportsStay DEF AsksOfJob
  <1>3. \A p : PollOK(p, state) => PollOK(p, state')
    BY ReportsStay DEF PollOK, Follows
  <1> QED
    BY <1>1, <1>2, <1>3 DEF MutationOK

\* A step of the server alone.
LEMMA ServerAlone ==
  ASSUME PageOK, OrderOK, Grows, PageFrame, adrift' \subseteq adrift
  PROVE  PageOK' /\ OrderOK'
  <1>0. /\ stored' = stored /\ known' = known /\ version' = version /\ tracked' = tracked
        /\ job' = job /\ submission' = submission /\ mutation' = mutation /\ poll' = poll
        /\ effects' = effects /\ doubt' = doubt
    BY DEF PageFrame, pageVars, shownVars
  <1>1. ServerOK'
    BY DEF Grows
  <1>2. MemoryOK'
    BY <1>0, ReportsStay DEF PageOK, MemoryOK
  <1>3. SubmissionOK' /\ LockOK'
    BY <1>0 DEF PageOK, SubmissionOK, LockOK
  <1>4. MutationOK(mutation, submission, names, state)' /\ PollOK(poll, state)'
    BY <1>0, AnswersStay DEF PageOK
  <1>5. OrderOK'
    BY <1>0 DEF OrderOK
  <1> QED
    BY <1>1, <1>2, <1>3, <1>4, <1>5 DEF PageOK

LEMMA ServerSteps ==
  ASSUME PageOK, OrderOK,
         OthersSubmit \/ OthersStore \/ OthersCancel \/ HandleLate \/ \E j \in Jobs : WorkOn(j)
  PROVE  PageOK' /\ OrderOK'
  <1>0. ServerOK
    BY DEF PageOK
  <1>1. Grows /\ PageFrame /\ adrift' \subseteq adrift
    <2>1. CASE OthersSubmit
      <3>1. PICK k \in OtherKeys, v \in 1..newest, j \in Jobs : SubmitNew(k, v, j)
        BY <2>1 DEF OthersSubmit
      <3> QED
        BY <1>0, <2>1, <3>1, NewNameGrows DEF OthersSubmit
    <2>2. CASE OthersStore
      BY <1>0, <2>2, StoreGrows DEF OthersStore
    <2>3. CASE OthersCancel
      BY <1>0, <2>3, CancelGrows DEF OthersCancel
    <2>4. CASE HandleLate
      <3>1. PICK request \in adrift : Handle(request) /\ adrift' = adrift \ {request}
        BY <2>4 DEF HandleLate
      <3>2. request.kind \in {"optimize", "cancel"}
        BY <3>1 DEF PageOK, LockOK
      <3>3. CASE request.kind = "optimize"
        <4>1. PICK j \in Jobs : Submit(request.key, request.version, j)
          BY <3>1, <3>3 DEF Handle
        <4>2. ASSUME SubmitNew(request.key, request.version, j) PROVE Grows
          BY <1>0, <4>2, NewNameGrows
        <4>3. ASSUME UNCHANGED serverVars PROVE Grows
          BY <1>0, <4>3, NothingChanges DEF serverVars
        <4> QED
          BY <2>4, <3>1, <4>1, <4>2, <4>3 DEF Submit, HandleLate
      <3>4. CASE request.kind = "cancel"
        <4>1. Cancel(request.job)
          BY <3>1, <3>4 DEF Handle
        <4> QED
          BY <1>0, <2>4, <3>1, <4>1, CancelGrows DEF HandleLate
      <3> QED
        BY <3>2, <3>3, <3>4
    <2>5. ASSUME NEW j \in Jobs, WorkOn(j) PROVE Grows /\ PageFrame /\ adrift' \subseteq adrift
      BY <1>0, <2>5, WorkGrows DEF WorkOn
    <2> QED
      BY <2>1, <2>2, <2>3, <2>4, <2>5
  <1> QED
    BY <1>1, ServerAlone

-----------------------------------------------------------------------------
(* The poll loop and the effects.                                          *)

LEMMA NoPollSilent ==
  /\ \A s : PollOK(NoPoll, s)
  /\ \A q : Ahead(NoPoll, q)
  /\ \A m, p, q : CancelOK(m, p, q) => CancelOK(m, NoPoll, q)
  BY DEF PollOK, Ahead, NoPoll, Informed, CancelOK

LEMMA PollFollows ==
  ASSUME PageOK, poll.stage # "off" PROVE poll # NoPoll /\ Follows(poll, state)
  BY DEF PageOK, PollOK, NoPoll

\* A step of the loop that leaves the poll and the job shown in order.
LEMMA PollAlone ==
  ASSUME PageOK, OrderOK, UNCHANGED serverVars, PollFrame,
         PollOK(poll', state), job' # None => Report(job', state),
         CancelOK(mutation, poll', job'), effects \cap Replaced = {} => Ahead(poll', job')
  PROVE  PageOK' /\ OrderOK'
  <1>0. /\ stored' = stored /\ known' = known /\ version' = version /\ tracked' = tracked
        /\ submission' = submission /\ mutation' = mutation /\ effects' = effects
        /\ adrift' = adrift /\ doubt' = doubt
        /\ state' = state /\ names' = names /\ published' = published /\ newest' = newest
    BY DEF PollFrame, serverVars, jobVars
  <1>1. ServerOK' /\ MemoryOK'
    BY <1>0 DEF PageOK, ServerOK, MemoryOK
  <1>2. SubmissionOK' /\ LockOK'
    BY <1>0 DEF PageOK, SubmissionOK, LockOK
  <1>3. MutationOK(mutation, submission, names, state)' /\ PollOK(poll, state)'
    BY <1>0 DEF PageOK
  <1>4. OrderOK'
    BY <1>0 DEF OrderOK
  <1> QED
    BY <1>1, <1>2, <1>3, <1>4 DEF PageOK

\* The loop waits or ends; it says nothing.
LEMMA WaitingSilent ==
  ASSUME PageOK, OrderOK, poll.stage # "off", poll' = Waiting \/ poll' = NoPoll
  PROVE  /\ PollOK(poll', state)
         /\ \A q : Ahead(poll', q)
         /\ \A q : CancelOK(mutation, poll, q) => CancelOK(mutation, poll', q)
  <1>1. CASE poll' = NoPoll
    BY <1>1, NoPollSilent
  <1>2. CASE poll' = Waiting
    <2> DEFINE p == poll
               w == [p EXCEPT !.stage = "waiting", !.answer = None, !.hasResult = FALSE,
                              !.output = None]
    <2>1. p # NoPoll /\ Follows(p, state)
      BY PollFollows
    <2>2. poll' = w
      BY <1>2 DEF Waiting
    <2> HIDE DEF p
    <2>3. /\ w \in Polls /\ w.stage = "waiting" /\ w.job = p.job /\ w.live = p.live
      BY <2>1 DEF Follows, Polls
    <2> HIDE DEF w
    <2>4. w.stage \notin Informed
      BY <2>3 DEF Informed
    <2>5. PollOK(w, state)
      BY <2>1, <2>3, <2>4 DEF PollOK, Follows
    <2>6. \A q : CancelOK(mutation, p, q) => CancelOK(mutation, w, q)
      BY <2>1, <2>3 DEF CancelOK
    <2> QED
      BY <2>2, <2>4, <2>5, <2>6 DEF Ahead, p
  <1> QED
    BY <1>1, <1>2

LEMMA InterruptSilent ==
  ASSUME PageOK, OrderOK, poll.stage # "off", Interrupt, UNCHANGED serverVars, PollFrame
  PROVE  PageOK' /\ OrderOK'
  <1>1. job' = job /\ (poll' = Waiting \/ poll' = NoPoll)
    BY DEF Interrupt
  <1>2. job # None => Report(job, state)
    BY DEF PageOK, MemoryOK
  <1>3. CancelOK(mutation, poll, job)
    BY DEF OrderOK
  <1> QED
    BY <1>1, <1>2, <1>3, WaitingSilent, PollAlone

LEMMA ServePollKeeps ==
  ASSUME PageOK, OrderOK, ServePoll PROVE PageOK' /\ OrderOK'
  <1> DEFINE p == poll
             told == Status(p.job)
             has == HasResult(p.job)
             shown == ResultOf(p.job)
  <1>0. /\ UNCHANGED serverVars /\ PollFrame /\ job' = job
        /\ \/ p.stage = "asking"
              /\ poll' = [p EXCEPT !.stage = "told", !.answer = told, !.hasResult = has]
           \/ p.stage = "fetching"
              /\ poll' = [p EXCEPT !.stage = "fetched", !.output = shown]
    BY DEF ServePoll, shownVars, Told
  <1>1. job # None => Report(job, state)
    BY DEF PageOK, MemoryOK
  <1>2. p # NoPoll /\ Follows(p, state)
    BY <1>0, PollFollows
  <1>3. told \in Reports /\ Report(told, state) /\ told.id = p.job /\ told.status = state[p.job]
    <2>1. state[p.job] \in Statuses /\ p.job \in Jobs
      BY <1>2 DEF Follows, Known, PageOK, ServerOK
    <2>2. told = [id |-> p.job, status |-> state[p.job]]
      BY DEF Status
    <2> HIDE DEF told
    <2>3. told \in Reports /\ told.id = p.job /\ told.status = state[p.job]
      BY <2>1, <2>2 DEF Reports
    <2> QED
      BY <1>2, <2>3, ProgressBounds DEF Report, Follows, Known
  <1>4. has \in BOOLEAN
    BY DEF HasResult
  <1>5. shown \in [job : Jobs, value : 0..2]
    <2>1. p.job \in Jobs /\ published[p.job] \in 0..2
      BY <1>2 DEF Follows, Known, PageOK, ServerOK
    <2> QED
      BY <2>1 DEF ResultOf, Checkpoint
  <1>6. CancelOK(mutation, p, job) /\ (effects \cap Replaced = {} => Ahead(p, job))
    BY DEF OrderOK
  <1> HIDE DEF p, told, has, shown
  <1>7. ASSUME p.stage = "asking",
               poll' = [p EXCEPT !.stage = "told", !.answer = told, !.hasResult = has]
        PROVE  PollOK(poll', state) /\ CancelOK(mutation, poll', job) /\ Ahead(poll', job)
    <2> DEFINE w == poll'
    <2>1. /\ w \in Polls /\ w.stage = "told" /\ w.answer = told
          /\ w.job = p.job /\ w.live = p.live
      BY <1>2, <1>3, <1>4, <1>7 DEF Follows, Polls, Informed
    <2> HIDE DEF w
    <2>2. PollOK(w, state)
      BY <1>2, <1>3, <2>1 DEF PollOK, Follows
    <2>3. CancelOK(mutation, w, job)
      BY <1>2, <1>6, <2>1 DEF CancelOK
    <2>4. job # None /\ job.id = w.job => Progress(job.status) <= Progress(w.answer.status)
      BY <1>1, <1>3, <2>1 DEF Report
    <2> QED
      BY <2>2, <2>3, <2>4 DEF Ahead, w
  <1>8. ASSUME p.stage = "fetching", poll' = [p EXCEPT !.stage = "fetched", !.output = shown]
        PROVE  /\ PollOK(poll', state) /\ CancelOK(mutation, poll', job)
               /\ effects \cap Replaced = {} => Ahead(poll', job)
    <2> DEFINE w == poll'
    <2>1. /\ w \in Polls /\ w.stage = "fetched" /\ w.answer = p.answer
          /\ w.job = p.job /\ w.live = p.live
      BY <1>2, <1>5, <1>8 DEF Follows, Polls, Informed
    <2> HIDE DEF w
    <2>2. PollOK(w, state)
      BY <1>2, <1>8, <2>1 DEF PollOK, Follows, Informed
    <2>3. CancelOK(mutation, w, job)
      BY <1>2, <1>6, <2>1 DEF CancelOK
    <2>4. effects \cap Replaced = {} => Ahead(w, job)
      BY <1>6, <1>8, <2>1 DEF Ahead, Informed
    <2> QED
      BY <2>2, <2>3, <2>4 DEF w
  <1> QED
    BY <1>0, <1>1, <1>7, <1>8, PollAlone

\* What the loop was told is shown only by a loop that is still current.
LEMMA ReceiveStatusKeeps ==
  ASSUME PageOK, OrderOK, ReceiveStatus PROVE PageOK' /\ OrderOK'
  <1>0. UNCHANGED serverVars /\ PollFrame /\ poll.stage = "told"
    BY DEF ReceiveStatus
  <1>1. poll # NoPoll /\ Follows(poll, state) /\ Report(poll.answer, state)
    BY <1>0, PollFollows DEF Follows, Informed
  <1>2. CancelOK(mutation, poll, job) /\ (job # None => Report(job, state))
    BY DEF OrderOK, PageOK, MemoryOK
  <1>3. CASE ~poll.live /\ poll' = NoPoll /\ UNCHANGED shownVars
    BY <1>0, <1>2, <1>3, NoPollSilent, PollAlone DEF shownVars
  <1>4. CASE Interrupt
    BY <1>0, <1>4, InterruptSilent
  <1>5. ASSUME poll.live, job' = poll.answer,
               poll' = IF poll.hasResult THEN [poll EXCEPT !.stage = "fetching"]
                       ELSE Continue(poll.answer)
        PROVE  PageOK' /\ OrderOK'
    <2>1. mutation.kind # "cancel"
      BY <1>1, <1>2, <1>5 DEF CancelOK
    <2>2. \A p, q : CancelOK(mutation, p, q)
      BY <2>1 DEF CancelOK
    <2>3. Report(job', state)
      BY <1>1, <1>5
    <2>4. CASE ~poll.hasResult
      <3>1. poll' = Waiting \/ poll' = NoPoll
        BY <1>5, <2>4 DEF Continue
      <3> QED
        BY <1>0, <2>2, <2>3, <3>1, WaitingSilent, PollAlone
    <2>5. CASE poll.hasResult
      <3> DEFINE p == poll
                 w == poll'
      <3>1. w = [p EXCEPT !.stage = "fetching"]
        BY <1>5, <2>5
      <3> HIDE DEF p, w
      <3>2. p \in Polls
        BY <1>1 DEF Follows, p
      <3>3. /\ w \in Polls /\ w.stage = "fetching" /\ w.answer = p.answer
            /\ w.job = p.job /\ w.live = p.live
        BY <3>1, <3>2 DEF Polls, Informed
      <3>4. PollOK(w, state)
        BY <1>0, <1>1, <3>3 DEF PollOK, Follows, Informed, p
      <3>5. Ahead(w, job')
        <4>1. w.answer = job'
          BY <1>5, <3>3 DEF p
        <4> QED
          BY <4>1, ProgressBounds DEF Ahead
      <3> QED
        BY <1>0, <2>2, <2>3, <3>4, <3>5, PollAlone DEF w
    <2> QED
      BY <2>4, <2>5
  <1> QED
    BY <1>3, <1>4, <1>5 DEF ReceiveStatus

LEMMA PollSteps ==
  ASSUME PageOK, OrderOK, PollStep \/ FailPoll PROVE PageOK' /\ OrderOK'
  <1>0. CancelOK(mutation, poll, job) /\ (job # None => Report(job, state))
    BY DEF OrderOK, PageOK, MemoryOK
  <1>1. CASE ReceiveResult
    <2>1. /\ poll.stage = "fetched" /\ (poll' = Waiting \/ poll' = NoPoll)
          /\ UNCHANGED serverVars /\ PollFrame /\ job' = job
      BY <1>1 DEF ReceiveResult, Continue
    <2> QED
      BY <1>0, <2>1, WaitingSilent, PollAlone
  <1>2. CASE PollAgain
    <2> DEFINE p == poll
               w == poll'
    <2>0. UNCHANGED serverVars /\ PollFrame /\ job' = job /\ poll.stage = "waiting"
      BY <1>2 DEF PollAgain, shownVars
    <2>1. w = [p EXCEPT !.stage = "asking"]
      BY <1>2 DEF PollAgain
    <2>2. p # NoPoll /\ Follows(p, state)
      BY <2>0, PollFollows
    <2>3. CancelOK(mutation, p, job)
      BY <1>0
    <2> HIDE DEF p, w
    <2>4. w \in Polls /\ w.stage = "asking" /\ w.job = p.job /\ w.live = p.live
      BY <2>1, <2>2 DEF Follows, Polls
    <2>5. PollOK(w, state) /\ Ahead(w, job)
      BY <2>2, <2>4 DEF PollOK, Follows, Informed, Ahead
    <2>6. CancelOK(mutation, w, job)
      BY <2>2, <2>3, <2>4 DEF CancelOK
    <2> QED
      BY <1>0, <2>0, <2>5, <2>6, PollAlone DEF w
  <1>3. CASE FailPoll
    BY <1>3, InterruptSilent DEF FailPoll
  <1> QED
    BY <1>1, <1>2, <1>3, ServePollKeeps, ReceiveStatusKeeps DEF PollStep

\* The effects show no job but a stored one, and the loop they start asks anew.
LEMMA EffectsKeep ==
  ASSUME PageOK, OrderOK, RunEffects PROVE PageOK' /\ OrderOK'
  <1>0. /\ effects # {} /\ effects' = {}
        /\ stored' = stored /\ known' = known /\ version' = version
        /\ submission' = submission /\ mutation' = mutation /\ adrift' = adrift /\ doubt' = doubt
        /\ state' = state /\ names' = names /\ published' = published /\ newest' = newest
    BY DEF RunEffects, serverVars, jobVars
  <1>1. mutation = Idle
    BY <1>0 DEF PageOK, LockOK
  <1>2. \/ job' = None /\ tracked' = stored[version]
        \/ job' = job /\ tracked' = tracked
    BY DEF RunEffects, shownVars
  <1>3. (tracked' # None => Known(tracked', state)) /\ (job' # None => Report(job', state))
    BY <1>2 DEF PageOK, MemoryOK
  <1>4. PollOK(poll', state) /\ Ahead(poll', job')
    <2>1. CASE tracked' = None
      BY <2>1, NoPollSilent DEF RunEffects
    <2>2. CASE tracked' # None
      <3> DEFINE w == poll'
                 j == tracked'
      <3>1. w = [stage |-> "asking", job |-> j, version |-> version, live |-> TRUE,
                 answer |-> None, hasResult |-> FALSE, output |-> None]
        BY <2>2 DEF RunEffects, Asking
      <3>2. Known(j, state) /\ j \in Jobs /\ version \in Versions
        BY <1>3, <2>2 DEF Known, PageOK, MemoryOK
      <3> HIDE DEF w, j
      <3>3. w \in Polls /\ w.stage = "asking" /\ w.job = j
        BY <3>1, <3>2 DEF Polls
      <3> QED
        BY <3>2, <3>3 DEF PollOK, Follows, Informed, Ahead, w
    <2> QED
      BY <2>1, <2>2
  <1>5. ServerOK' /\ MemoryOK'
    BY <1>0, <1>3 DEF PageOK, ServerOK, MemoryOK
  <1>6. SubmissionOK' /\ LockOK'
    BY <1>0, <1>1 DEF PageOK, SubmissionOK, LockOK
  <1>7. MutationOK(mutation, submission, names, state)' /\ PollOK(poll, state)'
    BY <1>0, <1>4 DEF PageOK
  <1>8. OrderOK'
    BY <1>0, <1>1, <1>4 DEF OrderOK, CancelOK, Idle
  <1> QED
    BY <1>5, <1>6, <1>7, <1>8 DEF PageOK

-----------------------------------------------------------------------------
(* The operations.                                                         *)

LEMMA OldOrder ==
  ASSUME PageOK, OrderOK, effects = {} \/ mutation # Idle PROVE effects = {} /\ Ahead(poll, job)
  BY DEF PageOK, LockOK, OrderOK

\* A click that takes the lock.
LEMMA ClickKeeps ==
  ASSUME PageOK, OrderOK, Free, ClickFrame, SubmissionOK',
         MutationOK(mutation', submission', names, state), PollOK(poll', state),
         CancelOK(mutation', poll', job), Ahead(poll', job)
  PROVE  PageOK' /\ OrderOK'
  <1>0. /\ stored' = stored /\ known' = known /\ version' = version /\ tracked' = tracked
        /\ job' = job /\ effects' = effects /\ adrift' = adrift
        /\ state' = state /\ names' = names /\ published' = published /\ newest' = newest
        /\ effects = {}
    BY DEF ClickFrame, shownVars, serverVars, jobVars, Free
  <1>1. ServerOK' /\ MemoryOK' /\ LockOK'
    BY <1>0 DEF PageOK, ServerOK, MemoryOK, LockOK
  <1>2. MutationOK(mutation, submission, names, state)' /\ PollOK(poll, state)'
    BY <1>0
  <1>3. OrderOK'
    BY <1>0 DEF OrderOK
  <1> QED
    BY <1>1, <1>2, <1>3 DEF PageOK

\* Optimizing keeps an unanswered submission of the version; another one, with
\* a fresh key, forgets the doubt.
LEMMA ClickOptimizeKeeps ==
  ASSUME PageOK, OrderOK, ClickOptimize PROVE PageOK' /\ OrderOK'
  <1>0. /\ Free /\ ClickFrame /\ poll' = poll /\ effects = {}
        /\ doubt' = IF doubt # None /\ doubt.version = version THEN doubt ELSE None
    BY DEF ClickOptimize, Free
  <1>1. PICK s \in Submissions(version) :
          /\ submission' = s
          /\ mutation' = [kind |-> "optimize", version |-> version, key |-> s.key, answer |-> None]
    BY DEF ClickOptimize
  <1>2. /\ submission # None => submission \in [version : Versions, key : PageKeys]
        /\ doubt # None => doubt = submission
        /\ version \in Versions
    BY DEF PageOK, SubmissionOK, MemoryOK
  <1>3. /\ s \in [version : Versions, key : PageKeys]
        /\ doubt # None /\ doubt.version = version => s = doubt
    <2>1. CASE submission # None /\ submission.version = version
      BY <1>1, <1>2, <2>1 DEF Submissions
    <2>2. CASE ~(submission # None /\ submission.version = version)
      <3>1. PICK k \in PageKeys : s = [version |-> version, key |-> k]
        BY <1>1, <2>2 DEF Submissions, Lowest, FreshKeys
      <3> QED
        BY <1>2, <2>2, <3>1
    <2> QED
      BY <2>1, <2>2
  <1>4. SubmissionOK'
    BY <1>0, <1>1, <1>3 DEF SubmissionOK
  <1>5. mutation' \in Optimizations /\ mutation'.key = s.key /\ mutation'.answer = None
        /\ mutation'.kind = "optimize"
    BY <1>1, <1>2, <1>3 DEF Optimizations
  <1>6. PollOK(poll', state) /\ Ahead(poll', job) /\ CancelOK(mutation', poll', job)
    BY <1>0, <1>5, OldOrder DEF PageOK, CancelOK
  <1>7. MutationOK(mutation', submission', names, state)
    BY <1>1, <1>5 DEF MutationOK, Optimizes
  <1> QED
    BY <1>0, <1>4, <1>6, <1>7, ClickKeeps

\* Cancelling first makes sure that no poll is applied until it is answered.
LEMMA ClickCancelKeeps ==
  ASSUME PageOK, OrderOK, ClickCancel PROVE PageOK' /\ OrderOK'
  <1>0. /\ Free /\ ClickFrame /\ effects = {} /\ submission' = submission /\ doubt' = doubt
        /\ job # None
        /\ mutation' = [kind |-> "cancel", job |-> job.id, answer |-> None]
        /\ poll' = IF poll = NoPoll THEN poll ELSE [poll EXCEPT !.live = FALSE]
    BY DEF ClickCancel, Free
  <1>1. SubmissionOK'
    BY <1>0 DEF PageOK, SubmissionOK
  <1>2. Known(job.id, state)
    BY <1>0 DEF PageOK, MemoryOK, Report, Reports, Known
  <1>3. mutation' \in JobRequests /\ mutation'.job = job.id /\ mutation'.answer = None
    BY <1>0, <1>2 DEF JobRequests, Known
  <1>4. MutationOK(mutation', submission', names, state)
    BY <1>2, <1>3 DEF MutationOK, AsksOfJob
  <1>5. /\ PollOK(poll', state) /\ (poll' # NoPoll => ~poll'.live)
    <2>1. CASE poll = NoPoll
      BY <1>0, <2>1, NoPollSilent
    <2>2. CASE poll # NoPoll
      <3> DEFINE p == poll
                 w == poll'
      <3>1. Follows(p, state)
        BY <2>2 DEF PageOK, PollOK
      <3>2. w = [p EXCEPT !.live = FALSE]
        BY <1>0, <2>2
      <3> HIDE DEF p, w
      <3>3. /\ w \in Polls /\ w.stage = p.stage /\ w.answer = p.answer /\ w.job = p.job
            /\ w.live = FALSE
        BY <3>1, <3>2 DEF Follows, Polls
      <3> QED
        BY <3>1, <3>3 DEF PollOK, Follows, w
    <2> QED
      BY <2>1, <2>2
  <1>6. CancelOK(mutation', poll', job)
    BY <1>0, <1>3, <1>5 DEF CancelOK
  <1>7. Ahead(poll', job)
    BY <1>5, NoPollSilent DEF Ahead
  <1> QED
    BY <1>0, <1>1, <1>4, <1>5, <1>6, <1>7, ClickKeeps

LEMMA ClickOtherKeeps ==
  ASSUME PageOK, OrderOK, ClickOther PROVE PageOK' /\ OrderOK'
  <1>0. /\ Free /\ ClickFrame /\ effects = {} /\ submission' = submission /\ doubt' = doubt
        /\ poll' = poll
    BY DEF ClickOther, Free
  <1>1. SubmissionOK'
    BY <1>0 DEF PageOK, SubmissionOK
  <1>2. MutationOK(mutation', submission', names, state) /\ mutation'.kind # "cancel"
    <2>1. ASSUME NEW j \in Jobs, Exists(j),
                 mutation' = [kind |-> "restore", job |-> j, answer |-> None]
          PROVE  MutationOK(mutation', submission', names, state) /\ mutation'.kind # "cancel"
      BY <2>1 DEF MutationOK, AsksOfJob, JobRequests, Known, Exists
    <2>2. ASSUME NEW kind \in {"refresh", "store"}, mutation' = [kind |-> kind, answer |-> None]
          PROVE  MutationOK(mutation', submission', names, state) /\ mutation'.kind # "cancel"
      BY <2>2 DEF MutationOK, ListRequests
    <2> QED
      BY <2>1, <2>2 DEF ClickOther
  <1>3. PollOK(poll', state) /\ Ahead(poll', job) /\ CancelOK(mutation', poll', job)
    BY <1>0, <1>2, OldOrder DEF PageOK, CancelOK
  <1> QED
    BY <1>0, <1>1, <1>2, <1>3, ClickKeeps

LEMMA SelectVersionKeeps ==
  ASSUME PageOK, OrderOK, SelectVersion PROVE PageOK' /\ OrderOK'
  <1>0. /\ stored' = stored /\ known' = known /\ tracked' = tracked
        /\ submission' = submission /\ mutation' = mutation /\ adrift' = adrift /\ doubt' = doubt
        /\ state' = state /\ names' = names /\ published' = published /\ newest' = newest
        /\ job' = job /\ poll' = poll /\ effects' = {"version"} /\ effects = {}
        /\ mutation = Idle
    BY DEF SelectVersion, Free, serverVars, jobVars, shownVars
  <1>1. version' \in Versions
    BY TrackingAssumption DEF SelectVersion, PageOK, MemoryOK, Versions
  <1>2. ServerOK' /\ MemoryOK' /\ SubmissionOK' /\ LockOK'
    BY <1>0, <1>1 DEF PageOK, ServerOK, MemoryOK, SubmissionOK, LockOK
  <1>3. MutationOK(mutation, submission, names, state)' /\ PollOK(poll, state)'
    BY <1>0 DEF PageOK
  <1>4. OrderOK'
    BY <1>0, OldOrder DEF OrderOK
  <1> QED
    BY <1>2, <1>3, <1>4 DEF PageOK

\* A request whose sender gave up is an optimization or a cancellation.
LEMMA AdriftKinds ==
  ASSUME PageOK, GiveUp
  PROVE  \A request \in adrift' : request.kind \in {"optimize", "cancel"}
  BY DEF GiveUp, PageOK, LockOK

LEMMA ReloadKeeps ==
  ASSUME PageOK, OrderOK, ReloadPage PROVE PageOK' /\ OrderOK'
  <1>0. /\ stored' = stored /\ known' = newest /\ version' = newest
        /\ tracked' = None /\ job' = None /\ submission' = None /\ doubt' = None
        /\ mutation' = Idle /\ poll' = NoPoll
        /\ state' = state /\ names' = names /\ published' = published /\ newest' = newest
    BY DEF ReloadPage, serverVars, jobVars
  <1>1. ServerOK' /\ MemoryOK' /\ SubmissionOK'
    BY <1>0 DEF PageOK, ServerOK, MemoryOK, SubmissionOK
  <1>2. LockOK'
    BY <1>0, AdriftKinds DEF ReloadPage, LockOK
  <1>3. MutationOK(mutation, submission, names, state)' /\ PollOK(poll, state)'
    BY <1>0, NoPollSilent DEF MutationOK
  <1>4. OrderOK'
    BY <1>0, NoPollSilent DEF OrderOK, CancelOK, Idle
  <1> QED
    BY <1>1, <1>2, <1>3, <1>4 DEF PageOK

\* A failed optimization is doubted; its submission is kept.
LEMMA FailureKeeps ==
  ASSUME PageOK, OrderOK, FailMutation PROVE PageOK' /\ OrderOK'
  <1>0. /\ stored' = stored /\ known' = known /\ version' = version /\ tracked' = tracked
        /\ submission' = submission /\ mutation' = Idle
        /\ state' = state /\ names' = names /\ published' = published /\ newest' = newest
        /\ job' = job /\ poll' = poll /\ effects' = effects /\ effects = {}
        /\ doubt' \in {submission, doubt}
    BY OldOrder DEF FailMutation, serverVars, jobVars, shownVars
  <1>1. ServerOK' /\ MemoryOK' /\ SubmissionOK'
    BY <1>0 DEF PageOK, ServerOK, MemoryOK, SubmissionOK
  <1>2. LockOK'
    BY <1>0, AdriftKinds DEF FailMutation, LockOK
  <1>3. MutationOK(mutation, submission, names, state)' /\ PollOK(poll, state)'
    BY <1>0 DEF MutationOK, PageOK
  <1>4. OrderOK'
    BY <1>0, OldOrder DEF OrderOK, CancelOK, Idle, FailMutation
  <1> QED
    BY <1>1, <1>2, <1>3, <1>4 DEF PageOK

\* The server answers an operation about a job with a state the job has.
LEMMA StatusReports ==
  ASSUME ServerOK, NEW i \in Jobs, state[i] # "ABSENT", NEW a, a = [id |-> i, status |-> state[i]]
  PROVE  a \in Reports /\ Report(a, state) /\ a.id = i /\ a.status = state[i]
  <1>1. state[i] \in Statuses
    BY DEF ServerOK
  <1>2. a \in Reports /\ a.id = i /\ a.status = state[i]
    BY <1>1 DEF Reports
  <1> QED
    BY <1>2, ProgressBounds DEF Report

LEMMA AnswerFits ==
  ASSUME NEW m, NEW a, NEW r, r = [m EXCEPT !.answer = a]
  PROVE  /\ m \in Optimizations /\ a \in Reports => r \in Optimizations /\ r.key = m.key
         /\ m \in JobRequests /\ a \in Reports =>
              r \in JobRequests /\ r.job = m.job /\ r.kind = m.kind
         /\ m \in ListRequests /\ a \in Versions => r \in ListRequests
         /\ m \in Optimizations \cup JobRequests \cup ListRequests => r.answer = a
  BY DEF Optimizations, JobRequests, ListRequests

\* An answer on its way changes nothing the page shows.
LEMMA AnswerKeeps ==
  ASSUME PageOK, OrderOK, Grows, mutation # Idle,
         UNCHANGED <<stored, known, version, tracked, shownVars, error, submission, poll, effects,
                     adrift, doubt, boundVars>>,
         MutationOK(mutation', submission, names', state'), CancelOK(mutation', poll, job)
  PROVE  PageOK' /\ OrderOK'
  <1>0. /\ stored' = stored /\ known' = known /\ version' = version /\ tracked' = tracked
        /\ job' = job /\ submission' = submission /\ poll' = poll
        /\ effects' = effects /\ adrift' = adrift /\ doubt' = doubt /\ effects = {}
    BY OldOrder DEF shownVars
  <1>1. ServerOK'
    BY DEF Grows
  <1>2. MemoryOK'
    BY <1>0, ReportsStay DEF PageOK, MemoryOK
  <1>3. SubmissionOK' /\ LockOK'
    BY <1>0 DEF PageOK, SubmissionOK, LockOK
  <1>4. MutationOK(mutation, submission, names, state)' /\ PollOK(poll, state)'
    BY <1>0, AnswersStay DEF PageOK
  <1>5. OrderOK'
    BY <1>0, OldOrder DEF OrderOK
  <1> QED
    BY <1>1, <1>2, <1>3, <1>4, <1>5 DEF PageOK

LEMMA ServeMutationKeeps ==
  ASSUME PageOK, OrderOK, ServeMutation PROVE PageOK' /\ OrderOK'
  <1> DEFINE m == mutation
             r == mutation'
  <1>0. /\ m # Idle /\ ServerOK
        /\ UNCHANGED <<stored, known, version, tracked, shownVars, error, submission, poll, effects,
                       adrift, doubt, boundVars>>
    BY DEF ServeMutation, Unanswered, PageOK
  <1>1. MutationOK(m, submission, names, state) /\ CancelOK(m, poll, job)
        /\ (job # None => Report(job, state))
    BY DEF PageOK, OrderOK, MemoryOK
  <1>2. CASE m.kind = "optimize"
    <2>0. Optimizes(m, submission, names, state)
      BY <1>0, <1>1, <1>2 DEF MutationOK, AsksOfJob, JobRequests, ListRequests
    <2>1. PICK j \in Jobs : Submit(mutation.key, mutation.version, j) /\ r = Answer(Status(j)')
      BY <1>2 DEF ServeMutation
    <2>2. PICK k, v : k = mutation.key /\ v = mutation.version
      OBVIOUS
    <2>3. k \in Keys /\ k = m.key
      BY <2>0, <2>2 DEF Optimizes, Optimizations, Keys
    <2>4. Submit(k, v, j)
      BY <2>1, <2>2 DEF Submit, SubmitNew, Server!Share, Server!Admit
    <2>5. Grows /\ names'[k] = j /\ state'[j] # "ABSENT"
      BY <1>0, <2>3, <2>4, SubmitGrows
    <2>6. PICK a : a = [id |-> j, status |-> state'[j]]
      OBVIOUS
    <2>7. a \in Reports /\ Report(a, state') /\ a.id = j
      <3>1. state'[j] \in Statuses
        BY <2>5 DEF Grows, ServerOK
      <3>2. a \in Reports /\ a.id = j /\ a.status = state'[j]
        BY <2>6, <3>1 DEF Reports
      <3> QED
        BY <2>5, <3>2, ProgressBounds DEF Report
    <2>8. r = [m EXCEPT !.answer = a]
      BY <2>1, <2>6 DEF Answer, Status
    <2> HIDE DEF m, r
    <2>9. r \in Optimizations /\ r.key = m.key /\ r.answer = a
      BY <2>0, <2>7, <2>8, AnswerFits DEF Optimizes
    <2>10. MutationOK(r, submission, names', state')
      BY <2>0, <2>3, <2>5, <2>7, <2>9 DEF MutationOK, Optimizes
    <2>11. CancelOK(r, poll, job)
      BY <2>9 DEF CancelOK, Optimizations
    <2> QED
      BY <1>0, <2>5, <2>10, <2>11, AnswerKeeps DEF m, r
  <1>3. CASE m.kind = "cancel"
    <2>0. AsksOfJob(m, state)
      BY <1>0, <1>1, <1>3 DEF MutationOK, Optimizes, Optimizations, ListRequests
    <2>1. /\ Cancel(mutation.job)
          /\ r = Answer([id |-> mutation.job, status |-> state'[mutation.job]])
      BY <1>3 DEF ServeMutation
    <2>2. PICK i : i = mutation.job
      OBVIOUS
    <2>3. Cancel(i)
      BY <2>1, <2>2 DEF Cancel, Server!Withdraw, Server!RequestCancel, Server!Move
    <2>4. Grows
      BY <1>0, <2>3, CancelGrows
    <2>5. i = m.job /\ i \in Jobs /\ state[i] # "ABSENT"
      BY <2>0, <2>2 DEF AsksOfJob, Known
    <2>6. state'[i] # "ABSENT" /\ Progress(state[i]) <= Progress(state'[i])
      BY <2>4, <2>5 DEF Grows
    <2>7. PICK a : a = [id |-> i, status |-> state'[i]]
      OBVIOUS
    <2>8. a \in Reports /\ Report(a, state') /\ a.id = i /\ a.status = state'[i]
      <3>1. state'[i] \in Statuses
        BY <2>4, <2>5, <2>6 DEF Grows, ServerOK
      <3>2. a \in Reports /\ a.id = i /\ a.status = state'[i]
        BY <2>5, <2>7, <3>1 DEF Reports
      <3> QED
        BY <2>6, <3>2, ProgressBounds DEF Report
    <2>9. r = [m EXCEPT !.answer = a]
      BY <2>1, <2>2, <2>7 DEF Answer
    <2> HIDE DEF m, r
    <2>10. r \in JobRequests /\ r.job = m.job /\ r.kind = m.kind /\ r.answer = a
      BY <2>0, <2>8, <2>9, AnswerFits DEF AsksOfJob
    <2>11. MutationOK(r, submission, names', state')
      BY <2>5, <2>6, <2>8, <2>10 DEF MutationOK, AsksOfJob, Known
    <2>12. job # None /\ job.id = i => Progress(job.status) <= Progress(a.status)
      BY <1>1, <2>6, <2>8, ProgressBounds DEF Report
    <2>13. CancelOK(r, poll, job)
      BY <1>1, <1>3, <2>5, <2>10, <2>12 DEF CancelOK
    <2> QED
      BY <1>0, <2>4, <2>11, <2>13, AnswerKeeps DEF m, r
  <1>4. CASE m.kind = "restore"
    <2>0. AsksOfJob(m, state)
      BY <1>0, <1>1, <1>4 DEF MutationOK, Optimizes, Optimizations, ListRequests
    <2>1. r = Answer(Status(mutation.job)) /\ UNCHANGED serverVars
      BY <1>4 DEF ServeMutation
    <2>2. Grows
      BY <1>0, <2>1, NothingChanges DEF serverVars
    <2>3. PICK i, a : i = m.job /\ a = [id |-> i, status |-> state[i]]
      OBVIOUS
    <2>4. a \in Reports /\ Report(a, state) /\ a.id = m.job
      BY <1>0, <2>0, <2>3, StatusReports DEF AsksOfJob, Known
    <2>5. r = [m EXCEPT !.answer = a]
      BY <2>1, <2>3 DEF Answer, Status
    <2> HIDE DEF m, r
    <2>6. r \in JobRequests /\ r.job = m.job /\ r.kind = m.kind /\ r.answer = a
      BY <2>0, <2>4, <2>5, AnswerFits DEF AsksOfJob
    <2>7. MutationOK(r, submission, names, state)
      BY <2>0, <2>4, <2>6 DEF MutationOK, AsksOfJob
    <2>8. MutationOK(r, submission, names', state')
      BY <1>0, <2>2, <2>7, AnswersStay
    <2>9. CancelOK(r, poll, job)
      BY <1>4, <2>6 DEF CancelOK
    <2> QED
      BY <1>0, <2>2, <2>8, <2>9, AnswerKeeps DEF m, r
  <1>5. CASE m.kind \in {"refresh", "store"}
    <2>0. m \in ListRequests
      BY <1>0, <1>1, <1>5 DEF MutationOK, Optimizes, Optimizations, AsksOfJob, JobRequests
    <2>1. Grows /\ \E a \in Versions : r = Answer(a)
      <3>1. CASE m.kind = "refresh"
        <4>1. r = Answer(newest) /\ UNCHANGED serverVars
          BY <3>1 DEF ServeMutation
        <4> QED
          BY <1>0, <4>1, NothingChanges DEF serverVars, ServerOK
      <3>2. CASE m.kind = "store"
        <4>1. r = Answer(newest') /\ Store
          BY <3>2 DEF ServeMutation
        <4> QED
          BY <1>0, <4>1, StoreGrows
      <3> QED
        BY <1>5, <3>1, <3>2
    <2>2. PICK a \in Versions : r = [m EXCEPT !.answer = a]
      BY <2>1 DEF Answer
    <2> HIDE DEF m, r
    <2>3. r \in ListRequests
      BY <2>0, <2>2, AnswerFits
    <2>4. MutationOK(r, submission, names', state') /\ CancelOK(r, poll, job)
      BY <2>3 DEF MutationOK, CancelOK, ListRequests
    <2> QED
      BY <1>0, <2>1, <2>4, AnswerKeeps DEF m, r
  <1> QED
    BY <1>2, <1>3, <1>4, <1>5 DEF ServeMutation

\* Receiving an answer gives the lock back.
LEMMA AnswerReceived ==
  ASSUME PageOK, OrderOK, AnswerFrame, mutation' = Idle,
         MemoryOK', SubmissionOK', effects' \cap Replaced = {} => Ahead(poll, job')
  PROVE  PageOK' /\ OrderOK'
  <1>0. /\ state' = state /\ names' = names /\ published' = published /\ newest' = newest
        /\ poll' = poll /\ adrift' = adrift
    BY DEF AnswerFrame, serverVars, jobVars
  <1>1. ServerOK' /\ LockOK'
    BY <1>0 DEF PageOK, ServerOK, LockOK
  <1>2. MutationOK(mutation, submission, names, state)' /\ PollOK(poll, state)'
    BY <1>0 DEF PageOK, MutationOK
  <1>3. OrderOK'
    BY <1>0 DEF OrderOK, CancelOK, Idle
  <1> QED
    BY <1>1, <1>2, <1>3 DEF PageOK

\* Who asked about a job is told about it.
LEMMA AnsweredTruly ==
  ASSUME PageOK, NEW kind \in {"optimize", "cancel", "restore"}, Answered(kind)
  PROVE  /\ Report(mutation.answer, state) /\ mutation.answer.id \in Jobs
         /\ kind = "optimize" => /\ submission.key = mutation.key
                                 /\ names[mutation.key] = mutation.answer.id
         /\ kind # "optimize" => AsksOfJob(mutation, state) /\ mutation.answer.id = mutation.job
  <1>1. mutation.kind = kind /\ mutation.answer # None
    BY DEF Answered
  <1>2. CASE Optimizes(mutation, submission, names, state)
    BY <1>1, <1>2 DEF Optimizes, Optimizations, Report, Reports
  <1>3. CASE AsksOfJob(mutation, state)
    BY <1>1, <1>3 DEF AsksOfJob, JobRequests, Report, Reports
  <1> QED
    BY <1>1, <1>2, <1>3 DEF PageOK, MutationOK, Idle, ListRequests

LEMMA ReceiveJobKeeps ==
  ASSUME PageOK, OrderOK, ReceiveOptimize \/ ReceiveCancel \/ ReceiveRestore
  PROVE  PageOK' /\ OrderOK'
  <1> DEFINE a == mutation.answer
  <1>0. /\ AnswerFrame /\ mutation' = Idle /\ mutation # Idle
        /\ version' = version /\ known' = known
        /\ state' = state
    BY DEF ReceiveOptimize, ReceiveCancel, ReceiveRestore, Follow, AnswerFrame, Answered, Idle,
           serverVars, jobVars
  <1>1. /\ version \in Versions /\ known \in Versions
        /\ stored \in [Versions -> Jobs \cup {None}]
        /\ \A v \in Versions : stored[v] # None => Known(stored[v], state)
        /\ tracked # None => Known(tracked, state)
        /\ job # None => Report(job, state)
    BY DEF PageOK, MemoryOK
  <1>2. SubmissionOK'
    BY DEF PageOK, SubmissionOK, ReceiveOptimize, ReceiveCancel, ReceiveRestore
  <1>3. Report(a, state) /\ Known(a.id, state)
    BY AnsweredTruly DEF ReceiveOptimize, ReceiveCancel, ReceiveRestore, Report, Known
  <1>4. CASE /\ stored' \in {stored, [stored EXCEPT ![version] = a.id]}
             /\ Follow(a)
             /\ ~ReceiveCancel => mutation.kind \in Replaced
    <2>1. job' = a /\ tracked' = a.id /\ effects' = effects \cup {mutation.kind}
      BY <1>4 DEF Follow
    <2> HIDE DEF a
    <2>2. MemoryOK'
      <3>1. /\ stored' \in [Versions -> Jobs \cup {None}]
            /\ \A v \in Versions : stored'[v] # None => Known(stored'[v], state)
        BY <1>1, <1>3, <1>4 DEF Known
      <3> QED
        BY <1>0, <1>1, <1>3, <2>1, <3>1 DEF MemoryOK
    <2>3. effects' \cap Replaced = {} => Ahead(poll, job')
      <3>1. CASE ReceiveCancel
        <4>1. mutation.kind = "cancel"
          BY <3>1 DEF ReceiveCancel, Answered
        <4>2. poll # NoPoll => ~poll.live
          BY <4>1 DEF OrderOK, CancelOK
        <4> QED
          BY <4>2, NoPollSilent DEF Ahead
      <3>2. CASE ~ReceiveCancel
        BY <1>4, <2>1, <3>2
      <3> QED
        BY <3>1, <3>2
    <2> QED
      BY <1>0, <1>2, <2>2, <2>3, AnswerReceived
  <1>5. CASE UNCHANGED <<stored, tracked, job, effects>>
    <2>1. MemoryOK'
      BY <1>0, <1>1, <1>5 DEF MemoryOK
    <2>2. Ahead(poll, job')
      BY <1>0, <1>5, OldOrder
    <2> QED
      BY <1>0, <1>2, <2>1, <2>2, AnswerReceived
  <1>6. CASE ReceiveOptimize
    BY <1>4, <1>6 DEF ReceiveOptimize, Answered, Replaced
  <1>7. CASE ReceiveCancel
    BY <1>4, <1>7 DEF ReceiveCancel
  <1>8. CASE ReceiveRestore
    <2>1. CASE input[mutation.job] = version
      <3>1. a.id = mutation.job
        BY <1>8, AnsweredTruly DEF ReceiveRestore
      <3> QED
        BY <1>4, <1>8, <2>1, <3>1 DEF ReceiveRestore, Answered, Replaced
    <2>2. CASE input[mutation.job] # version
      BY <1>5, <1>8, <2>2 DEF ReceiveRestore
    <2> QED
      BY <2>1, <2>2
  <1> QED
    BY <1>6, <1>7, <1>8

LEMMA ReceiveVersionsKeeps ==
  ASSUME PageOK, OrderOK, ReceiveList \/ ReceiveVersion PROVE PageOK' /\ OrderOK'
  <1>0. /\ AnswerFrame /\ mutation' = Idle /\ mutation # Idle
        /\ known' \in {mutation.answer, newest} /\ version' = mutation.answer
        /\ stored' = stored /\ tracked' = tracked /\ job' = job
        /\ submission' = submission /\ doubt' = doubt /\ state' = state
        /\ mutation.kind \in {"refresh", "store"} /\ mutation.answer # None
    BY DEF ReceiveList, ReceiveVersion, shownVars, AnswerFrame, Answered, Idle, serverVars, jobVars
  <1>1. mutation.answer \in Versions
    BY <1>0 DEF PageOK, MutationOK, Optimizes, Optimizations, AsksOfJob, JobRequests, ListRequests
  <1>2. MemoryOK' /\ SubmissionOK'
    BY <1>0, <1>1 DEF PageOK, ServerOK, MemoryOK, SubmissionOK
  <1>3. Ahead(poll, job')
    BY <1>0, OldOrder
  <1> QED
    BY <1>0, <1>2, <1>3, AnswerReceived

-----------------------------------------------------------------------------
(* The invariant, and what it says.                                        *)

LEMMA InitKeeps == Init => PageOK /\ OrderOK
  <1> SUFFICES ASSUME Init PROVE PageOK /\ OrderOK
    OBVIOUS
  <1>1. /\ state = [j \in Jobs |-> "ABSENT"] /\ names = [k \in Keys |-> None]
        /\ published = [j \in Jobs |-> 0]
    BY DEF Init, Server!Init, Keys
  <1>2. 1 \in Versions
    BY TrackingAssumption DEF Versions
  <1>3. ServerOK
    BY <1>1, <1>2 DEF Init, ServerOK
  <1>4. MemoryOK /\ SubmissionOK /\ LockOK
    BY <1>2 DEF Init, MemoryOK, SubmissionOK, LockOK
  <1>5. MutationOK(mutation, submission, names, state) /\ PollOK(poll, state)
    BY NoPollSilent DEF Init, MutationOK
  <1>6. OrderOK
    BY NoPollSilent DEF Init, OrderOK, CancelOK, Idle
  <1> QED
    BY <1>3, <1>4, <1>5, <1>6 DEF PageOK

LEMMA NextKeeps == PageOK /\ OrderOK /\ [Next]_vars => PageOK' /\ OrderOK'
  <1>1. ASSUME PageOK, OrderOK, UNCHANGED vars PROVE PageOK' /\ OrderOK'
    <2>1. adrift' \subseteq adrift /\ UNCHANGED <<jobVars, newest>> /\ PageFrame
      BY <1>1 DEF vars, PageFrame, serverVars
    <2>2. Grows
      BY <1>1, <2>1, NothingChanges DEF PageOK
    <2> QED
      BY <1>1, <2>1, <2>2, ServerAlone
  <1>2. ASSUME PageOK, OrderOK, Next PROVE PageOK' /\ OrderOK'
    <2>1. CASE MutationStep
      BY <1>2, <2>1, ServeMutationKeeps, ReceiveJobKeeps, ReceiveVersionsKeeps DEF MutationStep
    <2>2. CASE OthersSubmit \/ OthersStore \/ OthersCancel \/ HandleLate \/ \E j \in Jobs : WorkOn(j)
      BY <1>2, <2>2, ServerSteps
    <2>3. CASE RunEffects \/ PollStep \/ FailPoll
      BY <1>2, <2>3, EffectsKeep, PollSteps
    <2>4. CASE ClickOptimize \/ ClickCancel \/ ClickOther \/ SelectVersion \/ ReloadPage \/ FailMutation
      BY <1>2, <2>4, ClickOptimizeKeeps, ClickCancelKeeps, ClickOtherKeeps, SelectVersionKeeps,
         ReloadKeeps, FailureKeeps
    <2> QED
      BY <1>2, <2>1, <2>2, <2>3, <2>4 DEF Next
  <1> QED
    BY <1>1, <1>2

LEMMA PageInvariant == Spec => [](PageOK /\ OrderOK)
  BY InitKeeps, NextKeeps, PTL DEF Spec

\* Optimizing again after an answer was lost leads to the job that the lost
\* request had created, even when that has ended (submission of useOperations).
THEOREM RetriesFind == Spec => []RetriesFindTheirJob
  <1>1. ASSUME PageOK, Answered("optimize"), doubt # None, names[doubt.key] # None
        PROVE  mutation.answer.id = names[doubt.key]
    <2>1. doubt = submission
      BY <1>1 DEF PageOK, SubmissionOK
    <2> QED
      BY <1>1, <2>1, AnsweredTruly
  <1>2. PageOK => RetriesFindTheirJob
    BY <1>1 DEF RetriesFindTheirJob
  <1> QED
    BY <1>2, PageInvariant, PTL

\* What is shown of a job is shown again, or was read of the server no earlier.
LEMMA NoStepBack ==
  ASSUME PageOK, OrderOK, Next, job # None, job' # None, job'.id = job.id,
         ({mutation.kind} \cup effects) \cap {"restore", "optimize"} = {}
  PROVE  Progress(job'.status) >= Progress(job.status)
  <1>1. ASSUME job' = job PROVE Progress(job'.status) >= Progress(job.status)
    BY <1>1, ProgressBounds
  <1>2. CASE ReceiveStatus
    <2>1. job' = job \/ (job' = poll.answer /\ poll.live /\ poll.stage = "told")
      BY <1>2 DEF ReceiveStatus, Interrupt, shownVars
    <2>2. ASSUME job' = poll.answer, poll.live, poll.stage = "told"
          PROVE  Progress(job'.status) >= Progress(job.status)
      <3>1. Ahead(poll, job)
        BY DEF OrderOK, Replaced
      <3>2. job.id = poll.job
        BY <2>2, PollFollows DEF Follows, Informed
      <3>3. Progress(job.status) <= Progress(poll.answer.status)
        BY <2>2, <3>1, <3>2 DEF Ahead, Informed
      <3> QED
        BY <2>2, <3>3, ProgressBounds
    <2> QED
      BY <1>1, <2>1, <2>2
  <1>3. CASE ReceiveCancel
    <2>1. job' = mutation.answer /\ mutation.kind = "cancel" /\ mutation.answer # None
      BY <1>3 DEF ReceiveCancel, Follow, Answered
    <2>2. Progress(job.status) <= Progress(mutation.answer.status)
      BY <2>1 DEF OrderOK, CancelOK
    <2> QED
      BY <2>1, <2>2, ProgressBounds
  <1>4. CASE RunEffects \/ ReloadPage
    <2>1. job' = None \/ job' = job
      BY <1>4 DEF RunEffects, ReloadPage, shownVars
    <2> QED
      BY <1>1, <2>1
  <1>5. CASE ReceiveOptimize \/ ReceiveRestore
    BY <1>5 DEF ReceiveOptimize, ReceiveRestore, Answered
  <1>6. CASE \/ OthersSubmit \/ OthersStore \/ OthersCancel \/ HandleLate
             \/ \E j \in Jobs : WorkOn(j)
    BY <1>1, <1>6 DEF OthersSubmit, OthersStore, OthersCancel, HandleLate, WorkOn, PageFrame,
       pageVars, shownVars
  <1>7. CASE ServePoll \/ ReceiveResult \/ PollAgain \/ FailPoll
    BY <1>1, <1>7 DEF ServePoll, ReceiveResult, PollAgain, FailPoll, Interrupt, shownVars
  <1>8. CASE ClickOptimize \/ ClickCancel \/ ClickOther \/ SelectVersion \/ FailMutation
    BY <1>1, <1>8 DEF ClickOptimize, ClickCancel, ClickOther, ClickFrame, SelectVersion,
       FailMutation, shownVars
  <1>9. CASE ServeMutation \/ ReceiveList \/ ReceiveVersion
    BY <1>1, <1>9 DEF ServeMutation, ReceiveList, ReceiveVersion, shownVars
  <1> QED
    BY <1>2, <1>3, <1>4, <1>5, <1>6, <1>7, <1>8, <1>9 DEF Next, PollStep, MutationStep

\* An answer that overtook another never takes the status of a job back;
\* restoring the same job is excepted (pollEpoch of useOperations).
THEOREM NoStatusStepsBack == Spec => StatusNeverStepsBack
  <1> DEFINE Forward ==
        /\ job # None /\ job' # None
        /\ job'.id = job.id
        /\ ({mutation.kind} \cup effects) \cap {"restore", "optimize"} = {}
        => Progress(job'.status) >= Progress(job.status)
  <1>1. PageOK /\ OrderOK /\ [Next]_vars => [Forward]_vars
    BY NoStepBack
  <1>2. StatusNeverStepsBack <=> [][Forward]_vars
    BY PTL DEF StatusNeverStepsBack
  <1> HIDE DEF Forward
  <1> QED
    BY <1>1, <1>2, PageInvariant, PTL DEF Spec

=============================================================================
