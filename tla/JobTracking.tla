------------------------------ MODULE JobTracking ------------------------------
(***************************************************************************)
(* The hook useOperations of the dashboard: one supervisor's page submits, *)
(* follows, cancels and restores jobs of a server that keeps JobContract.  *)
(*                                                                         *)
(* JavaScript runs one callback at a time, so a step is what runs between  *)
(* two awaits.  A request is handled by the server and answered later; it  *)
(* or its answer may be lost, and a request whose sender gave up may still *)
(* be handled.  React runs the effects of a state change some time after   *)
(* it; other answers may come first, but a click finds them run.           *)
(***************************************************************************)
EXTENDS Naturals

CONSTANTS
    MaxVersions,   \* bound: the input versions the date ever has
    Jobs,          \* a set of naturals: the jobs that are ever admitted
    PageKeys,      \* the keys newKey returns, naturals in this order
    OtherKeys,     \* keys of other pages
    None,
    MaxClicks,     \* bound: actions of the supervisor and of other pages
    MaxFailures    \* bound: requests or answers that are lost

ASSUME TrackingAssumption ==
    /\ MaxVersions \in Nat \ {0}
    /\ Jobs \subseteq Nat /\ PageKeys \subseteq Nat /\ None \notin Jobs
    /\ MaxClicks \in Nat /\ MaxFailures \in Nat

VARIABLES
    state, input, names, published,   \* the server, as in JobContract
    newest,       \* the number of versions stored so far
    partial,      \* the open and closed jobs with a stored checkpoint
    known,        \* the versions of the page's list, 1..known
    version,      \* the selected input version
    stored,       \* local storage: the last job of each version
    tracked,      \* the job to follow
    job, result,  \* the status and the result shown
    pollError,    \* is "Status updates interrupted" shown?
    error,        \* is a failed operation shown?
    submission,   \* the version and key of an optimize without an answer
    mutation,     \* the operation that holds the lock, its request and answer
    poll,         \* the poll loop that is not aborted
    effects,      \* why React has effects to run: the version changed, or an
                  \* operation changed what is tracked
    adrift,       \* requests whose sender gave up
    doubt,        \* history: the submission last left without an answer
    clicks, failures

jobVars == <<state, input, names, published>>
serverVars == <<jobVars, newest, partial>>
shownVars == <<job, result, pollError>>
pageVars == <<known, version, tracked, shownVars, error, submission, mutation, poll, effects, doubt>>
boundVars == <<clicks, failures>>
vars == <<serverVars, stored, pageVars, adrift, boundVars>>

Versions == 1..MaxVersions
Complete == 2
Checkpoint == 1
Server == INSTANCE JobContract
            WITH Keys <- PageKeys \cup OtherKeys, Inputs <- Versions, Nothing <- None

Exists(j) == state[j] # "ABSENT"
IsActive(status) == status \in Server!Open
Status(j) == [id |-> j, status |-> state[j]]

Idle == [kind |-> "none"]
NoPoll == [stage |-> "off"]
Asking(j, v) == [stage |-> "asking", job |-> j, version |-> v, live |-> TRUE,
                 answer |-> None, hasResult |-> FALSE, output |-> None]

Init ==
    /\ Server!Init
    /\ partial = {}
    /\ newest = 1 /\ known = 1 /\ version = 1
    /\ stored = [v \in Versions |-> None]
    /\ tracked = None
    /\ job = None /\ result = None
    /\ pollError = FALSE /\ error = FALSE
    /\ submission = None
    /\ mutation = Idle
    /\ poll = NoPoll
    /\ effects = {"version"}
    /\ adrift = {}
    /\ doubt = None
    /\ clicks = 0 /\ failures = 0

----------------------------------------------------------------------------
\* The server, which workers, other pages and this page change.

Lowest(S) == {n \in S : \A m \in S : n <= m}

\* What submit does with a key: share a job or admit one, or find its job.
SubmitNew(k, v, j) ==
    /\ \/ Server!Share(k, j) /\ input[j] = v
       \/ j \in Lowest({i \in Jobs : ~Exists(i)}) /\ Server!Admit(k, v, j)
    /\ UNCHANGED <<newest, partial>>
Submit(k, v, j) == SubmitNew(k, v, j) \/ (names[k] = j /\ UNCHANGED serverVars)

\* What cancel does; it leaves an ended job alone.
Cancel(j) ==
    \/ (Server!Withdraw(j) \/ Server!RequestCancel(j)) /\ UNCHANGED <<newest, partial>>
    \/ state[j] \notin {"QUEUED", "RUNNING"} /\ UNCHANGED serverVars

Handle(request) ==
    CASE request.kind = "optimize" ->
           \E j \in Jobs : Submit(request.key, request.version, j)
      [] request.kind = "cancel" -> Cancel(request.job)

Begin(j) == Server!Start(j) /\ UNCHANGED <<newest, partial>>
StoreCheckpoint(j) ==
    /\ state[j] \in {"RUNNING", "CANCELLING"} /\ j \notin partial
    /\ partial' = partial \cup {j}
    /\ UNCHANGED <<jobVars, newest>>
End(j) ==
    /\ \E to \in Server!Closed, value \in {IF j \in partial THEN Checkpoint ELSE 0, Complete} :
          Server!Close(j, to, value)
    /\ UNCHANGED <<newest, partial>>

Click == clicks < MaxClicks /\ clicks' = clicks + 1 /\ UNCHANGED failures
\* A draft or a revision.
Store == newest + 1 \in Versions /\ newest' = newest + 1 /\ UNCHANGED <<jobVars, partial>>

PageFrame == UNCHANGED <<stored, pageVars>>

OthersSubmit ==
    /\ Click
    /\ \E k \in OtherKeys, v \in 1..newest, j \in Jobs : SubmitNew(k, v, j)
    /\ PageFrame /\ UNCHANGED adrift
OthersStore == Click /\ Store /\ PageFrame /\ UNCHANGED adrift
OthersCancel ==
    /\ Click
    /\ \E j \in Jobs : IsActive(state[j]) /\ Cancel(j)
    /\ PageFrame /\ UNCHANGED adrift
WorkOn(j) ==
    /\ Begin(j) \/ StoreCheckpoint(j) \/ End(j)
    /\ PageFrame /\ UNCHANGED <<adrift, boundVars>>
HandleLate ==
    /\ \E request \in adrift : Handle(request) /\ adrift' = adrift \ {request}
    /\ PageFrame /\ UNCHANGED boundVars

----------------------------------------------------------------------------
\* The effects.

\* The effect on the version forgets the job and looks up the stored one; the
\* effect on tracked aborts the loop and starts one for the tracked job.
RunEffects ==
    /\ effects # {}
    /\ effects' = {}
    /\ IF "version" \in effects
       THEN /\ job' = None /\ result' = None /\ pollError' = FALSE
            /\ tracked' = stored[version]
       ELSE UNCHANGED <<shownVars, tracked>>
    /\ poll' = IF tracked' = None THEN NoPoll ELSE Asking(tracked', version)
    /\ UNCHANGED <<serverVars, stored, known, version, error, submission, mutation, adrift, doubt, boundVars>>

----------------------------------------------------------------------------
\* The poll loop.

PollFrame ==
    UNCHANGED <<stored, known, version, tracked, error, submission, mutation, effects, adrift, doubt>>

HasResult(j) == j \in partial \/ published[j] # 0
ResultOf(j) == [job |-> j, value |-> IF IsActive(state[j]) THEN Checkpoint ELSE published[j]]

Told(answer, has) == [poll EXCEPT !.stage = "told", !.answer = answer, !.hasResult = has]
Waiting ==
    [poll EXCEPT !.stage = "waiting", !.answer = None, !.hasResult = FALSE, !.output = None]

\* The server reads the job; the answer is on its way.
ServePoll ==
    /\ \/ /\ poll.stage = "asking"
          /\ poll' = Told(Status(poll.job), HasResult(poll.job))
       \/ /\ poll.stage = "fetching"
          /\ poll' = [poll EXCEPT !.stage = "fetched", !.output = ResultOf(poll.job)]
    /\ UNCHANGED <<serverVars, shownVars, boundVars>>
    /\ PollFrame

Continue(answer) == IF IsActive(answer.status) THEN Waiting ELSE NoPoll

\* Mutant: what was missed is reported, and the loop ends.
MutantInterrupt ==
    /\ poll' = NoPoll
    /\ pollError' = (pollError \/ poll.live)
    /\ UNCHANGED <<job, result>>
\* The catch clause: what was shown stays, and the loop goes on.
Interrupt ==
    /\ IF poll.live THEN pollError' = TRUE /\ poll' = Waiting
       ELSE UNCHANGED pollError /\ poll' = NoPoll
    /\ UNCHANGED <<job, result>>

\* Mutant: what was asked before a cancellation is applied after it.
MutantReceiveStatus ==
    /\ poll.stage = "told"
    /\ job' = poll.answer /\ pollError' = FALSE /\ UNCHANGED result
    /\ poll' = IF poll.hasResult THEN [poll EXCEPT !.stage = "fetching"]
               ELSE Continue(poll.answer)
    /\ UNCHANGED <<serverVars, boundVars>>
    /\ PollFrame
ReceiveStatus ==
    /\ poll.stage = "told"
    /\ \/ ~poll.live /\ poll' = NoPoll /\ UNCHANGED shownVars
       \/ /\ poll.live
          /\ IF input[poll.job] # poll.version THEN Interrupt
             ELSE /\ job' = poll.answer /\ pollError' = FALSE /\ UNCHANGED result
                  /\ poll' = IF poll.hasResult THEN [poll EXCEPT !.stage = "fetching"]
                             ELSE Continue(poll.answer)
    /\ UNCHANGED <<serverVars, boundVars>>
    /\ PollFrame

ReceiveResult ==
    /\ poll.stage = "fetched"
    /\ result' = IF poll.live THEN poll.output ELSE result
    /\ poll' = Continue(poll.answer)
    /\ UNCHANGED <<serverVars, job, pollError, boundVars>>
    /\ PollFrame

FailPoll ==
    /\ poll.stage \in {"asking", "told", "fetching", "fetched"}
    /\ failures < MaxFailures /\ failures' = failures + 1
    /\ Interrupt
    /\ UNCHANGED <<serverVars, clicks>>
    /\ PollFrame

PollAgain ==
    /\ poll.stage = "waiting"
    /\ poll' = [poll EXCEPT !.stage = "asking"]
    /\ UNCHANGED <<serverVars, shownVars, boundVars>>
    /\ PollFrame

----------------------------------------------------------------------------
\* The operations, each under the lock of mutate.

Free == mutation = Idle /\ effects = {}
ClickFrame ==
    UNCHANGED <<serverVars, stored, known, version, tracked, shownVars, effects, adrift>>

FreshKeys ==
    {k \in PageKeys : /\ names[k] = None
                      /\ \A request \in adrift : request.kind = "optimize" => request.key # k
                      /\ \A memory \in {submission, doubt} : memory # None => memory.key # k}

\* Mutant: a key for every click.
MutantSubmissions(v) == {[version |-> v, key |-> k] : k \in Lowest(FreshKeys)}
\* An unanswered submission of the same version keeps its key.
Submissions(v) ==
    IF submission # None /\ submission.version = v THEN {submission}
    ELSE {[version |-> v, key |-> k] : k \in Lowest(FreshKeys)}

ClickOptimize ==
    /\ Free /\ Click
    /\ job = None => tracked = None
    /\ job # None => ~IsActive(job.status)
    /\ \E s \in Submissions(version) :
          /\ submission' = s
          /\ mutation' = [kind |-> "optimize", version |-> version, key |-> s.key, answer |-> None]
    /\ error' = FALSE
    /\ doubt' = IF doubt # None /\ doubt.version = version THEN doubt ELSE None
    /\ UNCHANGED poll
    /\ ClickFrame

\* Cancelling invalidates the poll that is under way first.
ClickCancel ==
    /\ Free /\ Click
    /\ job # None /\ job.status \in {"QUEUED", "RUNNING"}
    /\ mutation' = [kind |-> "cancel", job |-> job.id, answer |-> None]
    /\ poll' = IF poll = NoPoll THEN poll ELSE [poll EXCEPT !.live = FALSE]
    /\ error' = FALSE
    /\ UNCHANGED <<submission, doubt>>
    /\ ClickFrame

\* Restoring a job by its identifier, reloading the lists (another page may
\* have added a version), and storing a draft or revision, which is then shown.
ClickOther ==
    /\ Free /\ Click
    /\ \/ \E j \in Jobs : Exists(j) /\ mutation' = [kind |-> "restore", job |-> j, answer |-> None]
       \/ mutation' = [kind |-> "refresh", answer |-> None]
       \/ newest + 1 \in Versions /\ mutation' = [kind |-> "store", answer |-> None]
    /\ error' = FALSE
    /\ UNCHANGED <<submission, doubt, poll>>
    /\ ClickFrame

SelectVersion ==
    /\ Free /\ Click
    /\ version' \in 1..known \ {version}
    /\ effects' = {"version"}
    /\ UNCHANGED <<serverVars, stored, known, tracked, shownVars, error, submission, mutation,
                   poll, adrift, doubt>>

\* Giving up on a request does not keep the server from handling it.
Unanswered == mutation # Idle /\ mutation.answer = None
GiveUp ==
    \/ UNCHANGED adrift
    \/ /\ Unanswered /\ mutation.kind \in {"optimize", "cancel"}
       /\ adrift' = adrift \cup {mutation}
Answered(kind) == mutation.kind = kind /\ mutation.answer # None
Answer(value) == [mutation EXCEPT !.answer = value]

ServeMutation ==
    /\ Unanswered
    /\ \/ /\ mutation.kind = "optimize"
          /\ \E j \in Jobs :
                /\ Submit(mutation.key, mutation.version, j)
                /\ mutation' = Answer(Status(j)')
       \/ /\ mutation.kind = "cancel"
          /\ Cancel(mutation.job)
          /\ mutation' = Answer([id |-> mutation.job, status |-> state'[mutation.job]])
       \/ /\ mutation.kind = "restore"
          /\ mutation' = Answer(Status(mutation.job))
          /\ UNCHANGED serverVars
       \/ mutation.kind = "refresh" /\ UNCHANGED serverVars /\ mutation' = Answer(newest)
       \/ mutation.kind = "store" /\ Store /\ mutation' = Answer(newest')
    /\ UNCHANGED <<stored, known, version, tracked, shownVars, error, submission, poll, effects,
                   adrift, doubt, boundVars>>

\* The job of an answer is shown and followed; stored names it for the version.
Follow(answer) ==
    /\ job' = answer
    /\ tracked' = answer.id
    /\ effects' = effects \cup {mutation.kind}
    /\ UNCHANGED <<known, version, pollError>>
AnswerFrame == UNCHANGED <<serverVars, poll, adrift, boundVars>>

ReceiveOptimize ==
    /\ Answered("optimize")
    /\ mutation' = Idle
    /\ submission' = None /\ doubt' = None
    /\ stored' = [stored EXCEPT ![version] = mutation.answer.id]
    /\ result' = None
    /\ Follow(mutation.answer)
    /\ UNCHANGED error
    /\ AnswerFrame

ReceiveCancel ==
    /\ Answered("cancel")
    /\ mutation' = Idle
    /\ Follow(mutation.answer)
    /\ UNCHANGED <<stored, result, error, submission, doubt>>
    /\ AnswerFrame

ReceiveRestore ==
    /\ Answered("restore")
    /\ mutation' = Idle
    /\ IF input[mutation.job] = version
       THEN /\ stored' = [stored EXCEPT ![version] = mutation.job]
            /\ Follow(mutation.answer)
            /\ UNCHANGED error
       ELSE /\ error' = TRUE
            /\ UNCHANGED <<stored, known, version, tracked, job, pollError, effects>>
    /\ UNCHANGED <<result, submission, doubt>>
    /\ AnswerFrame

\* The newest version that the list names is selected; the loop starts again.
ReceiveList ==
    /\ Answered("refresh")
    /\ mutation' = Idle
    /\ known' = mutation.answer /\ version' = mutation.answer
    /\ effects' = effects \cup {"refresh"} \cup {e \in {"version"} : version' # version}
    /\ UNCHANGED <<stored, tracked, shownVars, error, submission, doubt>>
    /\ AnswerFrame

\* The stored draft or revision is selected.
ReceiveVersion ==
    /\ Answered("store")
    /\ mutation' = Idle
    /\ known' = newest /\ version' = mutation.answer
    /\ effects' = effects \cup {"version"}
    /\ UNCHANGED <<stored, tracked, shownVars, error, submission, doubt>>
    /\ AnswerFrame

\* The request or its answer is lost, or the server refuses.
FailMutation ==
    /\ mutation # Idle
    /\ failures < MaxFailures /\ failures' = failures + 1
    /\ mutation' = Idle
    /\ error' = TRUE
    /\ GiveUp
    /\ doubt' = IF mutation.kind = "optimize" /\ doubt = None THEN submission ELSE doubt
    /\ UNCHANGED <<serverVars, stored, known, version, tracked, shownVars, submission, poll,
                   effects, clicks>>

\* The page is loaded again; only local storage survives.
ReloadPage ==
    /\ Click
    /\ version' = newest /\ known' = newest
    /\ tracked' = None /\ job' = None /\ result' = None
    /\ pollError' = FALSE /\ error' = FALSE
    /\ submission' = None /\ doubt' = None
    /\ mutation' = Idle /\ poll' = NoPoll
    /\ effects' = {"version"}
    /\ GiveUp
    /\ UNCHANGED <<serverVars, stored>>

----------------------------------------------------------------------------

PollStep == ServePoll \/ ReceiveStatus \/ ReceiveResult \/ PollAgain
MutationStep ==
    \/ ServeMutation \/ ReceiveOptimize \/ ReceiveCancel \/ ReceiveRestore
    \/ ReceiveList \/ ReceiveVersion

Next ==
    \/ OthersSubmit \/ OthersStore \/ OthersCancel \/ HandleLate
    \/ \E j \in Jobs : WorkOn(j)
    \/ RunEffects
    \/ PollStep \/ FailPoll
    \/ ClickOptimize \/ ClickCancel \/ ClickOther \/ SelectVersion \/ ReloadPage
    \/ MutationStep \/ FailMutation

Spec == Init /\ [][Next]_vars

(* Callbacks and timers run, the server answers, and it ends its jobs: what  *)
(* QueueDrains and ClaimedJobsEnd show of the job queue.                     *)
FairSpec ==
    /\ Spec
    /\ WF_vars(RunEffects) /\ WF_vars(PollStep) /\ WF_vars(MutationStep)
    /\ \A j \in Jobs :
          /\ WF_vars(Begin(j) /\ PageFrame /\ UNCHANGED <<adrift, boundVars>>)
          /\ WF_vars(End(j) /\ PageFrame /\ UNCHANGED <<adrift, boundVars>>)

----------------------------------------------------------------------------

ShowsTheEnd(j) ==
    /\ job = [id |-> j, status |-> state[j]] /\ ~IsActive(job.status)
    /\ published[j] # 0 => result = [job |-> j, value |-> published[j]]
Stalled == error /\ mutation = Idle /\ (poll = NoPoll \/ ~poll.live)

(* A job that the page follows is shown in its final state and with its final
   result, whatever is lost, delayed or answered in between, unless another is
   followed or the loop stands still under a failed operation that is shown
   (useOperations; only a cancellation that fails stops the loop). *)
FollowedToTheEnd ==
    \A j \in Jobs : (tracked = j) ~> (ShowsTheEnd(j) \/ tracked # j \/ Stalled)

(* An answer that overtook another never takes the status of a job back, so a
   confirmed cancellation is not shown as running again (pollEpoch); restoring
   the same job, and optimizing again, which may find it, are excepted. *)
Progress(status) ==
    CASE status = "QUEUED" -> 1 [] status = "RUNNING" -> 2 [] status = "CANCELLING" -> 3
      [] OTHER -> 4
StatusNeverStepsBack ==
    [][/\ job # None /\ job' # None
       /\ job'.id = job.id
       /\ ({mutation.kind} \cup effects) \cap {"restore", "optimize"} = {}
       => Progress(job'.status) >= Progress(job.status)]_vars

(* Optimizing again after an answer was lost leads to the job that the lost
   request had created, even when that has ended (submission). *)
RetriesFindTheirJob ==
    Answered("optimize") /\ doubt # None /\ names[doubt.key] # None =>
        mutation.answer.id = names[doubt.key]

----------------------------------------------------------------------------

(* JobPanel: "Status updates interrupted: ... Retrying automatically": where it
   says so, a retry is under way that will be applied. *)
InterruptedPollsRetry ==
    pollError /\ mutation = Idle /\ effects = {} => poll # NoPoll /\ poll.live
=============================================================================
