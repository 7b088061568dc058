---------------------------- MODULE JobAdmission ----------------------------
(***************************************************************************)
(* JobService.submit: POSTs that admit background jobs.  A POST is one     *)
(* HTTP request; a client that retries sends another POST with the same    *)
(* key.  SQLite takes no lock for a SELECT (pysqlite opens the transaction *)
(* at the first INSERT), so each SELECT of submit is a step of its own and *)
(* what it read may be stale at the INSERT; from the first INSERT to the   *)
(* COMMIT no other connection writes, so the writes are one step.          *)
(***************************************************************************)
EXTENDS JobRows, FiniteSets

CONSTANTS
  Posts,       \* the POST requests that are ever sent
  Keys,        \* explicit idempotency keys
  Threads,     \* requests served at once: the server's thread pool
  NoKey,       \* a POST without a key (the two legacy routes)
  MaxPending   \* the admission guard: 1000 in the code

ASSUME AdmissionAssumption ==
  /\ NoKey \notin Keys
  /\ IsFiniteSet(Posts)
  /\ Cardinality(Posts) <= MaxJobs     \* a row for every POST's job
  /\ MaxPending \in Nat \ {0}
  /\ Threads \in Nat \ {0}

VARIABLES
  request,   \* optimization_job_requests: what each key is bound to
  post       \* the local variables of submit, per POST, and its answer

admissionVars == <<request, post>>

LegacyKey(i) == <<"legacy", i>>
RequestKeys == Keys \cup {LegacyKey(i) : i \in Inputs}

Unbound == [request_hash |-> NoInput, job |-> NoJob]
Bound(k) == request[k] # Unbound

PostStages == {"unsent", "lookupKey", "lookupActive", "count", "write", "done"}

\* reply is "JOB" with the job in field job, or "REFUSED" for any error; while
\* the POST is in progress job is the active job it found, NoJob if none.
PostStates == [pc : PostStages,
               key : RequestKeys \cup {NoKey},
               input : Inputs \cup {NoInput},
               attempt : {0, 1},
               job : Jobs \cup {NoJob},
               reply : {"NONE", "JOB", "REFUSED"}]

UnsentPost == [pc |-> "unsent", key |-> NoKey, input |-> NoInput,
               attempt |-> 0, job |-> NoJob, reply |-> "NONE"]

AdmissionInit ==
  /\ request = [k \in RequestKeys |-> Unbound]
  /\ post = [p \in Posts |-> UnsentPost]

AdmissionTypeOK ==
  /\ request \in [RequestKeys -> [request_hash : Inputs \cup {NoInput},
                                  job : Jobs \cup {NoJob}]]
  /\ post \in [Posts -> PostStates]

InProgress(p) == post[p].pc \notin {"unsent", "done"}

Refuse(p) ==
  post' = [post EXCEPT ![p] = [UnsentPost EXCEPT !.pc = "done", !.reply = "REFUSED"]]

AnswerJob(p, j) ==
  post' = [post EXCEPT ![p] =
    [@ EXCEPT !.pc = "done", !.job = j, !.reply = "JOB", !.attempt = 0]]

-----------------------------------------------------------------------------

Send(p, k, i) ==
  /\ post[p].pc = "unsent"
  /\ Cardinality({q \in Posts : InProgress(q)}) < Threads
  /\ post' = [post EXCEPT ![p] =
       [@ EXCEPT !.pc = "lookupKey",
                 !.key = IF k = NoKey THEN LegacyKey(i) ELSE k,
                 !.input = i]]
  /\ UNCHANGED <<rowVars, request>>

\* Source missing, import not ready, references or validation not satisfied:
\* raised before the key is looked up, on either attempt.
RefuseInput(p) ==
  /\ post[p].pc = "lookupKey"
  /\ Refuse(p)
  /\ UNCHANGED <<rowVars, request>>

\* Mutant: a bound key answers its job whatever inputs it was bound to.
MutantIgnoreHash(p) ==
  LET prior == request[post[p].key] IN
  /\ post[p].pc = "lookupKey"
  /\ \/ /\ ~Bound(post[p].key)
        /\ post' = [post EXCEPT ![p].pc = "lookupActive"]
     \/ /\ Bound(post[p].key)
        /\ AnswerJob(p, prior.job)
  /\ UNCHANGED <<rowVars, request>>

LookUpKey(p) ==
  LET prior == request[post[p].key] IN
  /\ post[p].pc = "lookupKey"
  /\ \/ /\ ~Bound(post[p].key)
        /\ post' = [post EXCEPT ![p].pc = "lookupActive"]
     \/ /\ Bound(post[p].key)
        /\ prior.request_hash # post[p].input
        /\ Refuse(p)       \* JOB_IDEMPOTENCY_KEY_REUSED
     \/ /\ Bound(post[p].key)
        /\ prior.request_hash = post[p].input
        /\ AnswerJob(p, prior.job)
  /\ UNCHANGED <<rowVars, request>>

Holder(i) == {j \in Jobs : row[j].active_key = i}

LookUpActive(p) ==
  /\ post[p].pc = "lookupActive"
  /\ \/ \E j \in Holder(post[p].input) :
          post' = [post EXCEPT ![p] = [@ EXCEPT !.pc = "write", !.job = j]]
     \/ /\ Holder(post[p].input) = {}
        /\ post' = [post EXCEPT ![p] = [@ EXCEPT !.pc = "count", !.job = NoJob]]
  /\ UNCHANGED <<rowVars, request>>

Pending == {j \in Jobs : row[j].status \in Active}

\* Mutant: off by one.
MutantHasCapacity == Cardinality(Pending) <= MaxPending

HasCapacity == Cardinality(Pending) < MaxPending

CountPending(p) ==
  /\ post[p].pc = "count"
  /\ \/ HasCapacity /\ post' = [post EXCEPT ![p].pc = "write"]
     \/ ~HasCapacity /\ Refuse(p)      \* JOB_QUEUE_FULL
  /\ UNCHANGED <<rowVars, request>>

\* Mutant: the unique constraint on the key is missing.
MutantActiveOnly(p) == post[p].job = NoJob /\ Holder(post[p].input) # {}

\* The two unique constraints the write can hit: the key's primary key, and
\* active_key when it inserts a job.
Clashes(p) ==
  \/ Bound(post[p].key)
  \/ post[p].job = NoJob /\ Holder(post[p].input) # {}

Inserting(p) == post[p].pc = "write" /\ post[p].job = NoJob

\* Rows are numbered in order of created_at, which submit reads before its
\* INSERT waits for the write lock: a request that is overtaken there inserts
\* a row older than one that is already stored.
NextRow(p, j) ==
  /\ ~Exists(j)
  /\ Cardinality({i \in Jobs : i < j /\ ~Exists(i)})
       <= Cardinality({q \in Posts \ {p} : Inserting(q)})

\* A new job (with its snapshot) and its key in one transaction.
InsertJob(p, j) ==
  /\ Inserting(p)
  /\ ~Clashes(p)
  /\ NextRow(p, j)
  /\ row' = [row EXCEPT ![j] = QueuedRow(post[p].input)]
  /\ request' = [request EXCEPT
       ![post[p].key] = [request_hash |-> post[p].input, job |-> j]]
  /\ AnswerJob(p, j)
  /\ UNCHANGED <<runs, intact>>

\* An alias: another key for the job that LookUpActive read.
InsertAlias(p) ==
  /\ post[p].pc = "write"
  /\ post[p].job # NoJob
  /\ ~Clashes(p)
  /\ request' = [request EXCEPT
       ![post[p].key] = [request_hash |-> post[p].input, job |-> post[p].job]]
  /\ AnswerJob(p, post[p].job)
  /\ UNCHANGED rowVars

\* Mutant: the retry repeats the INSERT without reading again.
MutantRetryWrite(p) ==
  /\ post[p].pc = "write"
  /\ Clashes(p)
  /\ post' = [post EXCEPT ![p].attempt = 1]
  /\ UNCHANGED <<rowVars, request>>

\* IntegrityError: everything is rolled back; the first loser starts again.
LoseRace(p) ==
  /\ post[p].pc = "write"
  /\ Clashes(p)
  /\ \/ /\ post[p].attempt = 0
        /\ post' = [post EXCEPT ![p] =
             [@ EXCEPT !.pc = "lookupKey", !.attempt = 1, !.job = NoJob]]
     \/ post[p].attempt = 1 /\ Refuse(p)   \* JOB_ADMISSION_CONFLICT
  /\ UNCHANGED <<rowVars, request>>

\* OperationalError ("database is locked") is not caught by submit.
FailPost(p) ==
  /\ InProgress(p)
  /\ Refuse(p)
  /\ UNCHANGED <<rowVars, request>>

PostStep(p) ==
  \/ RefuseInput(p)
  \/ LookUpKey(p)
  \/ LookUpActive(p)
  \/ CountPending(p)
  \/ \E j \in Jobs : InsertJob(p, j)
  \/ InsertAlias(p)
  \/ LoseRace(p)

AdmissionNext ==
  \/ \E p \in Posts, k \in Keys \cup {NoKey}, i \in Inputs : Send(p, k, i)
  \/ \E p \in Posts : PostStep(p) \/ FailPost(p)

=============================================================================
