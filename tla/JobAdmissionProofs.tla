------------------------- MODULE JobAdmissionProofs -------------------------
(***************************************************************************)
(* Theorems about submit: which job a key names, what a POST is answered,  *)
(* and how far the admission guard can be exceeded, for all values of the  *)
(* constants.                                                              *)
(***************************************************************************)
EXTENDS JobQueueProofs, FiniteSetTheorems

\* A bound key names a job that exists and solves the inputs it was bound to.
KeysNameJobs ==
  \A k \in RequestKeys :
    Bound(k) => LET j == request[k].job IN
                /\ j \in Jobs
                /\ Exists(j)
                /\ row[j].input = request[k].request_hash

\* A POST that counts found no job; the job a POST is about to name, whatever
\* became of it since LookUpActive found it, solves the inputs of the POST.
FoundJobsMatch ==
  \A p \in Posts :
    /\ post[p].pc = "count" => post[p].job = NoJob
    /\ post[p].pc = "write" /\ post[p].job # NoJob =>
         /\ post[p].job \in Jobs
         /\ Exists(post[p].job)
         /\ row[post[p].job].input = post[p].input

\* A POST is answered when it is done, from a key it sent.
AnswersAreFinal ==
  \A p \in Posts :
    post[p].reply = "JOB" =>
      post[p].pc = "done" /\ post[p].key \in RequestKeys /\ post[p].input \in Inputs

NamesOK == KeysNameJobs /\ FoundJobsMatch /\ AnswersAreFinal /\ RepliesAgreeWithKeys

-----------------------------------------------------------------------------
(* What a step can do to the keys.                                         *)

\* Key k, used for the first time, is bound to job j for inputs i.
Binds(k, i, j) ==
  /\ ~Bound(k)
  /\ request' = [request EXCEPT ![k] = [request_hash |-> i, job |-> j]]

\* A key is bound together with the job it creates, or to a job that exists.
RequestStep ==
  \/ request' = request
  \/ \E k \in RequestKeys, i \in Inputs, j \in Jobs : Inserts(j, i) /\ Binds(k, i, j)
  \/ \E k \in RequestKeys, i \in Inputs, j \in Jobs :
       /\ row' = row /\ runs' = runs
       /\ Exists(j) /\ row[j].input = i
       /\ Binds(k, i, j)

LEMMA InsertJobBinds ==
  ASSUME TypeOK, ControlOK, NEW p \in Posts, NEW j \in Jobs, InsertJob(p, j)
  PROVE  /\ post[p].key \in RequestKeys
         /\ post[p].input \in Inputs
         /\ Inserts(j, post[p].input)
         /\ Binds(post[p].key, post[p].input, j)
  <1>1. post[p].key \in RequestKeys /\ post[p].input \in Inputs
    BY DEF InsertJob, Inserting, ControlOK, PostControlOK, InProgress
  <1> QED
    BY <1>1 DEF InsertJob, Inserting, Inserts, NextRow, Exists, Clashes, Binds

LEMMA InsertAliasBinds ==
  ASSUME TypeOK, ControlOK, FoundJobsMatch, NEW p \in Posts, InsertAlias(p)
  PROVE  /\ post[p].key \in RequestKeys
         /\ post[p].input \in Inputs
         /\ post[p].job \in Jobs
         /\ Exists(post[p].job)
         /\ row[post[p].job].input = post[p].input
         /\ row' = row /\ runs' = runs
         /\ Binds(post[p].key, post[p].input, post[p].job)
  <1>1. post[p].key \in RequestKeys /\ post[p].input \in Inputs
    BY DEF InsertAlias, ControlOK, PostControlOK, InProgress
  <1> QED
    BY <1>1 DEF InsertAlias, FoundJobsMatch, Clashes, Binds, rowVars

LEMMA StepIsRequestStep ==
  ASSUME TypeOK, ControlOK, FoundJobsMatch, [Next]_vars
  PROVE  RequestStep
  <1>1. ASSUME NEW p \in Posts, NEW j \in Jobs, InsertJob(p, j) PROVE RequestStep
    BY <1>1, InsertJobBinds DEF RequestStep
  <1>2. ASSUME NEW p \in Posts, InsertAlias(p) PROVE RequestStep
    BY <1>2, InsertAliasBinds DEF RequestStep
  <1>3. ASSUME NEW p \in Posts,
               \/ RefuseInput(p) \/ LookUpKey(p) \/ LookUpActive(p)
               \/ CountPending(p) \/ LoseRace(p) \/ FailPost(p)
               \/ \E k \in Keys \cup {NoKey}, i \in Inputs : Send(p, k, i)
        PROVE  RequestStep
    BY <1>3 DEF RefuseInput, LookUpKey, LookUpActive, CountPending, LoseRace, FailPost,
       Send, RequestStep
  <1>4. CASE UNCHANGED admissionVars
    BY <1>4 DEF admissionVars, RequestStep
  <1> QED
    BY <1>1, <1>2, <1>3, <1>4 DEF Next, vars, AdmissionNext, PostStep

\* A row, once inserted, stays and keeps the inputs it solves.
LEMMA ExistingRowStays ==
  ASSUME row \in [Jobs -> Rows], RowStep, NEW k \in Jobs, Exists(k)
  PROVE  Exists(k)' /\ row'[k].input = row[k].input
  <1>1. ASSUME NEW j \in Jobs, NEW i \in Inputs, Inserts(j, i)
        PROVE  Exists(k)' /\ row'[k].input = row[k].input
    BY <1>1 DEF Inserts, Exists
  <1>2. ASSUME NEW j \in Jobs, NEW t \in Nat, Claims(j, t)
        PROVE  Exists(k)' /\ row'[k].input = row[k].input
    BY <1>2 DEF Claims, ClaimedRow, Exists, Rows
  <1>3. ASSUME NEW j \in Jobs, Cancels(j)
        PROVE  Exists(k)' /\ row'[k].input = row[k].input
    BY <1>3 DEF Cancels, CancelledRow, Exists, Rows
  <1>4. ASSUME NEW j \in Jobs, NEW c \in Results, Checkpoints(j, c)
        PROVE  Exists(k)' /\ row'[k].input = row[k].input
    BY <1>4 DEF Checkpoints, CheckpointedRow, Exists, Rows
  <1>5. ASSUME NEW j \in Jobs, NEW s \in Terminal, NEW c \in Results, NEW e \in ErrorCodes,
               Finishes(j, s, c, e)
        PROVE  Exists(k)' /\ row'[k].input = row[k].input
    BY <1>5 DEF Finishes, FinishedRow, StoredStatus, Terminal, Exists, Rows
  <1> QED
    BY <1>1, <1>2, <1>3, <1>4, <1>5 DEF RowStep, Exists

LEMMA InsertedRow ==
  ASSUME row \in [Jobs -> Rows], NEW j \in Jobs, NEW i \in Inputs, Inserts(j, i)
  PROVE  Exists(j)' /\ row'[j].input = i
  BY DEF Inserts, QueuedRow, AbsentRow, Exists

\* A bound key stays bound to the same job for the same inputs.
LEMMA BoundKeyStays ==
  ASSUME AdmissionTypeOK, RequestStep, NEW k \in RequestKeys, Bound(k)
  PROVE  Bound(k)' /\ request'[k] = request[k]
  BY DEF AdmissionTypeOK, RequestStep, Binds, Bound

LEMMA KeysNameJobsStep ==
  ASSUME TypeOK, RowStep, RequestStep, KeysNameJobs
  PROVE  KeysNameJobs'
  <1>0. row \in [Jobs -> Rows] /\ AdmissionTypeOK
    BY DEF TypeOK, RowTypeOK
  <1>1. ASSUME NEW k \in RequestKeys, Bound(k)
        PROVE  LET j == request'[k].job IN
               /\ j \in Jobs /\ row'[j].status # "ABSENT"
               /\ row'[j].input = request'[k].request_hash
    BY <1>0, <1>1, BoundKeyStays, ExistingRowStays DEF KeysNameJobs, Exists
  <1>2. ASSUME NEW k \in RequestKeys, NEW i \in Inputs, NEW j \in Jobs, Binds(k, i, j),
               \/ Inserts(j, i)
               \/ row' = row /\ Exists(j) /\ row[j].input = i
        PROVE  KeysNameJobs'
    <2>1. row'[j].status # "ABSENT" /\ row'[j].input = i
      BY <1>0, <1>2, InsertedRow DEF Exists
    <2>2. request'[k] = [request_hash |-> i, job |-> j]
      BY <1>0, <1>2 DEF AdmissionTypeOK, Binds
    <2>3. \A l \in RequestKeys : l # k => request'[l] = request[l]
      BY <1>0, <1>2 DEF AdmissionTypeOK, Binds
    <2>4. ASSUME NEW l \in RequestKeys, request'[l] # Unbound
          PROVE  LET o == request'[l].job IN
                 /\ o \in Jobs /\ row'[o].status # "ABSENT"
                 /\ row'[o].input = request'[l].request_hash
      <3>1. CASE l = k
        BY <2>1, <2>2, <3>1
      <3>2. CASE l # k
        BY <1>1, <2>3, <2>4, <3>2 DEF Bound, Exists
      <3> QED
        BY <3>1, <3>2
    <2> QED
      BY <2>4 DEF KeysNameJobs, Bound, Exists, Unbound
  <1>3. CASE request' = request
    BY <1>1, <1>3 DEF KeysNameJobs, Bound, Exists, Unbound
  <1> QED
    BY <1>2, <1>3 DEF RequestStep

-----------------------------------------------------------------------------
(* What a POST believes.                                                   *)

\* The facts of FoundJobsMatch, AnswersAreFinal and RepliesAgreeWithKeys about
\* one record of a POST's variables.
RecordOK(q, rows, names) ==
  /\ q.pc = "count" => q.job = NoJob
  /\ q.pc = "write" /\ q.job # NoJob =>
       q.job \in Jobs /\ rows[q.job].status # "ABSENT" /\ rows[q.job].input = q.input
  /\ q.reply = "JOB" =>
       /\ q.pc = "done" /\ q.key \in RequestKeys /\ q.input \in Inputs
       /\ names[q.key] = [request_hash |-> q.input, job |-> q.job]
       /\ rows[q.job].input = q.input

LEMMA RecordsOK ==
  NamesOK <=> KeysNameJobs /\ \A p \in Posts : RecordOK(post[p], row, request)
  BY DEF NamesOK, FoundJobsMatch, AnswersAreFinal, RepliesAgreeWithKeys, RecordOK, Exists

\* What a record says stays true while the tables move on under it.
LEMMA RecordStays ==
  ASSUME TypeOK, RowStep, RequestStep, KeysNameJobs, NEW q, RecordOK(q, row, request)
  PROVE  RecordOK(q, row', request')
  <1>0. row \in [Jobs -> Rows] /\ AdmissionTypeOK
    BY DEF TypeOK, RowTypeOK
  <1>1. ASSUME q.pc = "write", q.job # NoJob
        PROVE  q.job \in Jobs /\ row'[q.job].status # "ABSENT" /\ row'[q.job].input = q.input
    BY <1>0, <1>1, ExistingRowStays DEF RecordOK, Exists
  <1>2. ASSUME q.reply = "JOB"
        PROVE  /\ q.pc = "done" /\ q.key \in RequestKeys /\ q.input \in Inputs
               /\ request'[q.key] = [request_hash |-> q.input, job |-> q.job]
               /\ row'[q.job].input = q.input
    <2>1. /\ q.pc = "done" /\ q.key \in RequestKeys /\ q.input \in Inputs
          /\ request[q.key] = [request_hash |-> q.input, job |-> q.job]
          /\ row[q.job].input = q.input
      BY <1>2 DEF RecordOK
    <2>2. Bound(q.key)
      BY <2>1, RowAssumption DEF RowAssumption, Bound, Unbound
    <2>3. q.job \in Jobs /\ Exists(q.job)
      BY <2>1, <2>2 DEF KeysNameJobs
    <2> QED
      BY <1>0, <2>1, <2>2, <2>3, BoundKeyStays, ExistingRowStays
  <1> QED
    BY <1>1, <1>2 DEF RecordOK

\* One POST gets a new record, the others keep theirs.
LEMMA RecordUpdate ==
  ASSUME TypeOK, RowStep, RequestStep, NamesOK, NEW p \in Posts, NEW q,
         post' = [post EXCEPT ![p] = q], RecordOK(q, row', request')
  PROVE  NamesOK'
  <1>1. KeysNameJobs'
    BY KeysNameJobsStep DEF NamesOK
  <1>2. \A o \in Posts : RecordOK(post[o], row, request)
    BY RecordsOK
  <1>3. ASSUME NEW o \in Posts PROVE RecordOK(post'[o], row', request')
    <2>1. post'[p] = q /\ (o # p => post'[o] = post[o])
      BY DEF TypeOK, AdmissionTypeOK
    <2> QED
      BY <1>2, <2>1, RecordStays DEF NamesOK
  <1> QED
    BY <1>1, <1>3 DEF NamesOK, FoundJobsMatch, AnswersAreFinal, RepliesAgreeWithKeys, RecordOK, Exists

\* A refusal answers no job.
LEMMA RefusedRecord ==
  RecordOK([UnsentPost EXCEPT !.pc = "done", !.reply = "REFUSED"], row', request')
  BY DEF UnsentPost, RecordOK

LEMMA NamesStep ==
  ASSUME TypeOK, ControlOK, OneActiveJobPerInput, NamesOK, [Next]_vars
  PROVE  NamesOK'
  <1>0. /\ RowStep
        /\ RequestStep
        /\ post \in [Posts -> PostStates]
        /\ \A p \in Posts : RecordOK(post[p], row, request)
    BY StepIsRowStep, StepIsRequestStep, RecordsOK DEF NamesOK, TypeOK, AdmissionTypeOK
  <1>1. ASSUME NEW p \in Posts, Refuse(p) PROVE NamesOK'
    BY <1>0, <1>1, RefusedRecord, RecordUpdate DEF Refuse
  \* A record that is not written and not answered claims nothing.
  <1>2. ASSUME NEW p \in Posts, NEW q, post' = [post EXCEPT ![p] = q],
               q.pc \in {"count", "write"} => q.job = NoJob, q.reply # "JOB"
        PROVE  NamesOK'
    <2>1. RecordOK(q, row', request')
      BY <1>2 DEF RecordOK
    <2> QED
      BY <1>0, <1>2, <2>1, RecordUpdate
  <1>3. ASSUME NEW p \in Posts, post[p].pc # "done" PROVE post[p].reply # "JOB"
    BY <1>0, <1>3 DEF RecordOK
  <1>4. ASSUME NEW p \in Posts, NEW k \in Keys \cup {NoKey}, NEW i \in Inputs, Send(p, k, i)
        PROVE  NamesOK'
    <2> DEFINE q == [post[p] EXCEPT !.pc = "lookupKey",
                                    !.key = IF k = NoKey THEN LegacyKey(i) ELSE k,
                                    !.input = i]
    <2>1. q.pc \notin {"count", "write"} /\ q.reply # "JOB"
      BY <1>0, <1>3, <1>4 DEF Send, PostStates
    <2> QED
      BY <1>2, <1>4, <2>1 DEF Send
  <1>5. ASSUME NEW p \in Posts, LookUpKey(p) PROVE NamesOK'
    <2>1. /\ post[p].key \in RequestKeys
          /\ post[p].input \in Inputs
          /\ post[p].reply # "JOB"
      BY <1>3, <1>5 DEF LookUpKey, ControlOK, PostControlOK, InProgress
    <2>2. CASE post' = [post EXCEPT ![p].pc = "lookupActive"]
      <3> DEFINE q == [post[p] EXCEPT !.pc = "lookupActive"]
      <3>1. q.pc \notin {"count", "write"} /\ q.reply # "JOB" /\ post' = [post EXCEPT ![p] = q]
        BY <1>0, <2>1, <2>2 DEF PostStates
      <3> QED
        BY <1>2, <3>1
    <2>3. CASE /\ Bound(post[p].key)
               /\ request[post[p].key].request_hash = post[p].input
               /\ AnswerJob(p, request[post[p].key].job)
      <3> DEFINE j == request[post[p].key].job
                 q == [post[p] EXCEPT !.pc = "done", !.job = j, !.reply = "JOB", !.attempt = 0]
      <3>1. /\ request' = request /\ row' = row
            /\ row[j].input = post[p].input
        BY <1>5, <2>1, <2>3 DEF LookUpKey, rowVars, NamesOK, KeysNameJobs
      <3>2. request[post[p].key] = [request_hash |-> post[p].input, job |-> j]
        BY <2>1, <2>3 DEF TypeOK, AdmissionTypeOK
      <3>3. /\ q.pc = "done" /\ q.key = post[p].key /\ q.input = post[p].input
            /\ q.job = j
        BY <1>0 DEF PostStates
      <3>4. RecordOK(q, row', request')
        BY <2>1, <3>1, <3>2, <3>3 DEF RecordOK
      <3> QED
        BY <1>0, <2>3, <3>4, RecordUpdate DEF AnswerJob
    <2> QED
      BY <1>1, <1>5, <2>2, <2>3 DEF LookUpKey

  <1>6. ASSUME NEW p \in Posts, LookUpActive(p) PROVE NamesOK'
    <2>1. /\ post[p].input \in Inputs /\ post[p].reply # "JOB"
          /\ row' = row /\ request' = request
      BY <1>3, <1>6 DEF LookUpActive, ControlOK, PostControlOK, InProgress, rowVars
    <2>2. ASSUME NEW j \in Holder(post[p].input),
                 post' = [post EXCEPT ![p] = [@ EXCEPT !.pc = "write", !.job = j]]
          PROVE  NamesOK'
      <3> DEFINE q == [post[p] EXCEPT !.pc = "write", !.job = j]
      <3>1. j \in Jobs /\ row[j].active_key = post[p].input
        BY DEF Holder
      <3>2. row[j].status \in Active /\ row[j].input = post[p].input
        BY <2>1, <3>1, RowAssumption DEF RowAssumption, OneActiveJobPerInput
      <3>3. row[j].status # "ABSENT"
        BY <3>2 DEF Active, Waiting, Claimed
      <3>4. q.job = j /\ q.input = post[p].input /\ q.reply # "JOB"
        BY <1>0, <2>1 DEF PostStates
      <3>5. RecordOK(q, row', request')
        BY <2>1, <3>1, <3>2, <3>3, <3>4 DEF RecordOK
      <3> QED
        BY <1>0, <2>2, <3>5, RecordUpdate
    <2>3. CASE post' = [post EXCEPT ![p] = [@ EXCEPT !.pc = "count", !.job = NoJob]]
      <3> DEFINE q == [post[p] EXCEPT !.pc = "count", !.job = NoJob]
      <3>1. q.job = NoJob /\ q.reply # "JOB"
        BY <1>0, <2>1 DEF PostStates
      <3> QED
        BY <1>2, <2>3, <3>1
    <2> QED
      BY <1>6, <2>2, <2>3 DEF LookUpActive
  <1>7. ASSUME NEW p \in Posts, CountPending(p) PROVE NamesOK'
    <2>1. CASE post' = [post EXCEPT ![p].pc = "write"]
      <3> DEFINE q == [post[p] EXCEPT !.pc = "write"]
      <3>1. q.job = NoJob /\ q.reply # "JOB" /\ post' = [post EXCEPT ![p] = q]
        BY <1>0, <1>3, <1>7, <2>1 DEF CountPending, PostStates, RecordOK
      <3> QED
        BY <1>2, <3>1
    <2> QED
      BY <1>1, <1>7, <2>1 DEF CountPending
  \* An answer that the tables of this very step agree with.
  <1>8. ASSUME NEW p \in Posts, NEW j \in Jobs,
               post[p].key \in RequestKeys, post[p].input \in Inputs,
               row'[j].input = post[p].input,
               Binds(post[p].key, post[p].input, j), AnswerJob(p, j)
        PROVE  NamesOK'
    <2> DEFINE q == [post[p] EXCEPT !.pc = "done", !.job = j, !.reply = "JOB", !.attempt = 0]
    <2>1. /\ q.pc = "done" /\ q.key = post[p].key /\ q.input = post[p].input
          /\ q.job = j
      BY <1>0 DEF PostStates
    <2>2. request'[post[p].key] = [request_hash |-> post[p].input, job |-> j]
      BY <1>8 DEF Binds, TypeOK, AdmissionTypeOK
    <2>3. RecordOK(q, row', request')
      BY <1>8, <2>1, <2>2 DEF RecordOK
    <2> QED
      BY <1>0, <1>8, <2>3, RecordUpdate DEF AnswerJob
  <1>9. ASSUME NEW p \in Posts, NEW j \in Jobs, InsertJob(p, j) PROVE NamesOK'
    <2>1. row'[j].input = post[p].input
      BY <1>9, InsertJobBinds, InsertedRow DEF TypeOK, RowTypeOK
    <2> QED
      BY <1>8, <1>9, <2>1, InsertJobBinds DEF InsertJob
  <1>10. ASSUME NEW p \in Posts, InsertAlias(p) PROVE NamesOK'
    BY <1>8, <1>10, InsertAliasBinds DEF InsertAlias, NamesOK
  <1>11. ASSUME NEW p \in Posts, LoseRace(p) PROVE NamesOK'
    <2>1. CASE post' = [post EXCEPT ![p] =
                 [@ EXCEPT !.pc = "lookupKey", !.attempt = 1, !.job = NoJob]]
      <3> DEFINE q == [post[p] EXCEPT !.pc = "lookupKey", !.attempt = 1, !.job = NoJob]
      <3>1. q.pc \notin {"count", "write"} /\ q.reply # "JOB"
        BY <1>0, <1>3, <1>11 DEF LoseRace, PostStates
      <3> QED
        BY <1>2, <2>1, <3>1
    <2> QED
      BY <1>1, <1>11, <2>1 DEF LoseRace
  <1>12. ASSUME NEW p \in Posts, RefuseInput(p) \/ FailPost(p) PROVE NamesOK'
    BY <1>1, <1>12 DEF RefuseInput, FailPost
  <1>13. CASE UNCHANGED admissionVars
    <2>1. KeysNameJobs'
      BY <1>0, KeysNameJobsStep DEF NamesOK
    <2>2. \A p \in Posts : RecordOK(post[p], row', request')
      BY <1>0, RecordStays DEF NamesOK
    <2>3. post' = post
      BY <1>13 DEF admissionVars
    <2> QED
      BY <2>1, <2>2, <2>3
      DEF NamesOK, FoundJobsMatch, AnswersAreFinal, RepliesAgreeWithKeys, RecordOK, Exists
  <1> QED
    BY <1>4, <1>5, <1>6, <1>7, <1>9, <1>10, <1>11, <1>12, <1>13
    DEF Next, vars, AdmissionNext, PostStep

LEMMA NamesInvariant == Spec => []NamesOK
  <1>1. Init => NamesOK
    BY DEF Init, AdmissionInit, NamesOK, KeysNameJobs, FoundJobsMatch, AnswersAreFinal,
       RepliesAgreeWithKeys, UnsentPost, Bound
  <1>2. TypeOK /\ ControlOK /\ OneActiveJobPerInput /\ NamesOK /\ [Next]_vars => NamesOK'
    BY NamesStep
  <1> QED
    BY <1>1, <1>2, TypeControl, OneActive, PTL DEF Spec

\* A POST is never answered with a job its key is not bound to, nor with one
\* that solves other inputs, for any number of requests, keys and inputs: the
\* reads of submit may be stale, but a job that was found active keeps its
\* inputs, and a bound key its job.
THEOREM RepliesAgree == Spec => []RepliesAgreeWithKeys
  <1>1. NamesOK => RepliesAgreeWithKeys
    BY DEF NamesOK
  <1> QED
    BY <1>1, NamesInvariant, PTL

-----------------------------------------------------------------------------
(* The capacity guard.                                                     *)

Served == {q \in Posts : InProgress(q)}
Insertions == {q \in Posts : Inserting(q)}

\* SoftCapacity is not inductive: every POST that passed the guard and has not
\* inserted yet counts as well.  Each of them occupies a thread.
CapacityOK ==
  /\ Cardinality(Served) <= Threads
  /\ Cardinality(Pending) + Cardinality(Insertions) < MaxPending + Threads

LEMMA CapacitySetsFinite ==
  /\ \A S \in SUBSET Jobs : IsFiniteSet(S) /\ Cardinality(S) \in Nat
  /\ \A S \in SUBSET Posts : IsFiniteSet(S) /\ Cardinality(S) \in Nat
  <1>1. IsFiniteSet(Jobs)
    BY FS_Interval, RowAssumption DEF RowAssumption, Jobs
  <1>2. IsFiniteSet(Posts)
    BY AdmissionAssumption DEF AdmissionAssumption
  <1> QED
    BY <1>1, <1>2, FS_Subset, FS_CardinalityType

LEMMA PendingServiceStep ==
  ASSUME row \in [Jobs -> Rows], ServiceStep PROVE Pending' \subseteq Pending
  <1> SUFFICES ASSUME NEW k \in Jobs, row'[k].status \in Active
               PROVE  row[k].status \in Active
    BY DEF Pending
  <1>1. ASSUME NEW j \in Jobs, NEW t \in Nat, Claims(j, t) PROVE row[k].status \in Active
    BY <1>1 DEF Claims, Active, Waiting
  <1>2. ASSUME NEW j \in Jobs, Cancels(j) PROVE row[k].status \in Active
    BY <1>2 DEF Cancels, CancelledRow, Active, Waiting, Claimed, Rows
  <1>3. ASSUME NEW j \in Jobs, NEW c \in Results, Checkpoints(j, c)
        PROVE  row[k].status \in Active
    BY <1>3 DEF Checkpoints, Active
  <1>4. ASSUME NEW j \in Jobs, NEW s \in Terminal, NEW c \in Results, NEW e \in ErrorCodes,
               Finishes(j, s, c, e)
        PROVE  row[k].status \in Active
    BY <1>4 DEF Finishes, Active
  <1> QED
    BY <1>1, <1>2, <1>3, <1>4 DEF ServiceStep

\* No new row, no new insertion under way, no new request.
LEMMA CapacityStays ==
  ASSUME CapacityOK, Pending' \subseteq Pending, Insertions' \subseteq Insertions,
         Served' \subseteq Served
  PROVE  CapacityOK'
  <1>1. /\ Pending \in SUBSET Jobs
        /\ Served \in SUBSET Posts /\ Insertions \in SUBSET Posts
    BY DEF Pending, Served, Insertions
  <1>2. /\ Cardinality(Pending') <= Cardinality(Pending)
        /\ Cardinality(Insertions') <= Cardinality(Insertions)
        /\ Cardinality(Served') <= Cardinality(Served)
    BY <1>1, CapacitySetsFinite, FS_Subset
  <1>3. /\ Cardinality(Pending) \in Nat /\ Cardinality(Pending') \in Nat
        /\ Cardinality(Insertions) \in Nat /\ Cardinality(Insertions') \in Nat
        /\ Cardinality(Served) \in Nat /\ Cardinality(Served') \in Nat
    BY <1>1, CapacitySetsFinite
  <1> QED
    BY <1>2, <1>3, AdmissionAssumption DEF CapacityOK, AdmissionAssumption

LEMMA CapacityStep ==
  ASSUME TypeOK, ControlOK, CapacityOK, [Next]_vars PROVE CapacityOK'
  <1>0. /\ row \in [Jobs -> Rows]
        /\ post \in [Posts -> PostStates]
        /\ MaxPending \in Nat /\ Threads \in Nat
    BY AdmissionAssumption DEF AdmissionAssumption, TypeOK, RowTypeOK, AdmissionTypeOK
  <1>1. /\ Pending \in SUBSET Jobs /\ Pending' \in SUBSET Jobs
        /\ Served \in SUBSET Posts /\ Served' \in SUBSET Posts
        /\ Insertions \in SUBSET Posts /\ Insertions' \in SUBSET Posts
    BY DEF Pending, Served, Insertions
  <1>2. /\ Cardinality(Pending) \in Nat /\ Cardinality(Pending') \in Nat
        /\ Cardinality(Insertions) \in Nat /\ Cardinality(Insertions') \in Nat
        /\ Cardinality(Served) \in Nat /\ Cardinality(Served') \in Nat
    BY <1>1, CapacitySetsFinite
  <1>3. ASSUME row' = row, NEW p \in Posts, NEW q, post' = [post EXCEPT ![p] = q],
               q.pc \notin {"unsent", "done"} => InProgress(p),
               q.pc = "write" => q.job # NoJob
        PROVE  CapacityOK'
    <2>1. Pending' \subseteq Pending
      BY <1>3 DEF Pending
    <2>2. Insertions' \subseteq Insertions
      BY <1>0, <1>3 DEF Insertions, Inserting
    <2>3. Served' \subseteq Served
      BY <1>0, <1>3 DEF Served, InProgress
    <2> QED
      BY <2>1, <2>2, <2>3, CapacityStays
  <1>4. ASSUME NEW p \in Posts, row' = row, Refuse(p) PROVE CapacityOK'
    <2> DEFINE q == [UnsentPost EXCEPT !.pc = "done", !.reply = "REFUSED"]
    <2>1. q.pc = "done"
      BY DEF UnsentPost
    <2> QED
      BY <1>3, <1>4, <2>1 DEF Refuse
  <1>5. ASSUME NEW p \in Posts, NEW j, row' = row, AnswerJob(p, j) PROVE CapacityOK'
    <2> DEFINE q == [post[p] EXCEPT !.pc = "done", !.job = j, !.reply = "JOB", !.attempt = 0]
    <2>1. q.pc = "done"
      BY <1>0 DEF PostStates
    <2> QED
      BY <1>3, <1>5, <2>1 DEF AnswerJob
  <1>6. ASSUME NEW p \in Posts, NEW k \in Keys \cup {NoKey}, NEW i \in Inputs, Send(p, k, i)
        PROVE  CapacityOK'
    <2>1. Pending' = Pending
      BY <1>6 DEF Send, rowVars, Pending
    <2>2. Insertions' \subseteq Insertions
      BY <1>0, <1>6 DEF Send, Insertions, Inserting, PostStates
    <2>3. Served' \subseteq Served \cup {p} /\ Cardinality(Served) < Threads
      BY <1>0, <1>6 DEF Send, Served, InProgress
    <2>4. Cardinality(Served') <= Cardinality(Served) + 1
      <3>1. IsFiniteSet(Served) /\ IsFiniteSet(Served \cup {p})
        BY <1>1, CapacitySetsFinite, FS_AddElement
      <3>2. Cardinality(Served') <= Cardinality(Served \cup {p})
        BY <2>3, <3>1, FS_Subset
      <3>3. Cardinality(Served \cup {p}) <= Cardinality(Served) + 1
        BY <1>2, <3>1, FS_AddElement
      <3>4. Cardinality(Served \cup {p}) \in Nat
        BY <3>1, FS_CardinalityType
      <3> QED
        BY <1>2, <3>2, <3>3, <3>4
    <2>5. Cardinality(Insertions') <= Cardinality(Insertions)
      BY <1>1, <2>2, CapacitySetsFinite, FS_Subset
    <2> QED
      BY <1>0, <1>2, <2>1, <2>3, <2>4, <2>5 DEF CapacityOK
  <1>7. ASSUME NEW p \in Posts, LookUpKey(p) PROVE CapacityOK'
    <2>1. CASE post' = [post EXCEPT ![p].pc = "lookupActive"]
      <3> DEFINE q == [post[p] EXCEPT !.pc = "lookupActive"]
      <3>1. q.pc = "lookupActive" /\ post' = [post EXCEPT ![p] = q]
        BY <1>0, <2>1 DEF PostStates
      <3> QED
        BY <1>3, <1>7, <3>1 DEF LookUpKey, rowVars, InProgress
    <2> QED
      BY <1>4, <1>5, <1>7, <2>1 DEF LookUpKey, rowVars
  <1>8. ASSUME NEW p \in Posts, LookUpActive(p) PROVE CapacityOK'
    <2>1. ASSUME NEW pc, NEW j,
                 pc = "count" \/ j # NoJob,
                 post' = [post EXCEPT ![p] = [@ EXCEPT !.pc = pc, !.job = j]]
          PROVE  CapacityOK'
      <3> DEFINE q == [post[p] EXCEPT !.pc = pc, !.job = j]
      <3>1. q.pc = pc /\ q.job = j
        BY <1>0 DEF PostStates
      <3>2. row' = row /\ InProgress(p)
        BY <1>8 DEF LookUpActive, rowVars, InProgress
      <3> QED
        BY <1>3, <2>1, <3>1, <3>2
    <2>2. \A j \in Holder(post[p].input) : j # NoJob
      BY RowAssumption DEF RowAssumption, Holder, Jobs, NoJob
    <2>3. ASSUME NEW j \in Holder(post[p].input),
                 post' = [post EXCEPT ![p] = [@ EXCEPT !.pc = "write", !.job = j]]
          PROVE  CapacityOK'
      BY <2>1, <2>2, <2>3
    <2>4. CASE post' = [post EXCEPT ![p] = [@ EXCEPT !.pc = "count", !.job = NoJob]]
      BY <2>1, <2>4
    <2> QED
      BY <1>8, <2>3, <2>4 DEF LookUpActive
  <1>9. ASSUME NEW p \in Posts, CountPending(p) PROVE CapacityOK'
    <2>1. CASE HasCapacity /\ post' = [post EXCEPT ![p].pc = "write"]
      <3>1. Pending' = Pending /\ Cardinality(Pending) < MaxPending
        BY <1>9, <2>1 DEF CountPending, rowVars, Pending, HasCapacity
      <3>2. Served' \subseteq Served /\ Insertions' \subseteq Served'
        BY <1>0, <1>9, <2>1
        DEF CountPending, Served, Insertions, Inserting, InProgress, PostStates
      <3>3. /\ Cardinality(Served') <= Cardinality(Served)
            /\ Cardinality(Insertions') <= Cardinality(Served')
        BY <1>1, <3>2, CapacitySetsFinite, FS_Subset
      <3> QED
        BY <1>0, <1>2, <3>1, <3>3 DEF CapacityOK
    <2> QED
      BY <1>4, <1>9, <2>1 DEF CountPending, rowVars
  <1>10. ASSUME NEW p \in Posts, NEW j \in Jobs, InsertJob(p, j) PROVE CapacityOK'
    <2>1. row' = [row EXCEPT ![j] = QueuedRow(post[p].input)] /\ AnswerJob(p, j)
      BY <1>10 DEF InsertJob
    <2>2. Pending' \subseteq Pending \cup {j}
      BY <1>0, <2>1 DEF Pending
    <2>3. p \in Insertions /\ Insertions' \subseteq Insertions \ {p}
      BY <1>0, <1>10, <2>1 DEF InsertJob, AnswerJob, Insertions, Inserting, PostStates
    <2>4. Served' \subseteq Served
      BY <1>0, <2>1 DEF AnswerJob, Served, InProgress, PostStates
    <2>5. /\ IsFiniteSet(Pending) /\ IsFiniteSet(Pending \cup {j})
          /\ IsFiniteSet(Insertions) /\ IsFiniteSet(Insertions \ {p})
      BY <1>1, CapacitySetsFinite, FS_AddElement, FS_RemoveElement
    <2>6. /\ Cardinality(Pending \cup {j}) <= Cardinality(Pending) + 1
          /\ Cardinality(Insertions \ {p}) = Cardinality(Insertions) - 1
          /\ Cardinality(Pending \cup {j}) \in Nat /\ Cardinality(Insertions \ {p}) \in Nat
      BY <1>2, <2>3, <2>5, FS_AddElement, FS_RemoveElement, FS_CardinalityType
    <2>7. /\ Cardinality(Pending') <= Cardinality(Pending \cup {j})
          /\ Cardinality(Insertions') <= Cardinality(Insertions \ {p})
      BY <2>2, <2>3, <2>5, FS_Subset
    <2>8. Cardinality(Served') <= Cardinality(Served)
      BY <1>1, <2>4, CapacitySetsFinite, FS_Subset
    <2> QED
      BY <1>0, <1>2, <2>6, <2>7, <2>8 DEF CapacityOK
  <1>11. ASSUME NEW p \in Posts, InsertAlias(p) PROVE CapacityOK'
    BY <1>5, <1>11 DEF InsertAlias, rowVars
  <1>12. ASSUME NEW p \in Posts, LoseRace(p) PROVE CapacityOK'
    <2>1. CASE post' = [post EXCEPT ![p] =
                 [@ EXCEPT !.pc = "lookupKey", !.attempt = 1, !.job = NoJob]]
      <3> DEFINE q == [post[p] EXCEPT !.pc = "lookupKey", !.attempt = 1, !.job = NoJob]
      <3>1. q.pc = "lookupKey"
        BY <1>0 DEF PostStates
      <3> QED
        BY <1>3, <1>12, <2>1, <3>1 DEF LoseRace, rowVars, InProgress
    <2> QED
      BY <1>4, <1>12, <2>1 DEF LoseRace, rowVars
  <1>13. ASSUME NEW p \in Posts, RefuseInput(p) \/ FailPost(p) PROVE CapacityOK'
    BY <1>4, <1>13 DEF RefuseInput, FailPost, rowVars
  <1>14. CASE UNCHANGED admissionVars /\ (ServiceStep \/ row' = row)
    <2>1. Pending' \subseteq Pending
      BY <1>0, <1>14, PendingServiceStep DEF Pending
    <2>2. Insertions' \subseteq Insertions /\ Served' \subseteq Served
      BY <1>14 DEF admissionVars, Insertions, Inserting, Served, InProgress
    <2> QED
      BY <2>1, <2>2, CapacityStays
  <1> QED
    BY <1>6, <1>7, <1>8, <1>9, <1>10, <1>11, <1>12, <1>13, <1>14, WorkerServiceStep,
       CancelServiceStep
    DEF Next, vars, rowVars, AdmissionNext, PostStep

\* The guard of 1000 outstanding jobs is exceeded by fewer jobs than requests
\* are served at once, for any number of requests that count at the same time.
THEOREM CapacitySoft == Spec => []SoftCapacity
  <1>1. Init => CapacityOK
    <2> SUFFICES ASSUME Init PROVE CapacityOK
      OBVIOUS
    <2>1. Pending = {} /\ Served = {} /\ Insertions = {}
      BY DEF Init, RowInit, AdmissionInit, Pending, Served, Insertions, InProgress, Inserting,
         AbsentRow, UnsentPost, Active, Waiting, Claimed
    <2> QED
      BY <2>1, FS_EmptySet, AdmissionAssumption DEF CapacityOK, AdmissionAssumption
  <1>2. TypeOK /\ ControlOK /\ CapacityOK /\ [Next]_vars => CapacityOK'
    BY CapacityStep
  <1>3. CapacityOK => SoftCapacity
    <2>1. Cardinality(Pending) \in Nat /\ Cardinality(Insertions) \in Nat
      BY CapacitySetsFinite DEF Pending, Insertions
    <2> QED
      BY <2>1, AdmissionAssumption DEF CapacityOK, SoftCapacity, AdmissionAssumption
  <1> QED
    BY <1>1, <1>2, <1>3, TypeControl, PTL DEF Spec

=============================================================================
