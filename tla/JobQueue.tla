------------------------------ MODULE JobQueue ------------------------------
(***************************************************************************)
(* The background-job system: POSTs that admit jobs, clients that cancel   *)
(* them, supervisors that execute them, over the shared tables.            *)
(***************************************************************************)
EXTENDS JobAdmission, LocalWorker

vars == <<rowVars, admissionVars, workerVars>>

Init == RowInit /\ AdmissionInit /\ WorkerInit

Next ==
  \/ AdmissionNext /\ UNCHANGED workerVars
  \/ (\E j \in Jobs : CancelJob(j)) /\ UNCHANGED <<admissionVars, workerVars>>
  \/ WorkerNext /\ UNCHANGED admissionVars

Spec == Init /\ [][Next]_vars

(* Requests and supervisors are scheduled, a stopped worker is started     *)
(* again, time passes, a watchdog fires and a returning process exits.     *)
(* Nothing is assumed of the solver itself: it may hang until its deadline.*)
Fairness ==
  /\ \A p \in Posts : WF_vars(PostStep(p) /\ UNCHANGED workerVars)
  /\ \A w \in Workers :
       /\ WF_vars(WorkerStep(w) /\ UNCHANGED admissionVars)
       /\ WF_vars(Restart(w) /\ UNCHANGED admissionVars)
  /\ \A j \in Jobs :
       /\ WF_vars(DeadlinePasses(j) /\ UNCHANGED admissionVars)
       /\ WF_vars(ChildWatchdog(j) /\ UNCHANGED admissionVars)
       /\ WF_vars(ChildExit(j) /\ UNCHANGED admissionVars)
       /\ WF_vars(BecomeOverdue(j) /\ UNCHANGED admissionVars)

FairSpec == Spec /\ Fairness

-----------------------------------------------------------------------------

\* Every variable stays in its type.
TypeOK == RowTypeOK /\ AdmissionTypeOK /\ WorkerTypeOK

-----------------------------------------------------------------------------
(* Safety invariants.                                                      *)

\* The active key is held exactly while a job is outstanding, by one job per
\* fingerprint: JobService.submit relies on it to share a running solve, and
\* finish and cancel_job must both give it back.
OneActiveJobPerInput ==
  /\ \A j \in Jobs :
       row[j].active_key = IF row[j].status \in Active THEN row[j].input ELSE NoInput
  /\ \A i, j \in Jobs :
       /\ row[i].status \in Active
       /\ row[j].status \in Active
       /\ row[i].input = row[j].input
       => i = j

\* A reply to a POST names the job its key is bound to, for the inputs that
\* were posted: a retry, a race or an alias never returns another job
\* (JobService.submit).
RepliesAgreeWithKeys ==
  \A p \in Posts :
    post[p].reply = "JOB" =>
      /\ request[post[p].key] = [request_hash |-> post[p].input, job |-> post[p].job]
      /\ row[post[p].job].input = post[p].input

\* The capacity guard reads a count that other admissions outdate: the bound
\* of 1000 can be exceeded, but by less than the requests served at once
\* (JobService.submit).
SoftCapacity == Cardinality(Pending) < MaxPending + Threads

\* No two supervisors ever work on one job: the compare-and-set of claim_job
\* grants it once and nothing puts it back in the queue.
OneSupervisor ==
  \A v, w \in Workers, j \in Jobs :
    Supervises(v, j) /\ Supervises(w, j) => v = w

\* A job's run is inserted in the transaction that ends it, once, and holds
\* the last stored result: no open job has a run, no ended job with a result
\* lacks one, no stale or repeated finish adds another (JobService.finish).
PublishedExactlyOnce ==
  \A j \in Jobs :
    /\ row[j].result_run = IF row[j].status \in Terminal THEN row[j].checkpoint
                                                         ELSE NoResult
    /\ runs[j] = IF row[j].result_run = NoResult THEN 0 ELSE 1

\* Complete results and success go together, unless a cancellation committed
\* before the result did; error codes match the terminal state they explain
\* (LocalWorker.run_once and JobService.finish).
OutcomeConsistent ==
  \A j \in Jobs :
    /\ row[j].status = "SUCCEEDED" =>
         row[j].checkpoint = Final /\ row[j].error_code = NoError
    /\ row[j].checkpoint = Final => row[j].status \in {"SUCCEEDED", "CANCELLED"}
    /\ row[j].status = "TIMED_OUT" => row[j].error_code = TimeoutError
    /\ row[j].status = "FAILED" => row[j].error_code \in FailureCodes

\* A solver process runs only under its supervisor; only a kill of the
\* supervisor leaves one behind (the finally clause of run_once).
NoLeakedSolver ==
  \A j \in Jobs : Alive(j) => Supervised(j) \/ child[j].orphan

-----------------------------------------------------------------------------
(* Action properties.                                                      *)

\* A row that has ended never changes again: late checkpoints, results,
\* cancellations and recoveries are fenced (owned_job, cancel_job).
TerminalRowsFrozen ==
  [][\A j \in Jobs : row[j].status \in Terminal => row'[j] = row[j]]_vars

\* The stored result only moves forward, a stage at a time or to the final
\* one: nothing received from the pipe is applied twice or out of order.
CheckpointsAdvance ==
  [][\A j \in Jobs :
       row'[j].checkpoint # row[j].checkpoint =>
         row'[j].checkpoint \in {row[j].checkpoint + 1, Final}]_vars

\* A job is solved by one process, once: neither recovery nor a restarted
\* worker runs it again ("running jobs are never automatically re-executed").
NeverReexecuted ==
  [][\A j \in Jobs : child[j].state # "none" /\ child'[j].state = "solving"
                       => child[j].state = "solving"]_vars

-----------------------------------------------------------------------------
(* Liveness, under FairSpec.                                               *)

\* A claimed job always ends, whatever its solver and its supervisor do
\* (deadline, watchdog, recover_expired); once a cancellation was accepted it
\* ends as CANCELLED.
ClaimedJobsEnd ==
  \A j \in Jobs :
    /\ (row[j].status \in Claimed) ~> (row[j].status \in Terminal)
    /\ (row[j].status = "CANCELLING") ~> (row[j].status = "CANCELLED")

\* A queued job is claimed or cancelled in the end: no job ahead of it, stuck
\* or lost, keeps the worker from reaching it (main's loop over run_once).
QueueDrains ==
  \A j \in Jobs : (row[j].status = Waiting) ~> (row[j].status # Waiting)

\* Every POST is answered: submit retries a lost race once and then refuses.
PostsAnswered ==
  \A p \in Posts : InProgress(p) ~> (post[p].pc = "done")

\* Every solver process ends, an orphan included: it is reaped, or its
\* watchdog stops it at the deadline (solve_child, run_once).
SolversEnd == \A j \in Jobs : Alive(j) ~> ~Alive(j)

-----------------------------------------------------------------------------
(* Refinement.                                                             *)

Contract == INSTANCE JobContract WITH
  Keys <- RequestKeys,
  Nothing <- NoInput,
  Complete <- Final,
  state <- [j \in Jobs |-> row[j].status],
  input <- [j \in Jobs |-> row[j].input],
  names <- [k \in RequestKeys |-> IF Bound(k) THEN request[k].job ELSE NoInput],
  published <- [j \in Jobs |-> row[j].result_run]

\* The tables, seen from the API, behave as JobContract says.
ImplementsContract == Contract!Spec

-----------------------------------------------------------------------------
(* Statements of the documentation that some behaviour contradicts.        *)

\* docs/BACKGROUND_JOBS.md:166, "Normal completion replaces the checkpoint
\* with the full finalized result": a job is not failed as exited while its
\* complete result lies unread in the pipe.
ResultNotDiscarded ==
  \A j \in Jobs :
    row[j].error_code = "WORKER_PROCESS_EXITED" =>
      \A n \in 1 .. Len(child[j].pipe) : child[j].pipe[n].kind # "result"

\* docs/BACKGROUND_JOBS.md:146, "A worker marks abandoned claims FAILED /
\* WORKER_LOST after the original deadline plus 30 seconds".
AbandonedClaimsEnd ==
  \A j \in Jobs : overdue[j] ~> (row[j].status \in Terminal)

=============================================================================
