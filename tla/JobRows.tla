------------------------------ MODULE JobRows ------------------------------
(***************************************************************************)
(* The persisted side of the background-job queue: one row of              *)
(* optimization_jobs per job, the optimization_runs inserted for it, and   *)
(* the integrity of the input snapshot it points to.  The operators are    *)
(* the row updates of jobs.py and of JobService.checkpoint/finish; each is *)
(* one short SQLite write transaction, so one step.                        *)
(***************************************************************************)
EXTENDS Naturals

CONSTANTS
  MaxJobs,   \* bound: the number of jobs that are ever admitted
  Inputs,    \* job fingerprints: sha256 of source, input/config digest, timeout
  NoInput,   \* the NULL of active_key and request_hash
  Stages     \* objective stages whose completion is checkpointed

ASSUME RowAssumption ==
  /\ MaxJobs \in Nat
  /\ Stages \in Nat
  /\ NoInput \notin Inputs

VARIABLES
  row,     \* optimization_jobs, indexed by job in order of created_at
  runs,    \* the number of optimization_runs rows inserted for each job
  intact   \* does the job's snapshot still pass get_operational_day's check?

rowVars == <<row, runs, intact>>

Jobs == 1 .. MaxJobs
NoJob == 0
NoToken == 0

(* A result document: 0 is NULL, n in 1..Stages the checkpoint of stage n, *)
(* Final the complete response of a normal return.                         *)
NoResult == 0
Final == Stages + 1
Results == 0 .. Final

Waiting == "QUEUED"
Claimed == {"RUNNING", "CANCELLING"}
Active == {Waiting} \cup Claimed
Terminal == {"SUCCEEDED", "FAILED", "CANCELLED", "TIMED_OUT"}
Statuses == Active \cup Terminal

NoError == "NONE"
TimeoutError == "WALL_TIMEOUT"
FailureCodes == {"SOLVER_EXECUTION_FAILED", "WORKER_PROCESS_EXITED",
                 "WORKER_INTERRUPTED", "WORKER_LOST", "INPUT_INTEGRITY_FAILED"}
ErrorCodes == {NoError, TimeoutError} \cup FailureCodes

Rows == [status : Statuses \cup {"ABSENT"},
         input : Inputs \cup {NoInput},
         active_key : Inputs \cup {NoInput},
         worker_token : Nat,
         checkpoint : Results,
         result_run : Results,      \* content of the run result_run_id names
         error_code : ErrorCodes]

AbsentRow == [status |-> "ABSENT", input |-> NoInput, active_key |-> NoInput,
              worker_token |-> NoToken, checkpoint |-> NoResult,
              result_run |-> NoResult, error_code |-> NoError]

RowTypeOK ==
  /\ row \in [Jobs -> Rows]
  /\ runs \in [Jobs -> Nat]
  /\ intact \in [Jobs -> BOOLEAN]

Exists(j) == row[j].status # "ABSENT"

RowInit ==
  /\ row = [j \in Jobs |-> AbsentRow]
  /\ runs = [j \in Jobs |-> 0]
  /\ intact = [j \in Jobs |-> TRUE]

-----------------------------------------------------------------------------
(* Row updates.                                                            *)

QueuedRow(i) ==
  [AbsentRow EXCEPT !.status = "QUEUED", !.input = i, !.active_key = i]

ClaimedRow(r, token) ==
  [r EXCEPT !.status = "RUNNING", !.worker_token = token]

\* Mutant: the second UPDATE of cancel_job has lost its status condition.
MutantCancelledAny(r) ==
  [r EXCEPT !.status = IF @ = "QUEUED" THEN "CANCELLED" ELSE "CANCELLING",
            !.active_key = IF r.status = "QUEUED" THEN NoInput ELSE @]

\* cancel_job: two conditional UPDATEs in one transaction.
CancelledRow(r) ==
  [r EXCEPT !.status = CASE @ = "QUEUED" -> "CANCELLED"
                         [] @ = "RUNNING" -> "CANCELLING"
                         [] OTHER -> @,
            !.active_key = IF r.status = "QUEUED" THEN NoInput ELSE @]

\* Mutant: the fence forgets the state.
MutantOwnsByToken(r, token) == r.worker_token = token
\* owned_job: the fence every write of a supervisor passes first.
Owns(r, token) == r.worker_token = token /\ r.status \in Claimed

CheckpointedRow(r, result) == [r EXCEPT !.checkpoint = result]

\* Mutants: an older checkpoint shadows the result; a missing result erases it.
MutantCheckpointFirst(r, result) ==
  IF r.checkpoint # NoResult THEN r.checkpoint ELSE result
MutantResultOnly(r, result) == result

\* The checkpoint column finish leaves behind, and publishes when not NULL.
LastResult(r, result) == IF result # NoResult THEN result ELSE r.checkpoint

\* Mutants: a result overrides a cancellation; failed work is queued again.
MutantRequestedStatus(r, status) == status
MutantRequeueFailed(r, status) == IF status = "FAILED" THEN "QUEUED" ELSE status

\* The status finish stores: a cancellation that committed first wins.
StoredStatus(r, status) == IF r.status = "CANCELLING" THEN "CANCELLED" ELSE status

\* Mutant: finish does not give the active key back.
MutantKeepKey(r, status, result, error) ==
  [r EXCEPT !.status = StoredStatus(r, status),
            !.checkpoint = LastResult(r, result),
            !.result_run = LastResult(r, result),
            !.error_code = error]

FinishedRow(r, status, result, error) ==
  [r EXCEPT !.status = StoredStatus(r, status),
            !.checkpoint = LastResult(r, result),
            !.result_run = LastResult(r, result),
            !.active_key = NoInput,
            !.error_code = error]

-----------------------------------------------------------------------------
(* Transactions on the rows.                                               *)

\* JobService.cancel (POST .../cancel), by any client at any time.
CancelJob(j) ==
  /\ Exists(j)
  /\ row' = [row EXCEPT ![j] = CancelledRow(@)]
  /\ UNCHANGED <<runs, intact>>

\* JobService.checkpoint: a write of a supervisor that lost its claim is dropped.
StoreCheckpoint(j, token, result) ==
  /\ row' = IF Owns(row[j], token)
              THEN [row EXCEPT ![j] = CheckpointedRow(@, result)]
              ELSE row
  /\ UNCHANGED <<runs, intact>>

\* finish reloads the snapshot before it inserts a run: a damaged one raises
\* and rolls the transaction back.
FinishRaises(j, token, result) ==
  /\ Owns(row[j], token)
  /\ LastResult(row[j], result) # NoResult
  /\ ~intact[j]

\* JobService.finish: run insertion and terminal status commit together.
StoreFinish(j, token, status, result, error) ==
  /\ ~FinishRaises(j, token, result)
  /\ \/ /\ Owns(row[j], token)
        /\ row' = [row EXCEPT ![j] = FinishedRow(@, status, result, error)]
        /\ runs' = [runs EXCEPT ![j] = IF LastResult(row[j], result) # NoResult
                                         THEN @ + 1 ELSE @]
     \/ ~Owns(row[j], token) /\ UNCHANGED <<row, runs>>
  /\ UNCHANGED intact

=============================================================================
