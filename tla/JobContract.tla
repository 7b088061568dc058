----------------------------- MODULE JobContract -----------------------------
(***************************************************************************)
(* What a client of the background-job API may rely on, and nothing else:  *)
(* which job a key names, the state of each job, and the one result that a *)
(* terminal job may publish.  There are no supervisors, tokens, processes, *)
(* races or retries here: every change is one step.                        *)
(***************************************************************************)
EXTENDS Naturals

CONSTANTS Jobs, Keys, Inputs, Nothing, Complete

VARIABLES
  state,       \* "ABSENT" or the status of each job
  input,       \* what each job solves
  names,       \* the job each key names, Nothing before it is used
  published    \* the published result: 0 none, Complete the finalized one

vars == <<state, input, names, published>>

Open == {"QUEUED", "RUNNING", "CANCELLING"}
Closed == {"SUCCEEDED", "FAILED", "TIMED_OUT", "CANCELLED"}

Init ==
  /\ state = [j \in Jobs |-> "ABSENT"]
  /\ input = [j \in Jobs |-> Nothing]
  /\ names = [k \in Keys |-> Nothing]
  /\ published = [j \in Jobs |-> 0]

\* A fresh key either creates a job, when no open job solves that input ...
Admit(k, i, j) ==
  /\ names[k] = Nothing
  /\ state[j] = "ABSENT"
  /\ \A o \in Jobs : state[o] \in Open => input[o] # i
  /\ state' = [state EXCEPT ![j] = "QUEUED"]
  /\ input' = [input EXCEPT ![j] = i]
  /\ names' = [names EXCEPT ![k] = j]
  /\ UNCHANGED published

\* ... or names an existing one.
Share(k, j) ==
  /\ names[k] = Nothing
  /\ state[j] # "ABSENT"
  /\ names' = [names EXCEPT ![k] = j]
  /\ UNCHANGED <<state, input, published>>

Move(j, from, to) ==
  /\ state[j] = from
  /\ state' = [state EXCEPT ![j] = to]
  /\ UNCHANGED <<input, names, published>>

Start(j) == Move(j, "QUEUED", "RUNNING")
Withdraw(j) == Move(j, "QUEUED", "CANCELLED")
RequestCancel(j) == Move(j, "RUNNING", "CANCELLING")

\* Closing a running job and publishing what it has, at most once.  A
\* cancellation that came first decides the state; success means complete.
Close(j, to, result) ==
  /\ state[j] \in {"RUNNING", "CANCELLING"}
  /\ to \in Closed
  /\ state[j] = "CANCELLING" <=> to = "CANCELLED"
  /\ to = "SUCCEEDED" => result = Complete
  /\ result = Complete => to \in {"SUCCEEDED", "CANCELLED"}
  /\ published[j] = 0
  /\ state' = [state EXCEPT ![j] = to]
  /\ published' = [published EXCEPT ![j] = result]
  /\ UNCHANGED <<input, names>>

Next ==
  \/ \E k \in Keys, i \in Inputs, j \in Jobs : Admit(k, i, j)
  \/ \E k \in Keys, j \in Jobs : Share(k, j)
  \/ \E j \in Jobs : Start(j) \/ Withdraw(j) \/ RequestCancel(j)
  \/ \E j \in Jobs, to \in Closed, result \in 0 .. Complete : Close(j, to, result)

Spec == Init /\ [][Next]_vars

=============================================================================
