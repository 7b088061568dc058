---------------------------- MODULE InputVersions ----------------------------
(***************************************************************************)
(* InputService.create: drafts and revisions of the input of a date.  As   *)
(* in JobAdmission, a SELECT takes no lock and is a step of its own (what  *)
(* is read of one stored version never changes and is read with the step   *)
(* that uses it); from the first INSERT of the snapshot to the COMMIT no   *)
(* other connection writes, so the writes are one step.                    *)
(***************************************************************************)
EXTENDS Naturals, FiniteSets

CONSTANTS
  Calls,       \* the HTTP requests ever sent; names the version it stores
  Threads,     \* requests served at once: the server's thread pool
  Dates,       \* operational dates
  Keys,        \* idempotency keys
  Employees,
  Offered,     \* the inputs that revisions carry
  Snapshots,   \* the stored snapshots that are no versions, by their content
  Imported,    \* those that confirmed imports have published
  NoVersion,   \* the absent version id
  NoInput,     \* the absent input
  MaxTimeouts, \* bound on database operations that fail (locked, disk)
  MaxCrashes   \* bound on crashes of the server

\* valid: within the limits and calendar bounds, and mapping and domain
\* validation raise no issue.
Inputs == [date : Dates, employees : SUBSET Employees, valid : BOOLEAN]

\* The input of a draft without a source.
Empty(d) == [date |-> d, employees |-> {}, valid |-> TRUE]

ASSUME InputAssumption ==
  /\ NoVersion \notin Calls
  /\ NoInput \notin Inputs
  /\ Offered \subseteq Inputs
  /\ Snapshots \subseteq Inputs
  /\ Imported \subseteq Snapshots
  /\ Threads \in Nat \ {0}
  /\ MaxTimeouts \in Nat
  /\ MaxCrashes \in Nat

VARIABLES
  versions,   \* input_versions with the content of their snapshots
  call,       \* the local variables of create, per request, and its answer
  timeouts,   \* database operations that failed so far
  crashes     \* crashes so far

vars == <<versions, call, timeouts, crashes>>

\* parent is the version of a revision's URL, or source_version_id of a draft;
\* expected and input belong to revisions, snapshot to drafts.
Requests ==
  [kind : {"draft"}, parent : Calls \cup {NoVersion}, expected : {NoInput},
   input : {NoInput}, snapshot : Inputs \cup {NoInput}]
  \cup
  [kind : {"revision"}, parent : Calls, expected : Inputs, input : Inputs,
   snapshot : {NoInput}]

Draft(parent, snapshot) ==
  [kind |-> "draft", parent |-> parent, expected |-> NoInput,
   input |-> NoInput, snapshot |-> snapshot]

Revision(parent, expected, input) ==
  [kind |-> "revision", parent |-> parent, expected |-> expected,
   input |-> input, snapshot |-> NoInput]

\* request stands for its fingerprint, content for the snapshot and its hash.
Versions == [id : Calls, date : Dates, number : Nat \ {0}, key : Keys,
             request : Requests, content : Inputs]

Stages == {"unsent", "lookup", "rows", "write", "done"}
Replies == {"NONE", "VERSION", "REUSED", "STALE", "INVALID", "CONCURRENT", "LOST"}

\* The local variables: what the request says, and what the attempt has read.
CallStates == [pc : Stages,
               date : Dates \cup {NoInput},
               key : Keys \cup {NoInput},
               request : Requests \cup {NoInput},
               attempt : {0, 1},
               number : Nat,
               content : Inputs \cup {NoInput},
               reply : Replies,
               version : Calls \cup {NoVersion}]

Unsent == [pc |-> "unsent", date |-> NoInput, key |-> NoInput, request |-> NoInput,
           attempt |-> 0, number |-> 0, content |-> NoInput,
           reply |-> "NONE", version |-> NoVersion]

Init ==
  /\ versions = {}
  /\ call = [c \in Calls |-> Unsent]
  /\ timeouts = 0
  /\ crashes = 0

InProgress(c) == call[c].pc \notin {"unsent", "done"}

On(d) == {v \in versions : v.date = d}

Answer(c, reply, id) ==
  call' = [call EXCEPT ![c] =
    [@ EXCEPT !.pc = "done", !.reply = reply, !.version = id,
              !.attempt = 0, !.number = 0, !.content = NoInput]]

Refuse(c, reply) == Answer(c, reply, NoVersion)

\* Mutant: never retries.
MutantNoRetry(c) == Refuse(c, "CONCURRENT")

\* The rest of the attempt is abandoned and rolled back.
Retry(c) ==
  IF call[c].attempt = 0
  THEN call' = [call EXCEPT ![c] =
         [@ EXCEPT !.pc = "lookup", !.attempt = 1, !.number = 0, !.content = NoInput]]
  ELSE Refuse(c, "CONCURRENT")

-----------------------------------------------------------------------------

Start(c, d, k, r) ==
  /\ call[c].pc = "unsent"
  /\ Cardinality({o \in Calls : InProgress(o)}) < Threads
  /\ call' = [call EXCEPT ![c] =
       [@ EXCEPT !.pc = "lookup", !.date = d, !.key = k, !.request = r]]
  /\ UNCHANGED <<versions, timeouts, crashes>>

\* A draft is empty, or its source is a version or another stored snapshot.
StartDraft(c) ==
  \E d \in Dates, k \in Keys :
    \/ Start(c, d, k, Draft(NoVersion, NoInput))
    \/ \E v \in versions : Start(c, d, k, Draft(v.id, NoInput))
    \/ \E i \in Snapshots : Start(c, d, k, Draft(NoVersion, i))

\* The route reads the parent first and revises the parent's date.  The expected
\* hash is that of some version the client has seen.
StartRevision(c) ==
  \E v, seen \in versions, k \in Keys, i \in Offered :
    Start(c, v.date, k, Revision(v.id, seen.content, i))

\* Mutant: the fingerprint is not compared.
MutantLookUp(c) ==
  /\ call[c].pc = "lookup"
  /\ \/ /\ \A v \in On(call[c].date) : v.key # call[c].key
        /\ call' = [call EXCEPT ![c].pc = "rows"]
     \/ \E v \in On(call[c].date) :
          /\ v.key = call[c].key
          /\ Answer(c, "VERSION", v.id)
  /\ UNCHANGED <<versions, timeouts, crashes>>

LookUp(c) ==
  /\ call[c].pc = "lookup"
  /\ \/ /\ \A v \in On(call[c].date) : v.key # call[c].key
        /\ call' = [call EXCEPT ![c].pc = "rows"]
     \/ \E v \in On(call[c].date) :
          /\ v.key = call[c].key
          /\ IF v.request = call[c].request
             THEN Answer(c, "VERSION", v.id)
             ELSE Refuse(c, "REUSED")
  /\ UNCHANGED <<versions, timeouts, crashes>>

\* rows[-1]: at most one version.
Newest(d) == {v \in On(d) : \A u \in On(d) : u.number <= v.number}

\* Mutants of the stale-parent check: the hash alone, the order alone, and the
\* oldest row instead of the newest.
MutantHashOnly(c) ==
  ~\E v \in versions : v.id = call[c].request.parent
                         /\ v.content = call[c].request.expected
MutantOldest(c) ==
  ~\E v \in On(call[c].date) :
     /\ v.number = 1
     /\ v.id = call[c].request.parent
     /\ v.content = call[c].request.expected

IsStale(c) ==
  ~\E v \in Newest(call[c].date) :
     /\ v.id = call[c].request.parent
     /\ v.content = call[c].request.expected

MutantRemoves(c) == FALSE

Removes(c) ==
  \E v \in versions :
    /\ v.id = call[c].request.parent
    /\ ~(v.content.employees \subseteq call[c].request.input.employees)

\* CONFIRMED_IMPORT_REQUIRED.
NotImported(c) ==
  call[c].request.snapshot # NoInput /\ call[c].request.snapshot \notin Imported

\* The candidate input: of the revision, of the draft's source, or empty.
Candidates(c) ==
  LET r == call[c].request IN
  IF r.kind = "revision" THEN {r.input}
  ELSE IF r.parent # NoVersion THEN {v.content : v \in {u \in versions : u.id = r.parent}}
  ELSE IF r.snapshot # NoInput THEN {r.snapshot}
  ELSE {Empty(call[c].date)}

NextNumbers(d) == IF On(d) = {} THEN {1} ELSE {v.number + 1 : v \in Newest(d)}

ReadRows(c) ==
  LET revises == call[c].request.kind = "revision" IN
  /\ call[c].pc = "rows"
  /\ \/ revises /\ IsStale(c) /\ Refuse(c, "STALE")
     \/ revises /\ ~IsStale(c) /\ Removes(c) /\ Refuse(c, "INVALID")
     \/ ~revises /\ NotImported(c) /\ Refuse(c, "INVALID")
     \/ /\ IF revises THEN ~IsStale(c) /\ ~Removes(c) ELSE ~NotImported(c)
        /\ \E i \in Candidates(c), n \in NextNumbers(call[c].date) :
             IF i.date = call[c].date /\ i.valid
             THEN call' = [call EXCEPT ![c] =
                    [@ EXCEPT !.pc = "write", !.number = n, !.content = i]]
             ELSE Refuse(c, "INVALID")
  /\ UNCHANGED <<versions, timeouts, crashes>>

\* Mutant: the unique constraint on the number is missing.
MutantKeyOnly(c) == \E v \in On(call[c].date) : v.key = call[c].key

\* The unique constraints on (operational_date, version_number) and on
\* (operational_date, idempotency_key).
Clashes(c) ==
  \E v \in On(call[c].date) : v.number = call[c].number \/ v.key = call[c].key

NewVersion(c) ==
  [id |-> c, date |-> call[c].date, number |-> call[c].number, key |-> call[c].key,
   request |-> call[c].request, content |-> call[c].content]

Write(c) ==
  /\ call[c].pc = "write"
  /\ \/ /\ ~Clashes(c)
        /\ versions' = versions \cup {NewVersion(c)}
        /\ Answer(c, "VERSION", c)
     \/ /\ Clashes(c)
        /\ Retry(c)
        /\ UNCHANGED versions
  /\ UNCHANGED <<timeouts, crashes>>

\* OperationalError at any statement.
DatabaseFails(c) ==
  /\ timeouts < MaxTimeouts
  /\ InProgress(c)
  /\ timeouts' = timeouts + 1
  /\ Retry(c)
  /\ UNCHANGED <<versions, crashes>>

\* The server dies; what is not committed is rolled back, nobody is answered.
Crash ==
  /\ crashes < MaxCrashes
  /\ \E c \in Calls : InProgress(c)
  /\ crashes' = crashes + 1
  /\ call' = [c \in Calls |->
       IF InProgress(c) THEN [Unsent EXCEPT !.pc = "done", !.reply = "LOST"] ELSE call[c]]
  /\ UNCHANGED <<versions, timeouts>>

CallStep(c) ==
  \/ StartDraft(c)
  \/ StartRevision(c)
  \/ LookUp(c)
  \/ ReadRows(c)
  \/ Write(c)
  \/ DatabaseFails(c)

Next == Crash \/ \E c \in Calls : CallStep(c)

Spec == Init /\ [][Next]_vars

-----------------------------------------------------------------------------
(* Properties.                                                             *)

\* Every variable keeps its type, whatever attempt a request is in: the local
\* variables and rows of create.
TypeOK ==
  /\ versions \subseteq Versions
  /\ call \in [Calls -> CallStates]
  /\ timeouts \in 0..MaxTimeouts
  /\ crashes \in 0..MaxCrashes

\* The history of a date never branches: a revision directly follows the parent
\* that its author saw, hash included, and keeps every employee of it, although
\* create read the parent long before it wrote.
LineNeverBranches ==
  \A v \in versions : v.request.kind = "revision" =>
    \E u \in On(v.date) :
      /\ u.id = v.request.parent
      /\ u.number + 1 = v.number
      /\ u.content = v.request.expected
      /\ u.content.employees \subseteq v.content.employees

\* Versions of a date are numbered 1, 2, 3, ... without gap or repetition, no
\* matter how many attempts were rolled back.
NumbersHaveNoGaps ==
  \A v \in versions :
    /\ \A n \in 1..v.number : \E u \in On(v.date) : u.number = n
    /\ \A u \in On(v.date) : u.number = v.number => u = v

\* A key of a date names one version for ever: every successful answer to it is
\* that version, and its content is what that request asked for.
KeysNameOneVersion ==
  \A c \in Calls : call[c].reply = "VERSION" =>
    /\ \E v \in On(call[c].date) :
         /\ v.id = call[c].version
         /\ v.key = call[c].key
         /\ v.request = call[c].request
    /\ \A v \in On(call[c].date) : v.key = call[c].key => v.id = call[c].version

\* STALE_INPUT_VERSION is never a false alarm: the parent has a successor or
\* its hash is not the expected one.
StaleIsJustified ==
  \A c \in Calls : call[c].reply = "STALE" =>
    \E u \in On(call[c].date) :
      /\ u.id = call[c].request.parent
      /\ \/ u.content # call[c].request.expected
         \/ \E v \in On(u.date) : v.number = u.number + 1

\* CONCURRENT_INPUT_REVISION means that others got through: each of the two lost
\* attempts is paid for by a version of that date or by a failed operation.
ConflictsMeanProgress ==
  \A c \in Calls : call[c].reply = "CONCURRENT" =>
    Cardinality(On(call[c].date)) + timeouts >= 2

\* The reads, retries and unique constraints of create implement an atomic
\* append.
History == INSTANCE VersionHistory
ImplementsHistory == History!Spec

\* docs/INPUT_MANAGEMENT.md: "Retrying the same parsed request returns the same
\* resource with 201, even after the parent has become stale."  A request whose
\* key already stores the same request is never refused as stale.
RetriesAreNotStale ==
  \A c \in Calls : call[c].reply = "STALE" =>
    ~\E v \in On(call[c].date) : v.key = call[c].key /\ v.request = call[c].request
=============================================================================
