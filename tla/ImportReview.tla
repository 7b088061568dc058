---------------------------- MODULE ImportReview ----------------------------
(***************************************************************************)
(* ImportService over SQLImportRepository: reviews of uploaded workbooks,  *)
(* their correction, confirmation and combination, and the gate that an    *)
(* imported day passes before it is optimized.                             *)
(*                                                                         *)
(* A request is one transaction.  Its first statement is an UPDATE, which  *)
(* waits for the writer that is ahead; what follows is read from and       *)
(* written to a working copy that the COMMIT installs, so that a failure   *)
(* of any statement leaves nothing behind.                                 *)
(*                                                                         *)
(* The rows of a preview are reduced to the operational dates at which     *)
(* they have no error; a row with none is unresolved.                      *)
(***************************************************************************)
EXTENDS Naturals, FiniteSets, Sequences, SequencesExt

CONSTANTS
  Calls,     \* the corrections, confirmations and combinations ever sent; a
             \* call names the day it stores
  Threads,   \* calls served at once: the server's thread pool
  Imports,   \* import ids
  Earlier,   \* the imports an earlier release has left in the database
  Rows,      \* the rows of a workbook
  RowValues, \* what a row can say
  Excluded,  \* the value of a row that is not used
  Dates,     \* operational dates
  Configs,   \* optimizer configurations
  Workbooks, \* the workbooks that clients upload, as they are parsed
  Left,      \* the previews that these may have
  Offered,   \* the corrections that clients make
  Keep,      \* a field a correction leaves alone
  Nothing    \* the absent review, day, list of rows, working copy

Types == {"EMPLOYEES", "FLIGHTS"}
Statuses == {"REVIEW_REQUIRED", "READY_TO_CONFIRM", "REJECTED", "CONFIRMED"}

\* "NOTE" stands for the issues that do not block and that only the earlier
\* release reports.
Issues == {"NOTE", "ERROR", "FATAL"}

Previews == [date : Dates, rows : [Rows -> RowValues], issues : SUBSET Issues]

\* What an import is made of: of a workbook, the FATAL findings of the parser.
Parsed == [type : Types, config : Configs, preview : Previews]

\* The number of the current revision is the length of revisions.
Reviews == [type : Types, config : Configs, revisions : Seq(Previews),
            status : Statuses, day : Calls \cup {Nothing}]

ASSUME ReviewAssumption ==
  /\ Threads \in Nat \ {0}
  /\ Earlier \subseteq Imports
  /\ Nothing \notin Calls /\ Nothing \notin Imports /\ Nothing \notin Reviews
  /\ Excluded \in RowValues
  /\ RowValues \subseteq (SUBSET Dates) \cup {Excluded}
  /\ Keep \notin RowValues /\ Keep \notin Dates
  /\ Nothing \notin [Rows -> RowValues]
  /\ Workbooks \subseteq Parsed /\ Left \subseteq Parsed
  /\ \A w \in Workbooks : w.type = "FLIGHTS" => w.preview.issues = {}
  /\ Offered \subseteq [rows : [Rows -> RowValues \cup {Keep}], date : Dates \cup {Keep}]

VARIABLES
  stored,    \* the committed tables
  call,      \* the requests, with the working copy of their transaction
  optimized  \* the imported days that were submitted to the optimizer

vars == <<stored, call, optimized>>

RowLists == [Rows -> RowValues] \cup {Nothing}
Days == [id : Calls, date : Dates, config : Configs,
         shifts : RowLists, flights : RowLists]
Compositions == [day : Calls, employee : Imports, flight : Imports]

Databases == [reviews : [Imports -> Reviews \cup {Nothing}],
              days : SUBSET Days,
              compositions : SUBSET Compositions]

Stages == {"unsent", "sent", "claimed", "create", "link", "commit", "done"}
Operations == {"none", "correct", "confirm", "combine"}
Replies == {"NONE", "CORRECTED", "CONFIRMED", "COMBINED", "IMPORT_REVISION_CONFLICT",
            "IMPORT_ALREADY_CONFIRMED", "IMPORT_NOT_CONFIRMABLE",
            "INVALID_IMPORT_CORRECTIONS", "INVALID_IMPORT_TRANSITION",
            "CONFIRMED_IMPORTS_REQUIRED", "IMPORT_INPUT_MISMATCH",
            "EMPLOYEE_TIMEZONE_REVIEW_REQUIRED", "LOST"}

\* import is the employee import of a combination, and other its flight log.
CallStates == [pc : Stages,
               op : Operations,
               import : Imports \cup {Nothing},
               other : Imports \cup {Nothing},
               revision : Nat,
               change : Offered \cup {Nothing},
               work : Databases \cup {Nothing},
               reply : Replies,
               day : Calls \cup {Nothing}]

Unsent == [pc |-> "unsent", op |-> "none", import |-> Nothing, other |-> Nothing,
           revision |-> 0, change |-> Nothing, work |-> Nothing,
           reply |-> "NONE", day |-> Nothing]

-----------------------------------------------------------------------------
(* Previews.                                                               *)

\* revalidate of either adapter: FATAL findings of the parser stay, the rest is
\* found again in the rows.
Revalidate(p) ==
  [p EXCEPT !.issues =
    (@ \cap {"FATAL"}) \cup
    {x \in {"ERROR"} : \E r \in Rows : p.rows[r] # Excluded /\ p.date \notin p.rows[r]}]

Eligible(p) == p.issues \cap {"ERROR", "FATAL"} = {}

Status(p) ==
  IF "FATAL" \in p.issues THEN "REJECTED"
  ELSE IF Eligible(p) THEN "READY_TO_CONFIRM" ELSE "REVIEW_REQUIRED"

Corrected(p, change) ==
  Revalidate(
    [p EXCEPT !.date = IF change.date = Keep THEN @ ELSE change.date,
              !.rows = [r \in Rows |->
                 IF change.rows[r] = Keep THEN p.rows[r] ELSE change.rows[r]]])

Uploaded(w, p) ==
  [type |-> w.type, config |-> w.config, revisions |-> <<p>>,
   status |-> Status(p), day |-> Nothing]

Latest(review) == Last(review.revisions)

\* repository.revise: earlier revisions stay.
Revised(review, p) ==
  [review EXCEPT !.revisions = Append(@, p), !.status = Status(p)]

\* TRANSITIONS.
Allowed(before, after) ==
  /\ before \in {"REVIEW_REQUIRED", "READY_TO_CONFIRM"}
  /\ \/ after \in {"REVIEW_REQUIRED", "READY_TO_CONFIRM"}
     \/ before = "READY_TO_CONFIRM" /\ after = "CONFIRMED"

-----------------------------------------------------------------------------

\* What an earlier release found need not be what this one finds.
Init ==
  /\ \E w \in [Earlier -> Left] :
       stored = [reviews |-> [i \in Imports |->
                   IF i \in Earlier THEN Uploaded(w[i], w[i].preview) ELSE Nothing],
                 days |-> {}, compositions |-> {}]
  /\ call = [c \in Calls |-> Unsent]
  /\ optimized = {}

InTransaction(c) == call[c].pc \in {"claimed", "create", "link", "commit"}

InProgress(c) == call[c].pc = "sent" \/ InTransaction(c)

Answer(c, reply, day) ==
  /\ call' = [call EXCEPT ![c] =
       [@ EXCEPT !.pc = "done", !.reply = reply, !.day = day, !.work = Nothing]]
  /\ UNCHANGED <<stored, optimized>>

\* The transaction is rolled back.
Refuse(c, reply) == Answer(c, reply, Nothing)

Continue(c, pc, work) ==
  /\ call' = [call EXCEPT ![c] = [@ EXCEPT !.pc = pc, !.work = work]]
  /\ UNCHANGED <<stored, optimized>>

\* upload and upload_flights: one INSERT in a transaction of its own.
Upload(i) ==
  \E w \in Workbooks :
    /\ stored.reviews[i] = Nothing
    /\ \A c \in Calls : ~InTransaction(c)
    /\ stored' = [stored EXCEPT !.reviews[i] = Uploaded(w, Revalidate(w.preview))]
    /\ UNCHANGED <<call, optimized>>

Send(c, op, i, j, n, change) ==
  /\ call[c].pc = "unsent"
  /\ Cardinality({o \in Calls : InProgress(o)}) < Threads
  /\ call' = [call EXCEPT ![c] =
       [@ EXCEPT !.pc = "sent", !.op = op, !.import = i, !.other = j,
                 !.revision = n, !.change = change]]
  /\ UNCHANGED <<stored, optimized>>

\* A client names a revision it has seen, the current one or an older one.
SendReviewed(c) ==
  \E i \in Imports :
    /\ stored.reviews[i] # Nothing
    /\ \E n \in 1..Len(stored.reviews[i].revisions) :
         \/ \E change \in Offered : Send(c, "correct", i, Nothing, n, change)
         \/ Send(c, "confirm", i, Nothing, n, Nothing)

SendCombine(c) ==
  \E i, j \in Imports :
    /\ stored.reviews[i] # Nothing /\ stored.reviews[j] # Nothing
    /\ Send(c, "combine", i, j, 0, Nothing)

IsCurrent(c) ==
  call[c].op = "combine"
    \/ Len(stored.reviews[call[c].import].revisions) = call[c].revision

\* Mutant: the revision is compared in a SELECT, which takes no lock.
MutantClaim(c) ==
  /\ call[c].pc = "sent"
  /\ IF IsCurrent(c)
     THEN Continue(c, "claimed", stored)
     ELSE Refuse(c, "IMPORT_REVISION_CONFLICT")

\* claim and claim_confirmed: the UPDATE takes the database's write lock.
Claim(c) ==
  /\ call[c].pc = "sent"
  /\ \A o \in Calls : ~InTransaction(o)
  /\ IF IsCurrent(c)
     THEN Continue(c, "claimed", stored)
     ELSE Refuse(c, "IMPORT_REVISION_CONFLICT")

Review(c) == call[c].work.reviews[call[c].import]

Store(c, review) == [call[c].work EXCEPT !.reviews[call[c].import] = review]

-----------------------------------------------------------------------------
(* correct.                                                                *)

CorrectionRefusal(review, p, change) ==
  CASE review.status = "CONFIRMED" -> "IMPORT_ALREADY_CONFIRMED"
    [] review.status = "REJECTED" -> "IMPORT_NOT_CONFIRMABLE"
    [] change.date # Keep /\ review.type # "FLIGHTS" -> "INVALID_IMPORT_CORRECTIONS"
    [] ~Allowed(review.status, Status(p)) -> "INVALID_IMPORT_TRANSITION"
    [] OTHER -> "NONE"

Correct(c) ==
  /\ call[c].pc = "claimed" /\ call[c].op = "correct"
  /\ LET p == Corrected(Latest(Review(c)), call[c].change)
         refusal == CorrectionRefusal(Review(c), p, call[c].change)
     IN IF refusal = "NONE"
        THEN Continue(c, "commit", Store(c, Revised(Review(c), p)))
        ELSE Refuse(c, refusal)

-----------------------------------------------------------------------------
(* confirm.                                                                *)

\* A saved flight log that the current policy finds fit gets that evaluation
\* as a new revision.
Reevaluated(review) ==
  LET p == Revalidate(Latest(review)) IN
  IF review.type = "FLIGHTS" /\ p.issues # Latest(review).issues /\ Eligible(p)
  THEN Revised(review, p)
  ELSE review

ConfirmRefusal(review, fresh) ==
  CASE fresh # review /\ ~Allowed(review.status, fresh.status) -> "INVALID_IMPORT_TRANSITION"
    [] fresh.status # "READY_TO_CONFIRM" -> "IMPORT_NOT_CONFIRMABLE"
    [] ~Eligible(Revalidate(Latest(fresh))) -> "IMPORT_NOT_CONFIRMABLE"
    [] OTHER -> "NONE"

Confirm(c) ==
  /\ call[c].pc = "claimed" /\ call[c].op = "confirm"
  /\ LET fresh == Reevaluated(Review(c))
         refusal == ConfirmRefusal(Review(c), fresh)
     IN IF Review(c).status = "CONFIRMED" THEN Answer(c, "CONFIRMED", Review(c).day)
        ELSE IF refusal = "NONE" THEN Continue(c, "create", Store(c, fresh))
        ELSE Refuse(c, refusal)

-----------------------------------------------------------------------------
(* combine.                                                                *)

Other(c) == call[c].work.reviews[call[c].other]

Existing(c) ==
  {x \in call[c].work.compositions : x.employee = call[c].import /\ x.flight = call[c].other}

CombineRefusal(e, f) ==
  CASE e.type # "EMPLOYEES" \/ f.type # "FLIGHTS" -> "CONFIRMED_IMPORTS_REQUIRED"
    [] e.status # "CONFIRMED" \/ f.status # "CONFIRMED" -> "CONFIRMED_IMPORTS_REQUIRED"
    [] Latest(e).date # Latest(f).date \/ e.config # f.config -> "IMPORT_INPUT_MISMATCH"
    [] OTHER -> "NONE"

\* The airport's zone may leave a shift's wall time ambiguous, and the day that
\* results may be invalid; either refuses the pair.  The write lock is held, so
\* uq_import_composition is never the one that refuses.
Combine(c) ==
  /\ call[c].pc = "claimed" /\ call[c].op = "combine"
  /\ LET refusal == CombineRefusal(Review(c), Other(c)) IN
     IF refusal # "NONE" THEN Refuse(c, refusal)
     ELSE \/ \E x \in Existing(c) : Answer(c, "COMBINED", x.day)
          \/ Existing(c) = {} /\ Refuse(c, "EMPLOYEE_TIMEZONE_REVIEW_REQUIRED")
          \/ Existing(c) = {} /\ Continue(c, "create", call[c].work)

-----------------------------------------------------------------------------
(* The writes of confirm and combine, and the end of the transaction.      *)

Snapshot(c) ==
  [id |-> c, date |-> Latest(Review(c)).date, config |-> Review(c).config,
   shifts |-> IF Review(c).type = "EMPLOYEES" THEN Latest(Review(c)).rows ELSE Nothing,
   flights |-> CASE call[c].op = "combine" -> Latest(Other(c)).rows
                 [] Review(c).type = "FLIGHTS" -> Latest(Review(c)).rows
                 [] OTHER -> Nothing]

\* Mutant: the day is committed by a transaction of its own.
MutantCreateDay(c) ==
  /\ call[c].pc = "create"
  /\ stored' = [stored EXCEPT !.days = @ \cup {Snapshot(c)}]
  /\ call' = [call EXCEPT ![c].pc = "link", ![c].work.days = @ \cup {Snapshot(c)}]
  /\ UNCHANGED optimized

CreateDay(c) ==
  /\ call[c].pc = "create"
  /\ Continue(c, "link", [call[c].work EXCEPT !.days = @ \cup {Snapshot(c)}])

\* repository.confirm, and the second INSERT of compose.
Link(c) ==
  /\ call[c].pc = "link"
  /\ Continue(c, "commit",
       IF call[c].op = "confirm"
       THEN Store(c, [Review(c) EXCEPT !.status = "CONFIRMED", !.day = c])
       ELSE [call[c].work EXCEPT !.compositions = @ \cup
               {[day |-> c, employee |-> call[c].import, flight |-> call[c].other]}])

Success(op) ==
  CASE op = "correct" -> "CORRECTED" [] op = "confirm" -> "CONFIRMED"
    [] OTHER -> "COMBINED"

\* The answer to a committed call may be lost.
Commit(c) ==
  /\ call[c].pc = "commit"
  /\ stored' = call[c].work
  /\ \E reply \in {Success(call[c].op), "LOST"} :
       call' = [call EXCEPT ![c] =
         [@ EXCEPT !.pc = "done", !.work = Nothing, !.reply = reply,
                   !.day = IF reply = "LOST" \/ call[c].op = "correct" THEN Nothing ELSE c]]
  /\ UNCHANGED optimized

\* A statement fails, the lock is not granted in time, or the server dies.
Fail(c) ==
  /\ InProgress(c)
  /\ Refuse(c, "LOST")

-----------------------------------------------------------------------------
(* readiness, and submit and optimize_operational_day as far as they ask   *)
(* for it.                                                                 *)

Used(rows) == rows # Nothing /\ \E r \in Rows : rows[r] # Excluded

Composed(id) == \E x \in stored.compositions : x.day = id

ConfirmedTypes(id) ==
  {stored.reviews[i].type : i \in {j \in Imports :
     stored.reviews[j] # Nothing /\ stored.reviews[j].day = id}}

\* Mutant: one confirmed input suffices.
MutantReady(d) ==
  /\ Composed(d.id) \/ ConfirmedTypes(d.id) # {}
  /\ Used(d.shifts) \/ Used(d.flights)

\* optimization_eligible.
Ready(d) ==
  /\ Composed(d.id) \/ "EMPLOYEES" \in ConfirmedTypes(d.id)
  /\ Composed(d.id) \/ "FLIGHTS" \in ConfirmedTypes(d.id)
  /\ Used(d.shifts) /\ Used(d.flights)

Optimize ==
  \E d \in stored.days :
    /\ Ready(d)
    /\ optimized' = optimized \cup {d.id}
    /\ UNCHANGED <<stored, call>>

CallStep(c) ==
  \/ SendReviewed(c)
  \/ SendCombine(c)
  \/ Claim(c)
  \/ Correct(c)
  \/ Confirm(c)
  \/ Combine(c)
  \/ CreateDay(c)
  \/ Link(c)
  \/ Commit(c)
  \/ Fail(c)

Next ==
  \/ \E i \in Imports : Upload(i)
  \/ \E c \in Calls : CallStep(c)
  \/ Optimize

Spec == Init /\ [][Next]_vars

-----------------------------------------------------------------------------
(* Properties.                                                             *)

\* Every variable keeps its type: the tables of models.py, and the local
\* variables and the open transaction of each request.
TypeOK ==
  /\ stored \in Databases
  /\ call \in [Calls -> CallStates]
  /\ optimized \subseteq Calls

\* A successful correction is in the history for ever, directly after the
\* revision its author saw, and nobody else's correction is there.
CorrectionHolds(c) ==
  LET h == stored.reviews[call[c].import].revisions  n == call[c].revision IN
  /\ n < Len(h) /\ h[n + 1] = Corrected(h[n], call[c].change)
  /\ \A o \in Calls \ {c} :
       call[o].reply = "CORRECTED" /\ call[o].import = call[c].import =>
         call[o].revision # n

\* A successful confirmation names the one day of that review, which holds the
\* rows of the revision the client reviewed.
ConfirmationHolds(c) ==
  LET review == stored.reviews[call[c].import]
      p == review.revisions[call[c].revision]
  IN /\ review.status = "CONFIRMED" /\ review.day = call[c].day
     /\ \E d \in stored.days :
          /\ d.id = call[c].day /\ d.date = p.date
          /\ p.rows = IF review.type = "EMPLOYEES" THEN d.shifts ELSE d.flights

\* Successful answers stay true, in the face of concurrent requests, retries of
\* lost answers and rolled back transactions (correct, confirm and combine).
AnswersHold ==
  \A c \in Calls :
    /\ call[c].reply = "CORRECTED" => CorrectionHolds(c)
    /\ call[c].reply = "CONFIRMED" => ConfirmationHolds(c)
    /\ call[c].reply = "COMBINED" =>
         {x \in stored.compositions :
            x.employee = call[c].import /\ x.flight = call[c].other}
           = {[day |-> call[c].day, employee |-> call[c].import, flight |-> call[c].other]}

\* The input of an optimized day was reviewed: its shifts and its flights are
\* those of two confirmed reviews of that date and configuration, and no row of
\* theirs is unresolved (the readiness gates of submit and
\* optimize_operational_day).
OptimizedDaysAreReviewed ==
  \A id \in optimized :
    \E d \in stored.days, x \in stored.compositions :
      LET e == stored.reviews[x.employee]  f == stored.reviews[x.flight] IN
      /\ d.id = id /\ x.day = id
      /\ e.type = "EMPLOYEES" /\ f.type = "FLIGHTS"
      /\ e.status = "CONFIRMED" /\ f.status = "CONFIRMED"
      /\ d.config = e.config /\ d.config = f.config
      /\ d.date = Latest(e).date /\ d.date = Latest(f).date
      /\ d.shifts = Latest(e).rows /\ d.flights = Latest(f).rows
      /\ \A r \in Rows :
           /\ d.shifts[r] = Excluded \/ d.date \in d.shifts[r]
           /\ d.flights[r] = Excluded \/ d.date \in d.flights[r]
      /\ Used(d.shifts) /\ Used(d.flights)

\* The locks, working copies and failures of the transactions implement the
\* atomic steps of ReviewContract.
Contract == INSTANCE ReviewContract WITH
  origin <- [i \in Imports |->
    IF stored.reviews[i] = Nothing THEN Nothing
    ELSE [type |-> stored.reviews[i].type, config |-> stored.reviews[i].config]],
  revisions <- [i \in Imports |->
    IF stored.reviews[i] = Nothing THEN <<>> ELSE stored.reviews[i].revisions],
  published <- [i \in Imports |->
    IF stored.reviews[i] = Nothing THEN Nothing ELSE stored.reviews[i].day],
  days <- stored.days,
  pairs <- stored.compositions

ImplementsContract == Contract!Spec
=============================================================================
