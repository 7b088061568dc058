------------------------- MODULE ImportReviewProofs -------------------------
(***************************************************************************)
(* Theorems about ImportReview, for all values of its constants.           *)
(***************************************************************************)
EXTENDS ImportReview, TLAPS

\* A row is excluded or fit for the operational date.
Resolved(p) == \A r \in Rows : p.rows[r] = Excluded \/ p.date \in p.rows[r]

\* The day that confirming a review, or joining two, creates.
DayOf(id, r) ==
  [id |-> id, date |-> Latest(r).date, config |-> r.config,
   shifts |-> IF r.type = "EMPLOYEES" THEN Latest(r).rows ELSE Nothing,
   flights |-> IF r.type = "FLIGHTS" THEN Latest(r).rows ELSE Nothing]

JointDay(id, e, f) ==
  [id |-> id, date |-> Latest(e).date, config |-> e.config,
   shifts |-> Latest(e).rows, flights |-> Latest(f).rows]

\* A review as its confirmation by a call leaves it.
Settled(r, c) == [r EXCEPT !.status = "CONFIRMED", !.day = c]

\* A review that is not confirmed has no day yet; one that is has its day.
SettledReview(r, days) ==
  /\ r.revisions # <<>>
  /\ r.status # "CONFIRMED" => r.day = Nothing
  /\ r.status = "CONFIRMED" =>
       /\ r.day \in Calls
       /\ Resolved(Latest(r))
       /\ DayOf(r.day, r) \in days

JoinedPair(x, db) ==
  LET e == db.reviews[x.employee]  f == db.reviews[x.flight] IN
  /\ e # Nothing /\ f # Nothing
  /\ e.type = "EMPLOYEES" /\ f.type = "FLIGHTS"
  /\ e.status = "CONFIRMED" /\ f.status = "CONFIRMED"
  /\ Latest(e).date = Latest(f).date /\ e.config = f.config
  /\ JointDay(x.day, e, f) \in db.days

\* The tables agree with each other.
Consistent(db) ==
  /\ \A i \in Imports : db.reviews[i] # Nothing => SettledReview(db.reviews[i], db.days)
  /\ \A d, d2 \in db.days : d.id = d2.id => d = d2
  /\ \A x \in db.compositions : JoinedPair(x, db)
  /\ \A x, y \in db.compositions : x.employee = y.employee /\ x.flight = y.flight => x = y

\* What a committed transaction does to the tables others have seen.
KeepsReview(r, r2) ==
  /\ r2 # Nothing
  /\ r2.type = r.type /\ r2.config = r.config
  /\ Len(r.revisions) <= Len(r2.revisions)
  /\ \A n \in 1..Len(r.revisions) : r2.revisions[n] = r.revisions[n]
  /\ r.status = "CONFIRMED" => r2 = r

Grows(old, new) ==
  /\ \A i \in Imports : old.reviews[i] # Nothing => KeepsReview(old.reviews[i], new.reviews[i])
  /\ old.days \subseteq new.days
  /\ old.compositions \subseteq new.compositions

-----------------------------------------------------------------------------
(* Previews and reviews.                                                   *)

LEMMA RevalidateFacts ==
  ASSUME NEW p \in Previews
  PROVE  /\ Revalidate(p) \in Previews
         /\ Revalidate(p).date = p.date
         /\ Revalidate(p).rows = p.rows
         /\ Eligible(Revalidate(p)) => Resolved(p)
  <1>1. Revalidate(p) \in Previews /\ Revalidate(p).date = p.date /\ Revalidate(p).rows = p.rows
    BY DEF Revalidate, Previews, Issues
  <1>2. Revalidate(p).issues = (p.issues \cap {"FATAL"}) \cup
          {x \in {"ERROR"} : \E r \in Rows : p.rows[r] # Excluded /\ p.date \notin p.rows[r]}
    BY DEF Revalidate, Previews
  <1>3. ASSUME Eligible(Revalidate(p)) PROVE Resolved(p)
    BY <1>2, <1>3 DEF Eligible, Resolved
  <1> QED
    BY <1>1, <1>3

LEMMA CorrectedType ==
  ASSUME ReviewAssumption, NEW p \in Previews, NEW change \in Offered
  PROVE  Corrected(p, change) \in Previews
  <1> DEFINE q == [p EXCEPT !.date = IF change.date = Keep THEN @ ELSE change.date,
                            !.rows = [r \in Rows |->
                               IF change.rows[r] = Keep THEN p.rows[r] ELSE change.rows[r]]]
  <1>1. /\ change.rows \in [Rows -> RowValues \cup {Keep}]
        /\ change.date \in Dates \cup {Keep}
    BY DEF ReviewAssumption
  <1>2. [r \in Rows |-> IF change.rows[r] = Keep THEN p.rows[r] ELSE change.rows[r]]
          \in [Rows -> RowValues]
    BY <1>1 DEF Previews
  <1>3. q \in Previews
    BY <1>1, <1>2 DEF Previews
  <1> QED
    BY <1>3, RevalidateFacts DEF Corrected

LEMMA StatusFacts ==
  ASSUME NEW p
  PROVE  Status(p) \in Statuses \ {"CONFIRMED"}
  BY DEF Status, Statuses

LEMMA LatestFacts ==
  ASSUME NEW r \in Reviews, r.revisions # <<>>
  PROVE  /\ Latest(r) \in Previews
         /\ Latest(r) = r.revisions[Len(r.revisions)]
         /\ Len(r.revisions) \in Nat \ {0}
  BY DEF Reviews, Latest, Last

LEMMA RevisedFacts ==
  ASSUME NEW r \in Reviews, NEW p \in Previews
  PROVE  /\ Revised(r, p) \in Reviews
         /\ Revised(r, p).type = r.type
         /\ Revised(r, p).config = r.config
         /\ Revised(r, p).day = r.day
         /\ Revised(r, p).status = Status(p)
         /\ Revised(r, p).revisions = Append(r.revisions, p)
         /\ Revised(r, p).revisions # <<>>
         /\ Len(Revised(r, p).revisions) = Len(r.revisions) + 1
         /\ \A n \in 1..Len(r.revisions) : Revised(r, p).revisions[n] = r.revisions[n]
         /\ Latest(Revised(r, p)) = p
  <1>0. r.revisions \in Seq(Previews)
    BY DEF Reviews
  <1>1. /\ Append(r.revisions, p) \in Seq(Previews)
        /\ Status(p) \in Statuses
    BY <1>0, StatusFacts
  <1>2. /\ Revised(r, p) \in Reviews
        /\ Revised(r, p).type = r.type
        /\ Revised(r, p).config = r.config
        /\ Revised(r, p).day = r.day
        /\ Revised(r, p).status = Status(p)
        /\ Revised(r, p).revisions = Append(r.revisions, p)
    BY <1>1 DEF Revised, Reviews
  <1> QED
    BY <1>0, <1>2 DEF Latest, Last

\* Confirming a flight log may append a revision that differs in its issues only.
LEMMA ReevaluatedFacts ==
  ASSUME NEW r \in Reviews, r.revisions # <<>>
  PROVE  LET f == Reevaluated(r) IN
         /\ f \in Reviews
         /\ f.type = r.type /\ f.config = r.config /\ f.day = r.day
         /\ f.revisions # <<>>
         /\ Latest(f).date = Latest(r).date /\ Latest(f).rows = Latest(r).rows
         /\ Len(r.revisions) <= Len(f.revisions)
         /\ \A n \in 1..Len(r.revisions) : f.revisions[n] = r.revisions[n]
         /\ \/ f.revisions = r.revisions
            \/ f.revisions = Append(r.revisions, Latest(f))
  <1> DEFINE p == Revalidate(Latest(r))
  <1>1. /\ Latest(r) \in Previews /\ Len(r.revisions) \in Nat
        /\ p \in Previews /\ p.date = Latest(r).date /\ p.rows = Latest(r).rows
    BY LatestFacts, RevalidateFacts
  <1> HIDE DEF p
  <1>2. CASE Reevaluated(r) = r
    BY <1>1, <1>2
  <1>3. CASE Reevaluated(r) = Revised(r, p)
    BY <1>1, <1>3, RevisedFacts
  <1> QED
    BY <1>2, <1>3 DEF Reevaluated, p

LEMMA SettledFacts ==
  ASSUME NEW c \in Calls, NEW r \in Reviews
  PROVE  LET s == Settled(r, c) IN
         /\ s \in Reviews
         /\ s.status = "CONFIRMED" /\ s.day = c
         /\ s.type = r.type /\ s.config = r.config /\ s.revisions = r.revisions
         /\ Latest(s) = Latest(r)
  BY DEF Settled, Reviews, Statuses, Latest

\* A review that may be confirmed is resolved.
LEMMA ConfirmableIsResolved ==
  ASSUME NEW r \in Reviews, r.revisions # <<>>, NEW f, ConfirmRefusal(f, r) = "NONE"
  PROVE  Resolved(Latest(r))
  <1>1. Eligible(Revalidate(Latest(r)))
    BY DEF ConfirmRefusal
  <1> QED
    BY <1>1, LatestFacts, RevalidateFacts

-----------------------------------------------------------------------------
(* The tables.                                                             *)

\* A table with its parts spelled out.
Tables(db, reviews, days, compositions) ==
  /\ db \in Databases
  /\ db.reviews = reviews /\ db.days = days /\ db.compositions = compositions

LEMMA TablesFacts ==
  ASSUME NEW db \in Databases
  PROVE  /\ db.reviews \in [Imports -> Reviews \cup {Nothing}]
         /\ db.days \subseteq Days
         /\ db.compositions \subseteq Compositions
         /\ Tables(db, db.reviews, db.days, db.compositions)
         /\ \A i \in Imports, r \in Reviews :
              Tables([db EXCEPT !.reviews[i] = r],
                     [db.reviews EXCEPT ![i] = r], db.days, db.compositions)
         /\ \A d \in Days :
              Tables([db EXCEPT !.days = @ \cup {d}],
                     db.reviews, db.days \cup {d}, db.compositions)
         /\ \A x \in Compositions :
              Tables([db EXCEPT !.compositions = @ \cup {x}],
                     db.reviews, db.days, db.compositions \cup {x})
  BY DEF Databases, Tables

LEMMA SameTables ==
  ASSUME NEW reviews, NEW days, NEW compositions, NEW db, NEW new,
         Tables(db, reviews, days, compositions), Tables(new, reviews, days, compositions)
  PROVE  db = new
  BY DEF Tables, Databases

LEMMA DayFacts ==
  ASSUME ReviewAssumption, NEW c \in Calls, NEW e \in Reviews, NEW f \in Reviews,
         e.revisions # <<>>, f.revisions # <<>>
  PROVE  /\ DayOf(c, e) \in Days /\ DayOf(c, e).id = c
         /\ JointDay(c, e, f) \in Days /\ JointDay(c, e, f).id = c
  <1>1. Latest(e) \in Previews /\ Latest(f) \in Previews /\ e.config \in Configs
    BY LatestFacts DEF Reviews
  <1> QED
    BY <1>1 DEF DayOf, JointDay, Days, RowLists, Previews

LEMMA KeepsItself ==
  ASSUME ReviewAssumption, NEW r \in Reviews
  PROVE  r # Nothing /\ KeepsReview(r, r)
  <1>1. Len(r.revisions) \in Nat
    BY DEF Reviews
  <1> QED
    BY <1>1 DEF KeepsReview, ReviewAssumption

\* A review that is not confirmed is replaced, and days are added.
LEMMA ReviewStored ==
  ASSUME ReviewAssumption, NEW db \in Databases, NEW new \in Databases, Consistent(db),
         NEW i \in Imports, NEW r \in Reviews,
         db.reviews[i] # Nothing => /\ db.reviews[i].status # "CONFIRMED"
                                    /\ KeepsReview(db.reviews[i], r),
         new.reviews = [db.reviews EXCEPT ![i] = r],
         new.compositions = db.compositions,
         db.days \subseteq new.days,
         \A d, d2 \in new.days : d.id = d2.id => d = d2,
         SettledReview(r, new.days)
  PROVE  Consistent(new) /\ Grows(db, new)
  <1>1. /\ db.reviews \in [Imports -> Reviews \cup {Nothing}]
        /\ db.compositions \subseteq Compositions
    BY TablesFacts
  <1>2. new.reviews[i] = r /\ \A j \in Imports \ {i} : new.reviews[j] = db.reviews[j]
    BY <1>1
  <1>3. Grows(db, new)
    BY <1>1, <1>2, KeepsItself DEF Grows
  <1>4. ASSUME NEW j \in Imports, new.reviews[j] # Nothing
        PROVE  SettledReview(new.reviews[j], new.days)
    <2>1. CASE j = i
      BY <1>2, <2>1
    <2>2. CASE j # i
      BY <1>2, <1>4, <2>2 DEF Consistent, SettledReview
    <2> QED
      BY <2>1, <2>2
  <1>5. ASSUME NEW x \in new.compositions PROVE JoinedPair(x, new)
    <2>1. x \in Compositions /\ x.employee \in Imports /\ x.flight \in Imports
      BY <1>1 DEF Compositions
    <2>2. JoinedPair(x, db)
      BY DEF Consistent
    <2>3. x.employee # i /\ x.flight # i
      BY <2>2 DEF JoinedPair
    <2> QED
      BY <1>2, <2>1, <2>2, <2>3 DEF JoinedPair
  <1>6. \A x, y \in new.compositions : x.employee = y.employee /\ x.flight = y.flight => x = y
    BY DEF Consistent
  <1> QED
    BY <1>3, <1>4, <1>5, <1>6 DEF Consistent

\* A pair is joined.
LEMMA PairStored ==
  ASSUME ReviewAssumption, NEW db \in Databases, NEW new \in Databases, Consistent(db),
         NEW d \in Days, NEW x \in Compositions,
         new.reviews = db.reviews,
         new.days = db.days \cup {d},
         new.compositions = db.compositions \cup {x},
         \A d2 \in db.days : d2.id # d.id,
         \A y \in db.compositions : y.employee # x.employee \/ y.flight # x.flight,
         JoinedPair(x, new)
  PROVE  Consistent(new) /\ Grows(db, new)
  <1>1. db.reviews \in [Imports -> Reviews \cup {Nothing}]
    BY TablesFacts
  <1>2. Grows(db, new)
    BY <1>1, KeepsItself DEF Grows
  <1>3. \A j \in Imports : new.reviews[j] # Nothing => SettledReview(new.reviews[j], new.days)
    BY DEF Consistent, SettledReview
  <1>4. \A y \in db.compositions : JoinedPair(y, new)
    BY DEF Consistent, JoinedPair
  <1> QED
    BY <1>2, <1>3, <1>4 DEF Consistent

-----------------------------------------------------------------------------
(* The invariant.                                                          *)

Open == {"claimed", "create", "link", "commit"}

\* A call that was sent names what it is about, and has no answer before its end.
Addressed(q, db) ==
  /\ q.pc # "done" => q.reply = "NONE"
  /\ q.pc # "unsent" =>
       /\ q.op # "none"
       /\ q.import \in Imports /\ db.reviews[q.import] # Nothing
       /\ q.op = "combine" => q.other \in Imports /\ db.reviews[q.other] # Nothing
       /\ q.op = "correct" => q.change \in Offered
       /\ q.op # "combine" => q.revision \in 1..Len(db.reviews[q.import].revisions)

\* How the working copy of an open transaction differs from the tables, and what
\* was verified of them.
WorkingCopy(c, q, db) ==
  LET r == db.reviews[q.import]
      fresh == Reevaluated(r)
      f == db.reviews[q.other]
      pair == [day |-> c, employee |-> q.import, flight |-> q.other]
      reviews(new) == [db.reviews EXCEPT ![q.import] = new]
  IN
  /\ q.work \in Databases
  /\ q.op # "combine" => q.revision = Len(r.revisions)
  /\ q.pc = "claimed" => q.work = db
  /\ q.pc # "claimed" /\ q.op = "correct" =>
       /\ q.pc = "commit"
       /\ r.status # "CONFIRMED"
       /\ Tables(q.work, reviews(Revised(r, Corrected(Latest(r), q.change))),
                 db.days, db.compositions)
  /\ q.pc # "claimed" /\ q.op = "confirm" =>
       /\ r.status # "CONFIRMED"
       /\ ConfirmRefusal(r, fresh) = "NONE"
       /\ q.pc = "create" => Tables(q.work, reviews(fresh), db.days, db.compositions)
       /\ q.pc = "link" =>
            Tables(q.work, reviews(fresh), db.days \cup {DayOf(c, fresh)}, db.compositions)
       /\ q.pc = "commit" =>
            Tables(q.work, reviews(Settled(fresh, c)),
                   db.days \cup {DayOf(c, fresh)}, db.compositions)
  /\ q.pc # "claimed" /\ q.op = "combine" =>
       /\ CombineRefusal(r, f) = "NONE"
       /\ \A x \in db.compositions : x.employee # q.import \/ x.flight # q.other
       /\ q.pc = "create" => q.work = db
       /\ q.pc = "link" =>
            Tables(q.work, db.reviews, db.days \cup {JointDay(c, r, f)}, db.compositions)
       /\ q.pc = "commit" =>
            Tables(q.work, db.reviews, db.days \cup {JointDay(c, r, f)},
                   db.compositions \cup {pair})

\* What a successful answer said is in the tables.
Truthful(q, db) ==
  LET r == db.reviews[q.import]  n == q.revision IN
  /\ q.reply = "CORRECTED" =>
       /\ q.op = "correct"
       /\ n < Len(r.revisions)
       /\ r.revisions[n + 1] = Corrected(r.revisions[n], q.change)
  /\ q.reply = "CONFIRMED" =>
       /\ q.op = "confirm"
       /\ r.status = "CONFIRMED" /\ r.day = q.day
       /\ r.revisions[n].date = Latest(r).date /\ r.revisions[n].rows = Latest(r).rows
  /\ q.reply = "COMBINED" =>
       /\ q.op = "combine"
       /\ [day |-> q.day, employee |-> q.import, flight |-> q.other] \in db.compositions

CallOK(c, q, db) ==
  /\ Addressed(q, db)
  /\ q.pc \in Open => WorkingCopy(c, q, db)
  /\ Truthful(q, db)

OneTransaction == \A c, o \in Calls : InTransaction(c) /\ InTransaction(o) => c = o

UsedIds == \A d \in stored.days : call[d.id].pc = "done"

\* No two corrections of a review succeed on the same revision.
RivalsOK ==
  \A c, o \in Calls :
    /\ call[c].reply = "CORRECTED" /\ call[o].reply = "CORRECTED"
    /\ call[c].import = call[o].import /\ call[c].revision = call[o].revision
    => c = o

\* An optimized day is that of a joined pair, with work in it.
OptimizedOK ==
  \A id \in optimized :
    \E x \in stored.compositions, d \in stored.days :
      /\ x.day = id /\ d.id = id
      /\ Used(d.shifts) /\ Used(d.flights)

Inv ==
  /\ TypeOK
  /\ \A c \in Calls : CallOK(c, call[c], stored)
  /\ OneTransaction
  /\ Consistent(stored)
  /\ UsedIds
  /\ RivalsOK
  /\ OptimizedOK

-----------------------------------------------------------------------------
(* Steps of a call that leave the tables alone.                            *)

LEMMA Replace ==
  ASSUME call \in [Calls -> CallStates], NEW c \in Calls, NEW q \in CallStates,
         call' = [call EXCEPT ![c] = q]
  PROVE  /\ call' \in [Calls -> CallStates]
         /\ call'[c] = q
         /\ \A o \in Calls \ {c} : call'[o] = call[o]
  OBVIOUS

LEMMA QuietStep ==
  ASSUME Inv, NEW c \in Calls, NEW q \in CallStates,
         call' = [call EXCEPT ![c] = q], UNCHANGED <<stored, optimized>>,
         call[c].pc # "done",
         q.pc \in Open => \A o \in Calls \ {c} : call[o].pc \notin Open,
         CallOK(c, q, stored), q.reply # "CORRECTED"
  PROVE  Inv'
  <1>1. /\ call' \in [Calls -> CallStates]
        /\ call'[c] = q
        /\ \A o \in Calls \ {c} : call'[o] = call[o]
    BY Replace DEF Inv, TypeOK
  <1>2. TypeOK'
    BY <1>1 DEF Inv, TypeOK
  <1>3. ASSUME NEW o \in Calls PROVE CallOK(o, call'[o], stored')
    BY <1>1 DEF Inv
  <1>4. OneTransaction'
    BY <1>1 DEF Inv, OneTransaction, InTransaction, Open
  <1>5. Consistent(stored)'
    BY DEF Inv
  <1>6. UsedIds'
    BY <1>1 DEF Inv, UsedIds
  <1>7. RivalsOK'
    BY <1>1 DEF Inv, RivalsOK
  <1>8. OptimizedOK'
    BY DEF Inv, OptimizedOK
  <1> QED
    BY <1>2, <1>3, <1>4, <1>5, <1>6, <1>7, <1>8 DEF Inv

LEMMA StoredFacts ==
  ASSUME Inv
  PROVE  /\ stored \in Databases
         /\ stored.reviews \in [Imports -> Reviews \cup {Nothing}]
         /\ stored.days \subseteq Days
         /\ \A i \in Imports : stored.reviews[i] # Nothing =>
              /\ stored.reviews[i] \in Reviews
              /\ SettledReview(stored.reviews[i], stored.days)
              /\ stored.reviews[i].revisions # <<>>
  BY TablesFacts DEF Inv, TypeOK, Consistent, SettledReview

LEMMA CallFacts ==
  ASSUME Inv, NEW c \in Calls
  PROVE  /\ call[c] \in CallStates
         /\ CallOK(c, call[c], stored)
         /\ stored \in Databases
         /\ stored.reviews \in [Imports -> Reviews \cup {Nothing}]
         /\ \A i \in Imports : stored.reviews[i] # Nothing =>
              /\ stored.reviews[i] \in Reviews
              /\ SettledReview(stored.reviews[i], stored.days)
              /\ stored.reviews[i].revisions # <<>>
  BY StoredFacts DEF Inv, TypeOK

\* The end of a call that stores nothing.
LEMMA AnswerStep ==
  ASSUME ReviewAssumption, Inv, NEW c \in Calls, InProgress(c),
         NEW reply \in Replies \ {"CORRECTED"}, NEW day \in Calls \cup {Nothing},
         Answer(c, reply, day),
         Truthful([call[c] EXCEPT !.pc = "done", !.reply = reply, !.day = day,
                                  !.work = Nothing], stored)
  PROVE  Inv'
  <1> DEFINE q == [call[c] EXCEPT !.pc = "done", !.reply = reply, !.day = day,
                                  !.work = Nothing]
  <1>1. call[c] \in CallStates /\ CallOK(c, call[c], stored)
    BY CallFacts
  <1>2. /\ q \in CallStates
        /\ q.pc = "done" /\ q.reply = reply /\ q.op = call[c].op
        /\ q.import = call[c].import /\ q.other = call[c].other
        /\ q.change = call[c].change /\ q.revision = call[c].revision
    BY <1>1 DEF CallStates, Stages
  <1>3. call' = [call EXCEPT ![c] = q] /\ UNCHANGED <<stored, optimized>>
    BY DEF Answer
  <1>4. Truthful(q, stored) /\ call[c].pc # "done" /\ call[c].pc # "unsent"
    BY DEF InProgress, InTransaction
  <1> HIDE DEF q
  <1>5. CallOK(c, q, stored)
    BY <1>1, <1>2, <1>4 DEF CallOK, Addressed, Open
  <1> QED
    BY <1>2, <1>3, <1>4, <1>5, QuietStep DEF Open

LEMMA RefuseStep ==
  ASSUME ReviewAssumption, Inv, NEW c \in Calls, InProgress(c),
         NEW reply \in Replies \ {"CORRECTED", "CONFIRMED", "COMBINED"}, Refuse(c, reply)
  PROVE  Inv'
  <1> DEFINE q == [call[c] EXCEPT !.pc = "done", !.reply = reply, !.day = Nothing,
                                  !.work = Nothing]
  <1>1. call[c] \in CallStates
    BY CallFacts
  <1>2. q.reply = reply
    BY <1>1 DEF CallStates
  <1>3. Truthful(q, stored)
    BY <1>2 DEF Truthful
  <1> QED
    BY <1>3, AnswerStep DEF Refuse

\* A step inside the transaction.
LEMMA ContinueStep ==
  ASSUME ReviewAssumption, Inv, NEW c \in Calls, InProgress(c),
         NEW pc \in Open, NEW work \in Databases, Continue(c, pc, work),
         InTransaction(c) \/ \A o \in Calls : ~InTransaction(o),
         WorkingCopy(c, [call[c] EXCEPT !.pc = pc, !.work = work], stored)
  PROVE  Inv'
  <1> DEFINE q == [call[c] EXCEPT !.pc = pc, !.work = work]
  <1>1. call[c] \in CallStates /\ CallOK(c, call[c], stored)
    BY CallFacts
  <1>2. /\ q \in CallStates
        /\ q.pc = pc /\ q.work = work /\ q.reply = call[c].reply /\ q.op = call[c].op
        /\ q.import = call[c].import /\ q.other = call[c].other
        /\ q.change = call[c].change /\ q.revision = call[c].revision
    BY <1>1 DEF CallStates, Stages, Open
  <1>3. call' = [call EXCEPT ![c] = q] /\ UNCHANGED <<stored, optimized>>
    BY DEF Continue
  <1>4. WorkingCopy(c, q, stored)
    OBVIOUS
  <1>5. call[c].pc # "done" /\ call[c].pc # "unsent" /\ call[c].reply = "NONE"
    BY <1>1 DEF InProgress, InTransaction, CallOK, Addressed
  <1> HIDE DEF q
  <1>6. CallOK(c, q, stored)
    BY <1>1, <1>2, <1>4, <1>5 DEF CallOK, Addressed, Truthful
  <1>7. \A o \in Calls \ {c} : call[o].pc \notin Open
    BY DEF Inv, OneTransaction, InTransaction, Open
  <1> QED
    BY <1>2, <1>3, <1>5, <1>6, <1>7, QuietStep

LEMMA SendStep ==
  ASSUME ReviewAssumption, Inv, NEW c \in Calls, NEW op \in Operations \ {"none"},
         NEW i \in Imports, NEW j \in Imports \cup {Nothing}, NEW n \in Nat,
         NEW change \in Offered \cup {Nothing}, Send(c, op, i, j, n, change),
         stored.reviews[i] # Nothing,
         op = "combine" => j \in Imports /\ stored.reviews[j] # Nothing,
         op = "correct" => change \in Offered,
         op # "combine" => n \in 1..Len(stored.reviews[i].revisions)
  PROVE  Inv'
  <1> DEFINE q == [call[c] EXCEPT !.pc = "sent", !.op = op, !.import = i, !.other = j,
                                  !.revision = n, !.change = change]
  <1>1. call[c] \in CallStates /\ CallOK(c, call[c], stored) /\ call[c].pc = "unsent"
    BY CallFacts DEF Send
  <1>2. /\ q \in CallStates
        /\ q.pc = "sent" /\ q.op = op /\ q.import = i /\ q.other = j
        /\ q.revision = n /\ q.change = change /\ q.reply = call[c].reply
    BY <1>1 DEF CallStates, Stages
  <1>3. call' = [call EXCEPT ![c] = q] /\ UNCHANGED <<stored, optimized>>
    BY DEF Send
  <1> HIDE DEF q
  <1>4. q.reply = "NONE"
    BY <1>1, <1>2 DEF CallOK, Addressed
  <1>5. CallOK(c, q, stored)
    BY <1>2, <1>4 DEF CallOK, Addressed, Truthful, Open
  <1> QED
    BY <1>1, <1>2, <1>3, <1>4, <1>5, QuietStep DEF Open

LEMMA SendStepOK ==
  ASSUME ReviewAssumption, Inv, NEW c \in Calls, SendReviewed(c) \/ SendCombine(c)
  PROVE  Inv'
  <1>1. CASE SendReviewed(c)
    <2>1. PICK i \in Imports :
            /\ stored.reviews[i] # Nothing
            /\ \E n \in 1..Len(stored.reviews[i].revisions) :
                 \/ \E change \in Offered : Send(c, "correct", i, Nothing, n, change)
                 \/ Send(c, "confirm", i, Nothing, n, Nothing)
      BY <1>1 DEF SendReviewed
    <2>2. PICK n \in 1..Len(stored.reviews[i].revisions) :
            \/ \E change \in Offered : Send(c, "correct", i, Nothing, n, change)
            \/ Send(c, "confirm", i, Nothing, n, Nothing)
      BY <2>1
    <2>3. n \in Nat
      OBVIOUS
    <2>4. CASE \E change \in Offered : Send(c, "correct", i, Nothing, n, change)
      BY <2>1, <2>3, <2>4, SendStep DEF Operations
    <2>5. CASE Send(c, "confirm", i, Nothing, n, Nothing)
      BY <2>1, <2>3, <2>5, SendStep DEF Operations
    <2> QED
      BY <2>2, <2>4, <2>5
  <1>2. CASE SendCombine(c)
    BY <1>2, SendStep DEF SendCombine, Operations
  <1> QED
    BY <1>1, <1>2

LEMMA ClaimStep ==
  ASSUME ReviewAssumption, Inv, NEW c \in Calls, Claim(c)
  PROVE  Inv'
  <1>1. CASE IsCurrent(c)
    <2> DEFINE q == [call[c] EXCEPT !.pc = "claimed", !.work = stored]
    <2>1. call[c] \in CallStates /\ CallOK(c, call[c], stored) /\ stored \in Databases
      BY CallFacts
    <2>2. /\ q.pc = "claimed" /\ q.work = stored /\ q.op = call[c].op
          /\ q.import = call[c].import /\ q.revision = call[c].revision
      BY <2>1 DEF CallStates
    <2> HIDE DEF q
    <2>3. WorkingCopy(c, q, stored)
      BY <1>1, <2>1, <2>2 DEF WorkingCopy, IsCurrent
    <2> QED
      BY <1>1, <2>1, <2>3, ContinueStep DEF Claim, InProgress, Open, q
  <1>2. CASE ~IsCurrent(c)
    BY <1>2, RefuseStep DEF Claim, InProgress, Replies
  <1> QED
    BY <1>1, <1>2

LEMMA FailStep ==
  ASSUME ReviewAssumption, Inv, NEW c \in Calls, Fail(c)
  PROVE  Inv'
  BY RefuseStep DEF Fail, Replies

\* The open transaction of a call, and the review it is about.
LEMMA TransactionFacts ==
  ASSUME ReviewAssumption, Inv, NEW c \in Calls, call[c].pc \in Open
  PROVE  /\ InTransaction(c) /\ InProgress(c)
         /\ call[c] \in CallStates
         /\ Addressed(call[c], stored)
         /\ WorkingCopy(c, call[c], stored)
         /\ call[c].import \in Imports
         /\ stored.reviews[call[c].import] \in Reviews
         /\ stored.reviews[call[c].import] # Nothing
         /\ stored.reviews[call[c].import].revisions # <<>>
         /\ call[c].op = "combine" =>
              /\ call[c].other \in Imports
              /\ stored.reviews[call[c].other] \in Reviews
              /\ stored.reviews[call[c].other].revisions # <<>>
         /\ \A d \in stored.days : d.id # c
  <1>1. /\ call[c] \in CallStates
        /\ Addressed(call[c], stored)
        /\ WorkingCopy(c, call[c], stored)
    BY CallFacts DEF CallOK
  <1>2. InTransaction(c) /\ InProgress(c) /\ call[c].pc # "done" /\ call[c].pc # "unsent"
    BY DEF InTransaction, InProgress, Open
  <1>3. \A d \in stored.days : d.id # c
    BY <1>2 DEF Inv, UsedIds
  <1> QED
    BY <1>1, <1>2, <1>3, CallFacts DEF Addressed

LEMMA CorrectStep ==
  ASSUME ReviewAssumption, Inv, NEW c \in Calls, Correct(c)
  PROVE  Inv'
  <1> DEFINE r == stored.reviews[call[c].import]
             p == Corrected(Latest(r), call[c].change)
             w == [stored EXCEPT !.reviews[call[c].import] = Revised(r, p)]
             q == [call[c] EXCEPT !.pc = "commit", !.work = w]
             refusal == CorrectionRefusal(r, p, call[c].change)
  <1>1. call[c].pc = "claimed" /\ call[c].op = "correct" /\ call[c].pc \in Open
    BY DEF Correct, Open
  <1>2. /\ call[c] \in CallStates /\ call[c].import \in Imports /\ stored \in Databases
        /\ r \in Reviews /\ r.revisions # <<>>
        /\ call[c].work = stored /\ call[c].change \in Offered
        /\ call[c].revision = Len(r.revisions)
    BY <1>1, TransactionFacts, CallFacts DEF WorkingCopy, Addressed
  <1>3. p \in Previews /\ Revised(r, p) \in Reviews
    BY <1>2, CorrectedType, LatestFacts, RevisedFacts
  <1>4. CASE refusal = "NONE"
    <2>1. r.status # "CONFIRMED"
      BY <1>4 DEF CorrectionRefusal
    <2>2. Tables(w, [stored.reviews EXCEPT ![call[c].import] = Revised(r, p)],
                 stored.days, stored.compositions)
      BY <1>2, <1>3, TablesFacts
    <2>3. /\ q.pc = "commit" /\ q.work = w /\ q.op = "correct"
          /\ q.import = call[c].import /\ q.revision = call[c].revision
          /\ q.change = call[c].change
      BY <1>1, <1>2 DEF CallStates
    <2>4. w \in Databases
      BY <2>2 DEF Tables
    <2>5. Continue(c, "commit", w)
      BY <1>2, <1>4 DEF Correct, Review, Store
    <2> HIDE DEF q, w
    <2>6. WorkingCopy(c, q, stored)
      BY <1>2, <2>1, <2>2, <2>3, <2>4 DEF WorkingCopy
    <2> QED
      BY <1>1, <2>4, <2>5, <2>6, ContinueStep, TransactionFacts DEF Open, q
  <1>5. CASE refusal # "NONE"
    <2>1. Refuse(c, refusal)
      BY <1>2, <1>5 DEF Correct, Review
    <2>2. refusal \in Replies \ {"CORRECTED", "CONFIRMED", "COMBINED"}
      BY <1>5 DEF CorrectionRefusal, Replies
    <2> QED
      BY <1>1, <2>1, <2>2, RefuseStep, TransactionFacts
  <1> QED
    BY <1>4, <1>5

LEMMA ConfirmStep ==
  ASSUME ReviewAssumption, Inv, NEW c \in Calls, Confirm(c)
  PROVE  Inv'
  <1> DEFINE r == stored.reviews[call[c].import]
             fresh == Reevaluated(r)
             w == [stored EXCEPT !.reviews[call[c].import] = fresh]
             q == [call[c] EXCEPT !.pc = "create", !.work = w]
             done == [call[c] EXCEPT !.pc = "done", !.reply = "CONFIRMED",
                                     !.day = r.day, !.work = Nothing]
             refusal == ConfirmRefusal(r, fresh)
  <1>1. call[c].pc = "claimed" /\ call[c].op = "confirm" /\ call[c].pc \in Open
    BY DEF Confirm, Open
  <1>2. /\ call[c] \in CallStates /\ call[c].import \in Imports /\ stored \in Databases
        /\ r \in Reviews /\ r.revisions # <<>>
        /\ call[c].work = stored
        /\ call[c].revision = Len(r.revisions)
        /\ SettledReview(r, stored.days)
    BY <1>1, TransactionFacts, CallFacts DEF WorkingCopy
  <1>3. fresh \in Reviews
    BY <1>2, ReevaluatedFacts
  <1>4. CASE r.status = "CONFIRMED"
    <2>1. Answer(c, "CONFIRMED", r.day)
      BY <1>2, <1>4 DEF Confirm, Review
    <2>2. /\ done.reply = "CONFIRMED" /\ done.op = "confirm" /\ done.day = r.day
          /\ done.import = call[c].import /\ done.revision = Len(r.revisions)
      BY <1>1, <1>2 DEF CallStates
    <2> HIDE DEF done
    <2>3. Truthful(done, stored)
      BY <1>2, <1>4, <2>2, LatestFacts DEF Truthful
    <2>4. r.day \in Calls
      BY <1>2, <1>4 DEF SettledReview
    <2> QED
      BY <1>1, <2>1, <2>3, <2>4, AnswerStep, TransactionFacts DEF Replies, done
  <1>5. CASE r.status # "CONFIRMED" /\ refusal = "NONE"
    <2>1. Tables(w, [stored.reviews EXCEPT ![call[c].import] = fresh],
                 stored.days, stored.compositions)
      BY <1>2, <1>3, TablesFacts
    <2>2. /\ q.pc = "create" /\ q.work = w /\ q.op = "confirm"
          /\ q.import = call[c].import /\ q.revision = call[c].revision
      BY <1>1, <1>2 DEF CallStates
    <2>3. w \in Databases
      BY <2>1 DEF Tables
    <2>4. Continue(c, "create", w)
      BY <1>2, <1>5 DEF Confirm, Review, Store
    <2> HIDE DEF q, w
    <2>5. WorkingCopy(c, q, stored)
      BY <1>2, <1>5, <2>1, <2>2, <2>3 DEF WorkingCopy
    <2> QED
      BY <1>1, <2>3, <2>4, <2>5, ContinueStep, TransactionFacts DEF Open, q
  <1>6. CASE r.status # "CONFIRMED" /\ refusal # "NONE"
    <2>1. Refuse(c, refusal)
      BY <1>2, <1>6 DEF Confirm, Review
    <2>2. refusal \in Replies \ {"CORRECTED", "CONFIRMED", "COMBINED"}
      BY <1>6 DEF ConfirmRefusal, Replies
    <2> QED
      BY <1>1, <2>1, <2>2, RefuseStep, TransactionFacts
  <1> QED
    BY <1>4, <1>5, <1>6

LEMMA CombineStep ==
  ASSUME ReviewAssumption, Inv, NEW c \in Calls, Combine(c)
  PROVE  Inv'
  <1> DEFINE e == stored.reviews[call[c].import]
             f == stored.reviews[call[c].other]
             q == [call[c] EXCEPT !.pc = "create", !.work = stored]
             refusal == CombineRefusal(e, f)
  <1>1. call[c].pc = "claimed" /\ call[c].op = "combine" /\ call[c].pc \in Open
    BY DEF Combine, Open
  <1>2. /\ call[c] \in CallStates /\ call[c].import \in Imports /\ stored \in Databases
        /\ call[c].work = stored
        /\ InProgress(c) /\ InTransaction(c)
    BY <1>1, TransactionFacts, CallFacts DEF WorkingCopy
  <1>3. stored.compositions \subseteq Compositions
    BY <1>2, TablesFacts
  <1>4. CASE refusal # "NONE"
    <2>1. Refuse(c, refusal)
      BY <1>2, <1>4 DEF Combine, Review, Other
    <2>2. refusal \in Replies \ {"CORRECTED", "CONFIRMED", "COMBINED"}
      BY <1>4 DEF CombineRefusal, Replies
    <2> QED
      BY <1>2, <2>1, <2>2, RefuseStep
  <1>5. ASSUME NEW x \in Existing(c), Answer(c, "COMBINED", x.day) PROVE Inv'
    <2> DEFINE done == [call[c] EXCEPT !.pc = "done", !.reply = "COMBINED",
                                       !.day = x.day, !.work = Nothing]
    <2>1. /\ x \in stored.compositions /\ x \in Compositions
          /\ x.employee = call[c].import /\ x.flight = call[c].other
      BY <1>2, <1>3 DEF Existing
    <2>2. /\ x = [day |-> x.day, employee |-> call[c].import, flight |-> call[c].other]
          /\ x.day \in Calls
      BY <2>1 DEF Compositions
    <2>3. /\ done.reply = "COMBINED" /\ done.op = "combine" /\ done.day = x.day
          /\ done.import = call[c].import /\ done.other = call[c].other
      BY <1>1, <1>2 DEF CallStates
    <2> HIDE DEF done
    <2>4. Truthful(done, stored)
      BY <2>1, <2>2, <2>3 DEF Truthful
    <2> QED
      BY <1>2, <1>5, <2>2, <2>4, AnswerStep DEF Replies, done
  <1>6. CASE refusal = "NONE" /\ Existing(c) = {} /\ Continue(c, "create", call[c].work)
    <2>1. /\ q.pc = "create" /\ q.work = stored /\ q.op = "combine"
          /\ q.import = call[c].import /\ q.other = call[c].other
      BY <1>1, <1>2 DEF CallStates
    <2>2. \A x \in stored.compositions :
            x.employee # call[c].import \/ x.flight # call[c].other
      BY <1>2, <1>6 DEF Existing
    <2> HIDE DEF q
    <2>3. WorkingCopy(c, q, stored)
      BY <1>2, <1>6, <2>1, <2>2 DEF WorkingCopy
    <2> QED
      BY <1>2, <1>6, <2>3, ContinueStep DEF Open, q
  <1>7. CASE Refuse(c, "EMPLOYEE_TIMEZONE_REVIEW_REQUIRED")
    BY <1>2, <1>7, RefuseStep DEF Replies
  <1>8. \/ refusal # "NONE"
        \/ \E x \in Existing(c) : Answer(c, "COMBINED", x.day)
        \/ Refuse(c, "EMPLOYEE_TIMEZONE_REVIEW_REQUIRED")
        \/ refusal = "NONE" /\ Existing(c) = {} /\ Continue(c, "create", call[c].work)
    BY <1>2 DEF Combine, Review, Other
  <1> QED
    BY <1>4, <1>5, <1>6, <1>7, <1>8

\* The day a call creates, by what it does.
NewDay(c) ==
  IF call[c].op = "confirm"
  THEN DayOf(c, Reevaluated(stored.reviews[call[c].import]))
  ELSE JointDay(c, stored.reviews[call[c].import], stored.reviews[call[c].other])

LEMMA NewDayFacts ==
  ASSUME ReviewAssumption, Inv, NEW c \in Calls, call[c].pc \in Open,
         call[c].op \in {"confirm", "combine"}
  PROVE  NewDay(c) \in Days /\ NewDay(c).id = c
  BY TransactionFacts, DayFacts, ReevaluatedFacts DEF NewDay

LEMMA SnapshotIsNewDay ==
  ASSUME ReviewAssumption, Inv, NEW c \in Calls, call[c].pc = "create"
  PROVE  Snapshot(c) = NewDay(c)
  <1>1. call[c].pc \in Open /\ call[c].op \in {"confirm", "combine"}
    BY TransactionFacts DEF Open, WorkingCopy, CallStates, Operations, Addressed
  <1>2. CASE call[c].op = "confirm"
    <2> DEFINE i == call[c].import
               fresh == Reevaluated(stored.reviews[i])
    <2>1. WorkingCopy(c, call[c], stored)
      BY <1>1, TransactionFacts
    <2>2. Tables(call[c].work, [stored.reviews EXCEPT ![i] = fresh],
                 stored.days, stored.compositions)
      BY <1>2, <2>1 DEF WorkingCopy
    <2>3. call[c].work.reviews[i] = fresh
      BY <1>1, <2>2, TransactionFacts, CallFacts DEF Tables
    <2> QED
      BY <1>2, <2>3 DEF Snapshot, NewDay, DayOf, Review
  <1>3. CASE call[c].op = "combine"
    <2>1. /\ Review(c) = stored.reviews[call[c].import]
          /\ Other(c) = stored.reviews[call[c].other]
          /\ CombineRefusal(Review(c), Other(c)) = "NONE"
      BY <1>1, <1>3, TransactionFacts DEF WorkingCopy, Review, Other
    <2>2. Review(c).type = "EMPLOYEES"
      BY <2>1 DEF CombineRefusal
    <2> QED
      BY <1>3, <2>1, <2>2 DEF Snapshot, NewDay, JointDay
  <1> QED
    BY <1>1, <1>2, <1>3

\* What the working copy is at each of the last steps.
LEMMA Copies ==
  ASSUME ReviewAssumption, Inv, NEW c \in Calls, call[c].pc \in Open,
         call[c].pc # "claimed"
  PROVE  LET i == call[c].import
             r == stored.reviews[i]
             fresh == Reevaluated(r)
             w == call[c].work
             f == stored.reviews[call[c].other]
             pair == [day |-> c, employee |-> i, flight |-> call[c].other]
         IN
         /\ w \in Databases
         /\ call[c].op \in {"correct", "confirm", "combine"}
         /\ call[c].op = "correct" =>
              /\ call[c].pc = "commit"
              /\ r.status # "CONFIRMED"
              /\ call[c].change \in Offered
              /\ call[c].revision = Len(r.revisions)
              /\ Tables(w, [stored.reviews EXCEPT ![i] =
                              Revised(r, Corrected(Latest(r), call[c].change))],
                        stored.days, stored.compositions)
         /\ call[c].op = "confirm" =>
              /\ r.status # "CONFIRMED"
              /\ call[c].revision = Len(r.revisions)
              /\ ConfirmRefusal(r, fresh) = "NONE"
              /\ call[c].pc = "create" =>
                   Tables(w, [stored.reviews EXCEPT ![i] = fresh],
                          stored.days, stored.compositions)
              /\ call[c].pc = "link" =>
                   Tables(w, [stored.reviews EXCEPT ![i] = fresh],
                          stored.days \cup {NewDay(c)}, stored.compositions)
              /\ call[c].pc = "commit" =>
                   Tables(w, [stored.reviews EXCEPT ![i] =
                                Settled(fresh, c)],
                          stored.days \cup {NewDay(c)}, stored.compositions)
         /\ call[c].op = "combine" =>
              /\ CombineRefusal(r, f) = "NONE"
              /\ \A x \in stored.compositions :
                   x.employee # i \/ x.flight # call[c].other
              /\ call[c].pc = "create" => w = stored
              /\ call[c].pc = "link" =>
                   Tables(w, stored.reviews, stored.days \cup {NewDay(c)},
                          stored.compositions)
              /\ call[c].pc = "commit" =>
                   Tables(w, stored.reviews, stored.days \cup {NewDay(c)},
                          stored.compositions \cup {pair})
  <1>1. WorkingCopy(c, call[c], stored)
    BY TransactionFacts
  <1>2. /\ call[c].op \in {"correct", "confirm", "combine"}
        /\ call[c].op = "correct" => call[c].change \in Offered
    BY TransactionFacts DEF Addressed, CallStates, Operations, Open
  <1> QED
    BY <1>1, <1>2 DEF WorkingCopy, NewDay

\* One more write of the transaction.
LEMMA WriteStep ==
  ASSUME ReviewAssumption, Inv, NEW c \in Calls, call[c].pc \in {"create", "link"},
         NEW pc \in {"link", "commit"}, NEW work \in Databases, Continue(c, pc, work),
         call[c].op = "confirm" =>
           LET fresh == Reevaluated(stored.reviews[call[c].import])
               reviews(new) == [stored.reviews EXCEPT ![call[c].import] = new]
           IN  Tables(work,
                 IF pc = "link" THEN reviews(fresh)
                 ELSE reviews(Settled(fresh, c)),
                 stored.days \cup {NewDay(c)}, stored.compositions),
         call[c].op = "combine" =>
           Tables(work, stored.reviews, stored.days \cup {NewDay(c)},
             IF pc = "link" THEN stored.compositions
             ELSE stored.compositions \cup
                    {[day |-> c, employee |-> call[c].import, flight |-> call[c].other]})
  PROVE  Inv'
  <1> DEFINE q == [call[c] EXCEPT !.pc = pc, !.work = work]
  <1>1. call[c].pc \in Open /\ call[c].pc # "claimed" /\ call[c].pc # "commit" /\ pc \in Open
    BY DEF Open
  <1>2. /\ call[c] \in CallStates /\ WorkingCopy(c, call[c], stored)
        /\ InTransaction(c) /\ InProgress(c)
    BY <1>1, TransactionFacts
  <1>3. /\ q.pc = pc /\ q.work = work /\ q.op = call[c].op
        /\ q.import = call[c].import /\ q.other = call[c].other
        /\ q.revision = call[c].revision
    BY <1>2 DEF CallStates
  <1>4. call[c].op \in {"confirm", "combine"}
    BY <1>1, Copies
  <1> HIDE DEF q
  <1>5. WorkingCopy(c, q, stored)
    <2>1. CASE call[c].op = "confirm"
      <3>1. NewDay(c) = DayOf(c, Reevaluated(stored.reviews[call[c].import]))
        BY <2>1 DEF NewDay
      <3> QED
        BY <1>1, <1>2, <1>3, <2>1, <3>1 DEF WorkingCopy
    <2>2. CASE call[c].op = "combine"
      <3>1. NewDay(c) = JointDay(c, stored.reviews[call[c].import],
                                 stored.reviews[call[c].other])
        BY <2>2 DEF NewDay
      <3> QED
        BY <1>1, <1>2, <1>3, <2>2, <3>1 DEF WorkingCopy
    <2> QED
      BY <1>4, <2>1, <2>2
  <1> QED
    BY <1>1, <1>2, <1>5, ContinueStep DEF q

LEMMA CreateDayStep ==
  ASSUME ReviewAssumption, Inv, NEW c \in Calls, CreateDay(c)
  PROVE  Inv'
  <1> DEFINE w == call[c].work
             new == [w EXCEPT !.days = @ \cup {NewDay(c)}]
  <1>1. call[c].pc = "create" /\ call[c].pc \in Open
    BY DEF CreateDay, Open
  <1>2. /\ w \in Databases /\ call[c].op \in {"confirm", "combine"}
        /\ stored \in Databases
    BY <1>1, Copies, CallFacts
  <1>3. Continue(c, "link", new)
    BY <1>1, SnapshotIsNewDay DEF CreateDay
  <1>4. Tables(new, w.reviews, w.days \cup {NewDay(c)}, w.compositions)
    BY <1>1, <1>2, NewDayFacts, TablesFacts
  <1> HIDE DEF new
  <1>5. new \in Databases
    BY <1>4 DEF Tables
  <1>6. CASE call[c].op = "confirm"
    <2>1. Tables(w, [stored.reviews EXCEPT ![call[c].import] =
                       Reevaluated(stored.reviews[call[c].import])],
                 stored.days, stored.compositions)
      BY <1>1, <1>6, Copies
    <2> QED
      BY <1>1, <1>3, <1>4, <1>5, <1>6, <2>1, WriteStep DEF Tables
  <1>7. CASE call[c].op = "combine"
    <2>1. w = stored
      BY <1>1, <1>7, Copies
    <2> QED
      BY <1>1, <1>3, <1>4, <1>5, <1>7, <2>1, WriteStep
  <1> QED
    BY <1>2, <1>6, <1>7

LEMMA LinkStep ==
  ASSUME ReviewAssumption, Inv, NEW c \in Calls, Link(c)
  PROVE  Inv'
  <1> DEFINE w == call[c].work
             i == call[c].import
             fresh == Reevaluated(stored.reviews[i])
             settled == Settled(fresh, c)
             pair == [day |-> c, employee |-> i, flight |-> call[c].other]
  <1>1. call[c].pc = "link" /\ call[c].pc \in Open
    BY DEF Link, Open
  <1>2. /\ w \in Databases /\ call[c].op \in {"confirm", "combine"}
        /\ i \in Imports /\ stored.reviews[i] \in Reviews
        /\ stored.reviews[i].revisions # <<>>
        /\ stored.reviews \in [Imports -> Reviews \cup {Nothing}]
    BY <1>1, Copies, CallFacts, TransactionFacts
  <1>3. CASE call[c].op = "confirm"
    <2> DEFINE new == [w EXCEPT !.reviews[i] = settled]
    <2>1. Tables(w, [stored.reviews EXCEPT ![i] = fresh],
                 stored.days \cup {NewDay(c)}, stored.compositions)
      BY <1>1, <1>3, Copies
    <2>2. fresh \in Reviews /\ settled \in Reviews
      BY <1>2, ReevaluatedFacts, SettledFacts
    <2>3. w.reviews[i] = fresh
      BY <1>2, <2>1 DEF Tables
    <2>4. Continue(c, "commit", new)
      BY <1>3, <2>3 DEF Link, Store, Review, Settled
    <2>5. Tables(new, [w.reviews EXCEPT ![i] = settled], w.days, w.compositions)
      BY <1>2, <2>2, TablesFacts
    <2> HIDE DEF new, settled, fresh
    <2>6. [w.reviews EXCEPT ![i] = settled] = [stored.reviews EXCEPT ![i] = settled]
      BY <1>2, <2>1 DEF Tables
    <2>7. /\ new \in Databases
          /\ Tables(new, [stored.reviews EXCEPT ![i] = settled],
                    stored.days \cup {NewDay(c)}, stored.compositions)
      BY <2>1, <2>5, <2>6 DEF Tables
    <2> QED
      BY <1>1, <1>3, <2>4, <2>7, WriteStep DEF settled, fresh
  <1>4. CASE call[c].op = "combine"
    <2> DEFINE new == [w EXCEPT !.compositions = @ \cup {pair}]
    <2>1. Tables(w, stored.reviews, stored.days \cup {NewDay(c)}, stored.compositions)
      BY <1>1, <1>4, Copies
    <2>2. pair \in Compositions
      BY <1>1, <1>4, TransactionFacts DEF Compositions
    <2>3. Continue(c, "commit", new)
      BY <1>4 DEF Link
    <2>4. Tables(new, w.reviews, w.days, w.compositions \cup {pair})
      BY <1>2, <2>2, TablesFacts
    <2> HIDE DEF new
    <2>5. /\ new \in Databases
          /\ Tables(new, stored.reviews, stored.days \cup {NewDay(c)},
                    stored.compositions \cup {pair})
      BY <2>1, <2>4 DEF Tables
    <2> QED
      BY <1>1, <1>4, <2>3, <2>5, WriteStep
  <1> QED
    BY <1>2, <1>3, <1>4

-----------------------------------------------------------------------------
(* Steps that change the tables.                                           *)

\* Nothing that was said becomes false when the tables grow.
LEMMA OthersKeep ==
  ASSUME ReviewAssumption, Inv, NEW db \in Databases, Grows(stored, db),
         NEW c \in Calls, call[c].pc \notin Open
  PROVE  CallOK(c, call[c], db)
  <1> DEFINE q == call[c]
             r == stored.reviews[q.import]
             r2 == db.reviews[q.import]
  <1>1. q \in CallStates /\ Addressed(q, stored) /\ Truthful(q, stored)
    BY CallFacts DEF CallOK
  <1>2. CASE q.pc = "unsent"
    BY <1>1, <1>2 DEF CallOK, Addressed, Truthful, Open
  <1>3. CASE q.pc # "unsent"
    <2>1. /\ q.import \in Imports /\ r # Nothing /\ r \in Reviews
          /\ Len(r.revisions) \in Nat
      BY <1>1, <1>3, CallFacts, LatestFacts DEF Addressed
    <2>2. KeepsReview(r, r2)
      BY <2>1 DEF Grows
    <2>3. r2 \in Reviews /\ Len(r2.revisions) \in Nat
      BY <2>1, <2>2, TablesFacts DEF KeepsReview, Reviews
    <2> HIDE DEF r, r2
    <2>4. q.op = "combine" => db.reviews[q.other] # Nothing
      BY <1>1, <1>3 DEF Addressed, Grows, KeepsReview
    <2>5. q.op # "combine" => q.revision \in 1..Len(r.revisions)
      BY <1>1, <1>3 DEF Addressed, r
    <2>6. Addressed(q, db)
      BY <1>1, <1>3, <2>1, <2>2, <2>3, <2>4, <2>5 DEF Addressed, KeepsReview, r2
    <2>7. Truthful(q, db)
      <3>1. ASSUME q.reply = "CORRECTED"
            PROVE  /\ q.op = "correct" /\ q.revision < Len(r2.revisions)
                   /\ r2.revisions[q.revision + 1]
                        = Corrected(r2.revisions[q.revision], q.change)
        <4>1. /\ q.op = "correct" /\ q.revision < Len(r.revisions)
              /\ r.revisions[q.revision + 1] = Corrected(r.revisions[q.revision], q.change)
          BY <1>1, <3>1 DEF Truthful, r
        <4>2. q.revision \in 1..Len(r.revisions) /\ q.revision + 1 \in 1..Len(r.revisions)
          BY <2>1, <2>5, <4>1
        <4> QED
          BY <2>1, <2>2, <2>3, <4>1, <4>2 DEF KeepsReview
      <3>2. q.reply = "CONFIRMED" =>
              /\ q.op = "confirm" /\ r2.status = "CONFIRMED" /\ r2.day = q.day
              /\ r2.revisions[q.revision].date = Latest(r2).date
              /\ r2.revisions[q.revision].rows = Latest(r2).rows
        BY <1>1, <2>2 DEF Truthful, KeepsReview, r
      <3>3. q.reply = "COMBINED" =>
              /\ q.op = "combine"
              /\ [day |-> q.day, employee |-> q.import, flight |-> q.other]
                   \in db.compositions
        BY <1>1 DEF Truthful, Grows
      <3> QED
        BY <3>1, <3>2, <3>3 DEF Truthful, r2
    <2> QED
      BY <2>6, <2>7 DEF CallOK
  <1> QED
    BY <1>2, <1>3

LEMMA UploadStep ==
  ASSUME ReviewAssumption, Inv, NEW i \in Imports, Upload(i)
  PROVE  /\ Inv'
         /\ stored.reviews[i] = Nothing
         /\ \E r \in Reviews :
              /\ Len(r.revisions) = 1 /\ r.day = Nothing
              /\ stored' \in Databases
              /\ stored'.reviews = [stored.reviews EXCEPT ![i] = r]
              /\ stored'.days = stored.days
              /\ stored'.compositions = stored.compositions
  <1>1. PICK w \in Workbooks :
          stored' = [stored EXCEPT !.reviews[i] = Uploaded(w, Revalidate(w.preview))]
    BY DEF Upload
  <1>2. /\ stored.reviews[i] = Nothing /\ UNCHANGED <<call, optimized>>
        /\ \A c \in Calls : call[c].pc \notin Open
    BY DEF Upload, InTransaction, Open
  <1> DEFINE p == Revalidate(w.preview)
             r == Uploaded(w, p)
  <1>3. p \in Previews /\ w.type \in Types /\ w.config \in Configs
    BY RevalidateFacts DEF ReviewAssumption, Parsed
  <1>4. <<p>> \in Seq(Previews) /\ Status(p) \in Statuses /\ Status(p) # "CONFIRMED"
    BY <1>3, StatusFacts
  <1>5. /\ r \in Reviews /\ r.revisions = <<p>> /\ r.day = Nothing
        /\ r.status # "CONFIRMED" /\ Len(r.revisions) = 1 /\ r.revisions # <<>>
    BY <1>3, <1>4 DEF Uploaded, Reviews
  <1>6. stored \in Databases
    BY StoredFacts
  <1> HIDE DEF r
  <1>7. Tables(stored', [stored.reviews EXCEPT ![i] = r], stored.days, stored.compositions)
    BY <1>1, <1>5, <1>6, TablesFacts DEF r
  <1>8. SettledReview(r, stored.days)
    BY <1>5 DEF SettledReview
  <1>9. Consistent(stored') /\ Grows(stored, stored')
    BY <1>2, <1>5, <1>6, <1>7, <1>8, ReviewStored DEF Tables, Inv, Consistent
  <1>10. Inv'
    <2>1. TypeOK'
      BY <1>2, <1>7 DEF Inv, TypeOK, Tables
    <2>2. \A c \in Calls : CallOK(c, call'[c], stored')
      BY <1>2, <1>7, <1>9, OthersKeep DEF Tables
    <2>3. OneTransaction'
      BY <1>2 DEF OneTransaction, InTransaction, Open
    <2>4. UsedIds' /\ RivalsOK' /\ OptimizedOK'
      BY <1>2, <1>7 DEF Inv, UsedIds, RivalsOK, OptimizedOK, Tables
    <2> QED
      BY <1>9, <2>1, <2>2, <2>3, <2>4 DEF Inv
  <1> QED
    BY <1>2, <1>5, <1>7, <1>10 DEF Tables

LEMMA OptimizeStep ==
  ASSUME ReviewAssumption, Inv, Optimize
  PROVE  Inv'
  <1>1. PICK d \in stored.days :
          Ready(d) /\ optimized' = optimized \cup {d.id} /\ UNCHANGED <<stored, call>>
    BY DEF Optimize
  <1>2. \E x \in stored.compositions : x.day = d.id
    <2> SUFFICES ASSUME ~Composed(d.id) PROVE FALSE
      BY DEF Composed
    <2>1. "EMPLOYEES" \in ConfirmedTypes(d.id) /\ "FLIGHTS" \in ConfirmedTypes(d.id)
      BY <1>1 DEF Ready
    <2>2. PICK i \in Imports :
            /\ stored.reviews[i] # Nothing /\ stored.reviews[i].day = d.id
            /\ stored.reviews[i].type = "EMPLOYEES"
      BY <2>1 DEF ConfirmedTypes
    <2>3. /\ SettledReview(stored.reviews[i], stored.days)
          /\ d \in Days /\ d.id \in Calls
      BY <2>2, StoredFacts DEF Days
    <2>4. d.id # Nothing
      BY <2>3 DEF ReviewAssumption
    <2>5. DayOf(d.id, stored.reviews[i]) \in stored.days
      BY <2>2, <2>3, <2>4 DEF SettledReview
    <2>6. d = DayOf(d.id, stored.reviews[i])
      BY <2>5 DEF Inv, Consistent, DayOf
    <2>7. d.flights = Nothing
      BY <2>2, <2>6 DEF DayOf
    <2> QED
      BY <1>1, <2>7 DEF Ready, Used
  <1>3. Used(d.shifts) /\ Used(d.flights)
    BY <1>1 DEF Ready
  <1>4. OptimizedOK'
    BY <1>1, <1>2, <1>3 DEF Inv, OptimizedOK
  <1>5. TypeOK'
    BY <1>1, CallFacts, TablesFacts DEF Inv, TypeOK, Databases, Days
  <1>6. \A c \in Calls : CallOK(c, call'[c], stored')
    BY <1>1 DEF Inv
  <1>7. OneTransaction' /\ Consistent(stored') /\ UsedIds' /\ RivalsOK'
    BY <1>1 DEF Inv, OneTransaction, InTransaction, UsedIds, RivalsOK
  <1> QED
    BY <1>4, <1>5, <1>6, <1>7 DEF Inv

\* The three transactions that commit, and the day that each creates.
LEMMA CommitsCorrection ==
  ASSUME ReviewAssumption, Inv, NEW c \in Calls, call[c].pc = "commit",
         call[c].op = "correct"
  PROVE  LET i == call[c].import
             r == stored.reviews[i]
             p == Corrected(Latest(r), call[c].change)
             w == call[c].work
         IN  /\ p \in Previews /\ r.status # "CONFIRMED" /\ r.day = Nothing
             /\ call[c].revision = Len(r.revisions)
             /\ w.reviews = [stored.reviews EXCEPT ![i] = Revised(r, p)]
             /\ w.days = stored.days /\ w.compositions = stored.compositions
             /\ Consistent(w) /\ Grows(stored, w)
  <1> DEFINE i == call[c].import
             r == stored.reviews[i]
             p == Corrected(Latest(r), call[c].change)
             w == call[c].work
  <1>1. call[c].pc \in Open
    BY DEF Open
  <1>2. /\ i \in Imports /\ r \in Reviews /\ r.revisions # <<>>
        /\ SettledReview(r, stored.days)
    BY <1>1, TransactionFacts, CallFacts
  <1>3. /\ call[c].change \in Offered /\ r.status # "CONFIRMED"
        /\ call[c].revision = Len(r.revisions)
        /\ Tables(w, [stored.reviews EXCEPT ![i] = Revised(r, p)],
                  stored.days, stored.compositions)
    BY <1>1, Copies
  <1>4. p \in Previews /\ r.day = Nothing
    BY <1>2, <1>3, LatestFacts, CorrectedType DEF SettledReview
  <1> HIDE DEF p
  <1> DEFINE r2 == Revised(r, p)
  <1>5. /\ r2 \in Reviews /\ r2.day = Nothing /\ r2.status # "CONFIRMED"
        /\ r2.revisions # <<>>
        /\ KeepsReview(r, r2)
    <2>1. r2 \in Reviews /\ r2 # Nothing /\ Len(r.revisions) \in Nat
      BY <1>2, <1>4, RevisedFacts, LatestFacts DEF ReviewAssumption
    <2> QED
      BY <1>2, <1>3, <1>4, <2>1, RevisedFacts, StatusFacts DEF KeepsReview
  <1> HIDE DEF r2
  <1>6. SettledReview(r2, w.days)
    BY <1>5 DEF SettledReview
  <1>7. Consistent(w) /\ Grows(stored, w)
    BY <1>2, <1>3, <1>5, <1>6, ReviewStored, CallFacts DEF Tables, Inv, Consistent, r2
  <1> QED
    BY <1>3, <1>4, <1>7 DEF Tables, p

LEMMA CommitsConfirmation ==
  ASSUME ReviewAssumption, Inv, NEW c \in Calls, call[c].pc = "commit",
         call[c].op = "confirm"
  PROVE  LET i == call[c].import
             r == stored.reviews[i]
             fresh == Reevaluated(r)
             r2 == Settled(fresh, c)
             w == call[c].work
         IN  /\ r.status # "CONFIRMED" /\ r.day = Nothing
             /\ call[c].revision = Len(r.revisions)
             /\ fresh \in Reviews /\ Resolved(Latest(r))
             /\ r2.day = c /\ r2.status = "CONFIRMED"
             /\ r2.revisions = fresh.revisions /\ Latest(r2) = Latest(fresh)
             /\ r2.type = r.type /\ r2.config = r.config
             /\ w.reviews = [stored.reviews EXCEPT ![i] = r2]
             /\ w.days = stored.days \cup {DayOf(c, fresh)} /\ DayOf(c, fresh).id = c
             /\ w.compositions = stored.compositions
             /\ Consistent(w) /\ Grows(stored, w)
  <1> DEFINE i == call[c].import
             r == stored.reviews[i]
             fresh == Reevaluated(r)
             r2 == Settled(fresh, c)
             w == call[c].work
  <1>1. call[c].pc \in Open
    BY DEF Open
  <1>2. /\ i \in Imports /\ r \in Reviews /\ r.revisions # <<>>
        /\ SettledReview(r, stored.days)
        /\ \A d \in stored.days : d.id # c
    BY <1>1, TransactionFacts, CallFacts
  <1>3. /\ r.status # "CONFIRMED" /\ r.day = Nothing
        /\ call[c].revision = Len(r.revisions)
        /\ ConfirmRefusal(r, fresh) = "NONE"
        /\ Tables(w, [stored.reviews EXCEPT ![i] = r2],
                  stored.days \cup {DayOf(c, fresh)}, stored.compositions)
    BY <1>1, <1>2, Copies DEF NewDay, SettledReview
  <1>4. /\ fresh \in Reviews /\ fresh.revisions # <<>>
        /\ fresh.type = r.type /\ fresh.config = r.config
        /\ Latest(fresh).date = Latest(r).date /\ Latest(fresh).rows = Latest(r).rows
        /\ Len(r.revisions) <= Len(fresh.revisions)
        /\ \A n \in 1..Len(r.revisions) : fresh.revisions[n] = r.revisions[n]
    BY <1>2, ReevaluatedFacts
  <1> HIDE DEF fresh
  <1>5. Resolved(Latest(fresh)) /\ Resolved(Latest(r))
    <2>1. Resolved(Latest(fresh))
      BY <1>3, <1>4, ConfirmableIsResolved
    <2> QED
      BY <1>4, <2>1 DEF Resolved
  <1>6. /\ r2 \in Reviews /\ r2.day = c /\ r2.status = "CONFIRMED"
        /\ r2.type = r.type /\ r2.config = r.config
        /\ r2.revisions = fresh.revisions /\ Latest(r2) = Latest(fresh)
    BY <1>4, SettledFacts
  <1> HIDE DEF r2
  <1>7. r2 # Nothing /\ KeepsReview(r, r2)
    BY <1>3, <1>4, <1>6 DEF KeepsReview, ReviewAssumption
  <1>8. DayOf(c, fresh).id = c /\ DayOf(c, r2) = DayOf(c, fresh)
    BY <1>4, <1>6 DEF DayOf
  <1>9. SettledReview(r2, w.days)
    BY <1>3, <1>4, <1>5, <1>6, <1>8 DEF SettledReview, Tables
  <1>10. \A d, d2 \in w.days : d.id = d2.id => d = d2
    BY <1>2, <1>3, <1>8 DEF Tables, Inv, Consistent
  <1>11. Consistent(w) /\ Grows(stored, w)
    BY <1>2, <1>3, <1>6, <1>7, <1>9, <1>10, ReviewStored, CallFacts DEF Tables, Inv
  <1> QED
    BY <1>3, <1>4, <1>5, <1>6, <1>8, <1>11 DEF Tables, r2, fresh

LEMMA CommitsCombination ==
  ASSUME ReviewAssumption, Inv, NEW c \in Calls, call[c].pc = "commit",
         call[c].op = "combine"
  PROVE  LET e == stored.reviews[call[c].import]
             f == stored.reviews[call[c].other]
             pair == [day |-> c, employee |-> call[c].import, flight |-> call[c].other]
             w == call[c].work
         IN  /\ CombineRefusal(e, f) = "NONE"
             /\ \A x \in stored.compositions :
                  x.employee # call[c].import \/ x.flight # call[c].other
             /\ w.reviews = stored.reviews
             /\ w.days = stored.days \cup {JointDay(c, e, f)} /\ JointDay(c, e, f).id = c
             /\ w.compositions = stored.compositions \cup {pair}
             /\ Consistent(w) /\ Grows(stored, w)
  <1> DEFINE e == stored.reviews[call[c].import]
             f == stored.reviews[call[c].other]
             pair == [day |-> c, employee |-> call[c].import, flight |-> call[c].other]
             w == call[c].work
             d == JointDay(c, e, f)
  <1>1. call[c].pc \in Open
    BY DEF Open
  <1>2. /\ call[c].import \in Imports /\ call[c].other \in Imports
        /\ e \in Reviews /\ f \in Reviews /\ e.revisions # <<>> /\ f.revisions # <<>>
        /\ \A d2 \in stored.days : d2.id # c
    BY <1>1, TransactionFacts
  <1>3. /\ CombineRefusal(e, f) = "NONE"
        /\ \A x \in stored.compositions :
             x.employee # call[c].import \/ x.flight # call[c].other
        /\ Tables(w, stored.reviews, stored.days \cup {d}, stored.compositions \cup {pair})
    BY <1>1, Copies DEF NewDay
  <1>4. d \in Days /\ d.id = c
    BY <1>2, DayFacts
  <1>5. /\ pair \in Compositions /\ pair.day = c
        /\ pair.employee = call[c].import /\ pair.flight = call[c].other
    BY <1>2 DEF Compositions
  <1>6. /\ e.type = "EMPLOYEES" /\ f.type = "FLIGHTS"
        /\ e.status = "CONFIRMED" /\ f.status = "CONFIRMED"
        /\ Latest(e).date = Latest(f).date /\ e.config = f.config
    BY <1>3 DEF CombineRefusal
  <1>7. e # Nothing /\ f # Nothing
    BY <1>2 DEF ReviewAssumption
  <1> HIDE DEF d, pair
  <1>8. JoinedPair(pair, w)
    BY <1>3, <1>5, <1>6, <1>7 DEF JoinedPair, Tables, d
  <1>9. Consistent(w) /\ Grows(stored, w)
    BY <1>2, <1>3, <1>4, <1>5, <1>8, PairStored, CallFacts DEF Tables, Inv
  <1> QED
    BY <1>3, <1>4, <1>9 DEF Tables, d, pair

LEMMA CommitStores ==
  ASSUME ReviewAssumption, Inv, NEW c \in Calls, Commit(c)
  PROVE  /\ call[c].pc = "commit" /\ call[c].pc \in Open
         /\ call[c] \in CallStates
         /\ call[c].op \in {"correct", "confirm", "combine"}
         /\ stored' = call[c].work /\ stored' \in Databases
         /\ Consistent(stored') /\ Grows(stored, stored')
         /\ \A d \in stored'.days : d \in stored.days \/ d.id = c
  <1>1. call[c].pc = "commit" /\ call[c].pc \in Open /\ stored' = call[c].work
    BY DEF Commit, Open
  <1>2. /\ call[c].op \in {"correct", "confirm", "combine"} /\ stored' \in Databases
        /\ call[c] \in CallStates
    BY <1>1, Copies, CallFacts
  <1>3. CASE call[c].op = "correct"
    BY <1>1, <1>2, <1>3, CommitsCorrection
  <1>4. CASE call[c].op = "confirm"
    <2>1. /\ Consistent(call[c].work) /\ Grows(stored, call[c].work)
          /\ \E d0 : d0.id = c /\ call[c].work.days = stored.days \cup {d0}
      BY <1>1, <1>4, CommitsConfirmation
    <2> QED
      BY <1>1, <1>2, <2>1
  <1>5. CASE call[c].op = "combine"
    BY <1>1, <1>2, <1>5, CommitsCombination
  <1> QED
    BY <1>1, <1>2, <1>3, <1>4, <1>5

LEMMA CommitStep ==
  ASSUME ReviewAssumption, Inv, NEW c \in Calls, Commit(c)
  PROVE  Inv'
  <1>1. PICK reply \in {Success(call[c].op), "LOST"} :
          call' = [call EXCEPT ![c] =
            [@ EXCEPT !.pc = "done", !.work = Nothing, !.reply = reply,
                      !.day = IF reply = "LOST" \/ call[c].op = "correct"
                              THEN Nothing ELSE c]]
    BY DEF Commit
  <1> DEFINE q == [call[c] EXCEPT !.pc = "done", !.work = Nothing, !.reply = reply,
                     !.day = IF reply = "LOST" \/ call[c].op = "correct" THEN Nothing ELSE c]
             r == stored.reviews[call[c].import]
             r2 == stored'.reviews[call[c].import]
  <1>2. /\ call[c].pc = "commit" /\ call[c].pc \in Open
        /\ call[c] \in CallStates
        /\ call[c].op \in {"correct", "confirm", "combine"}
        /\ stored' = call[c].work /\ stored' \in Databases /\ stored \in Databases
        /\ Consistent(stored') /\ Grows(stored, stored')
        /\ \A d \in stored'.days : d \in stored.days \/ d.id = c
    BY CommitStores, StoredFacts
  <1>3. optimized' = optimized
    BY DEF Commit
  <1>4. /\ reply \in Replies
        /\ reply = "CORRECTED" => call[c].op = "correct"
        /\ reply = "CONFIRMED" => call[c].op = "confirm"
        /\ reply = "COMBINED" => call[c].op = "combine"
    BY <1>2 DEF Success, Replies
  <1>5. /\ q \in CallStates
        /\ q.pc = "done" /\ q.reply = reply /\ q.op = call[c].op
        /\ q.import = call[c].import /\ q.other = call[c].other
        /\ q.change = call[c].change /\ q.revision = call[c].revision
        /\ reply \in {"CONFIRMED", "COMBINED"} => q.day = c
    BY <1>2, <1>4 DEF CallStates, Stages
  <1>6. /\ call' \in [Calls -> CallStates]
        /\ call'[c] = q
        /\ \A o \in Calls \ {c} : call'[o] = call[o]
    BY <1>1, <1>5, Replace DEF Inv, TypeOK
  <1> HIDE DEF q
  <1>7. \A o \in Calls \ {c} : call[o].pc \notin Open
    BY <1>2 DEF Inv, OneTransaction, InTransaction, Open
  <1>8. /\ call[c].import \in Imports /\ r \in Reviews /\ r # Nothing
        /\ Len(r.revisions) \in Nat \ {0}
        /\ stored.reviews \in [Imports -> Reviews \cup {Nothing}]
        /\ r.revisions # <<>>
        /\ Addressed(call[c], stored)
    BY <1>2, TransactionFacts, LatestFacts, StoredFacts
  <1>9. KeepsReview(r, r2)
    BY <1>2, <1>8 DEF Grows
  <1>10. r2 \in Reviews /\ Len(r2.revisions) \in Nat
    BY <1>2, <1>8, <1>9, TablesFacts DEF KeepsReview, Reviews
  <1>11. Addressed(q, stored')
    <2>1. q.op = "combine" => stored'.reviews[q.other] # Nothing
      BY <1>2, <1>5, <1>8 DEF Addressed, Grows, KeepsReview
    <2>2. q.op # "combine" => q.revision \in 1..Len(r.revisions)
      BY <1>2, <1>5, <1>8 DEF Addressed
    <2> HIDE DEF r, r2
    <2>3. /\ r2 # Nothing
          /\ q.op # "combine" => q.revision \in 1..Len(r2.revisions)
      BY <1>8, <1>9, <1>10, <2>2 DEF KeepsReview
    <2> QED
      BY <1>2, <1>5, <1>8, <2>1, <2>3 DEF Addressed, r2
  <1>12. Truthful(q, stored')
    <2>1. CASE reply = "CORRECTED"
      <3> DEFINE p == Corrected(Latest(r), call[c].change)
      <3>1. /\ r2 = Revised(r, p) /\ p \in Previews
            /\ call[c].revision = Len(r.revisions)
        BY <1>2, <1>4, <1>8, <2>1, CommitsCorrection
      <3>2. Latest(r) = r.revisions[Len(r.revisions)]
        BY <1>8, LatestFacts
      <3> HIDE DEF p, r, r2
      <3>3. /\ r2.revisions[Len(r.revisions) + 1] = p
            /\ Len(r2.revisions) = Len(r.revisions) + 1
            /\ r2.revisions[Len(r.revisions)] = r.revisions[Len(r.revisions)]
        <4>1. /\ r.revisions \in Seq(Previews) /\ p \in Previews
              /\ r2.revisions = Append(r.revisions, p)
          BY <1>8, <3>1, RevisedFacts DEF Reviews
        <4> QED
          BY <1>8, <4>1
      <3> QED
        BY <1>4, <1>5, <1>8, <2>1, <3>1, <3>2, <3>3 DEF Truthful, p, r2
    <2>2. CASE reply = "CONFIRMED"
      <3> DEFINE fresh == Reevaluated(r)
      <3>1. /\ call[c].revision = Len(r.revisions)
            /\ r2.day = c /\ r2.status = "CONFIRMED"
            /\ Latest(r2) = Latest(fresh)
        <4>1. call[c].pc = "commit" /\ call[c].op = "confirm" /\ stored' = call[c].work
          BY <1>2, <1>4, <2>2
        <4>2. /\ call[c].revision = Len(r.revisions)
              /\ call[c].work.reviews =
                   [stored.reviews EXCEPT ![call[c].import] = Settled(fresh, c)]
              /\ fresh \in Reviews
          BY <4>1, CommitsConfirmation
        <4>3. r2 = Settled(fresh, c)
          BY <1>8, <4>1, <4>2
        <4> QED
          BY <4>2, <4>3, SettledFacts
      <3>2. /\ Latest(fresh).date = Latest(r).date /\ Latest(fresh).rows = Latest(r).rows
            /\ Latest(r) = r.revisions[Len(r.revisions)]
        BY <1>8, ReevaluatedFacts, LatestFacts
      <3>3. r2.revisions[Len(r.revisions)] = r.revisions[Len(r.revisions)]
        <4> HIDE DEF r, r2
        <4>1. Len(r.revisions) \in 1..Len(r.revisions)
          BY <1>8
        <4> QED
          BY <1>9, <4>1 DEF KeepsReview
      <3> HIDE DEF fresh, r, r2
      <3> QED
        BY <1>4, <1>5, <2>2, <3>1, <3>2, <3>3 DEF Truthful, r2
    <2>3. CASE reply = "COMBINED"
      BY <1>2, <1>4, <1>5, <2>3, CommitsCombination DEF Truthful
    <2>4. CASE reply = "LOST"
      BY <1>5, <2>4 DEF Truthful
    <2> QED
      BY <1>2, <2>1, <2>2, <2>3, <2>4 DEF Success
  <1>13. ASSUME NEW o \in Calls PROVE CallOK(o, call'[o], stored')
    <2>1. CASE o = c
      BY <1>5, <1>6, <1>11, <1>12, <2>1 DEF CallOK, Open
    <2>2. CASE o # c
      BY <1>2, <1>6, <1>7, <2>2, OthersKeep
    <2> QED
      BY <2>1, <2>2
  <1>14. TypeOK'
    BY <1>2, <1>3, <1>6 DEF Inv, TypeOK
  <1>15. OneTransaction'
    BY <1>5, <1>6 DEF Inv, OneTransaction, InTransaction
  <1>16. UsedIds'
    <2>1. ASSUME NEW d \in stored'.days PROVE call'[d.id].pc = "done"
      <3>1. d.id \in Calls
        BY <1>2, TablesFacts DEF Days
      <3>2. CASE d.id = c
        BY <1>5, <1>6, <3>2
      <3>3. CASE d.id # c
        BY <1>2, <1>6, <3>1, <3>3 DEF Inv, UsedIds
      <3> QED
        BY <3>2, <3>3
    <2> QED
      BY <2>1 DEF UsedIds
  <1>17. RivalsOK'
    <2>1. ASSUME reply = "CORRECTED", NEW o \in Calls \ {c}, call[o].reply = "CORRECTED",
                 call[o].import = call[c].import, call[o].revision = call[c].revision
          PROVE  FALSE
      <3>1. call[o].revision < Len(r.revisions)
        BY <2>1, CallFacts DEF CallOK, Truthful
      <3>2. call[c].revision = Len(r.revisions)
        BY <1>2, <1>4, <2>1, CommitsCorrection
      <3> QED
        BY <1>8, <2>1, <3>1, <3>2
    <2> QED
      BY <1>5, <1>6, <2>1 DEF Inv, RivalsOK
  <1>18. OptimizedOK'
    BY <1>2, <1>3 DEF Inv, OptimizedOK, Grows
  <1> QED
    BY <1>2, <1>13, <1>14, <1>15, <1>16, <1>17, <1>18 DEF Inv

-----------------------------------------------------------------------------
(* The invariant holds.                                                    *)

LEMMA InitInv == ASSUME ReviewAssumption, Init PROVE Inv
  <1>1. PICK w \in [Earlier -> Left] :
          stored = [reviews |-> [i \in Imports |->
                      IF i \in Earlier THEN Uploaded(w[i], w[i].preview) ELSE Nothing],
                    days |-> {}, compositions |-> {}]
    BY DEF Init
  <1>2. ASSUME NEW i \in Earlier
        PROVE  /\ Uploaded(w[i], w[i].preview) \in Reviews
               /\ SettledReview(Uploaded(w[i], w[i].preview), {})
    <2>1. w[i].preview \in Previews /\ w[i].type \in Types /\ w[i].config \in Configs
      BY DEF ReviewAssumption, Parsed
    <2>2. /\ <<w[i].preview>> \in Seq(Previews)
          /\ Status(w[i].preview) \in Statuses /\ Status(w[i].preview) # "CONFIRMED"
      BY <2>1, StatusFacts
    <2> QED
      BY <2>1, <2>2 DEF Uploaded, Reviews, SettledReview
  <1>3. /\ stored \in Databases /\ stored.days = {} /\ stored.compositions = {}
        /\ \A i \in Imports : stored.reviews[i] # Nothing => SettledReview(stored.reviews[i], {})
    BY <1>1, <1>2 DEF Databases
  <1>4. call = [c \in Calls |-> Unsent] /\ optimized = {}
    BY DEF Init
  <1>5. Unsent \in CallStates /\ Unsent.pc = "unsent" /\ Unsent.reply = "NONE"
    BY DEF Unsent, CallStates, Stages, Operations, Replies
  <1>6. TypeOK
    BY <1>3, <1>4, <1>5 DEF TypeOK
  <1>7. \A c \in Calls : CallOK(c, call[c], stored)
    BY <1>4, <1>5 DEF CallOK, Addressed, Truthful, Open
  <1>8. OneTransaction /\ RivalsOK
    BY <1>4, <1>5 DEF OneTransaction, RivalsOK, InTransaction
  <1>9. Consistent(stored) /\ UsedIds /\ OptimizedOK
    BY <1>3, <1>4 DEF Consistent, UsedIds, OptimizedOK
  <1> QED
    BY <1>6, <1>7, <1>8, <1>9 DEF Inv

LEMMA NextInv == ASSUME ReviewAssumption, Inv, [Next]_vars PROVE Inv'
  <1>1. ASSUME NEW i \in Imports, Upload(i) PROVE Inv'
    BY <1>1, UploadStep
  <1>2. ASSUME NEW c \in Calls, CallStep(c) PROVE Inv'
    BY <1>2, SendStepOK, ClaimStep, CorrectStep, ConfirmStep, CombineStep, CreateDayStep,
       LinkStep, CommitStep, FailStep DEF CallStep
  <1>3. CASE Optimize
    BY <1>3, OptimizeStep
  <1>4. CASE UNCHANGED vars
    <2>1. \A c \in Calls : CallOK(c, call'[c], stored')
      BY <1>4 DEF vars, Inv
    <2> QED
      BY <1>4, <2>1 DEF vars, Inv, TypeOK, OneTransaction, InTransaction, UsedIds,
         RivalsOK, OptimizedOK
  <1> QED
    BY <1>1, <1>2, <1>3, <1>4 DEF Next

LEMMA AlwaysInv == Spec => []Inv
  <1>1. Init => Inv
    BY InitInv, ReviewAssumption
  <1>2. Inv /\ [Next]_vars => Inv'
    BY NextInv, ReviewAssumption
  <1> QED
    BY <1>1, <1>2, PTL DEF Spec

-----------------------------------------------------------------------------

\* Every variable keeps its type: the tables, and the local variables and the
\* working copy of every request, through every refusal, failure and commit.
THEOREM TypeCorrect == Spec => []TypeOK
  <1>1. Inv => TypeOK
    BY DEF Inv
  <1> QED
    BY <1>1, AlwaysInv, PTL

\* What correct, confirm and combine answered stays true, however requests race,
\* fail and are repeated.
THEOREM AnswersStayTrue == Spec => []AnswersHold
  <1>1. ASSUME Inv PROVE AnswersHold
    <2> SUFFICES ASSUME NEW c \in Calls
                 PROVE  /\ call[c].reply = "CORRECTED" => CorrectionHolds(c)
                        /\ call[c].reply = "CONFIRMED" => ConfirmationHolds(c)
                        /\ call[c].reply = "COMBINED" =>
                             {x \in stored.compositions :
                                x.employee = call[c].import /\ x.flight = call[c].other}
                               = {[day |-> call[c].day, employee |-> call[c].import,
                                   flight |-> call[c].other]}
      BY DEF AnswersHold
    <2>1. /\ call[c] \in CallStates /\ Addressed(call[c], stored)
          /\ Truthful(call[c], stored)
      BY <1>1, CallFacts DEF CallOK
    <2>2. call[c].reply = "CORRECTED" => CorrectionHolds(c)
      BY <1>1, <2>1 DEF Truthful, CorrectionHolds, Inv, RivalsOK
    <2>3. ASSUME call[c].reply = "CONFIRMED" PROVE ConfirmationHolds(c)
      <3> DEFINE r == stored.reviews[call[c].import]
      <3>1. /\ r.status = "CONFIRMED" /\ r.day = call[c].day
            /\ r.revisions[call[c].revision].date = Latest(r).date
            /\ r.revisions[call[c].revision].rows = Latest(r).rows
        BY <2>1, <2>3 DEF Truthful
      <3>2. r \in Reviews /\ SettledReview(r, stored.days)
        BY <1>1, <2>1, <2>3, StoredFacts DEF Addressed
      <3>3. DayOf(r.day, r) \in stored.days /\ r.type \in {"EMPLOYEES", "FLIGHTS"}
        BY <3>1, <3>2 DEF SettledReview, Reviews, Types
      <3>4. /\ DayOf(r.day, r).id = r.day /\ DayOf(r.day, r).date = Latest(r).date
            /\ Latest(r).rows = IF r.type = "EMPLOYEES" THEN DayOf(r.day, r).shifts
                                ELSE DayOf(r.day, r).flights
        BY <3>3 DEF DayOf
      <3> QED
        BY <3>1, <3>3, <3>4 DEF ConfirmationHolds
    <2>4. ASSUME call[c].reply = "COMBINED"
          PROVE  {x \in stored.compositions :
                    x.employee = call[c].import /\ x.flight = call[c].other}
                   = {[day |-> call[c].day, employee |-> call[c].import,
                       flight |-> call[c].other]}
      BY <1>1, <2>1, <2>4 DEF Truthful, Inv, Consistent
    <2> QED
      BY <2>2, <2>3, <2>4
  <1> QED
    BY <1>1, AlwaysInv, PTL

\* The readiness gate lets through only days whose every input was confirmed.
THEOREM OnlyReviewedInput == Spec => []OptimizedDaysAreReviewed
  <1>1. ASSUME Inv PROVE OptimizedDaysAreReviewed
    <2> SUFFICES ASSUME NEW id \in optimized
                 PROVE  \E d \in stored.days, x \in stored.compositions :
                   LET e == stored.reviews[x.employee]  f == stored.reviews[x.flight] IN
                   /\ d.id = id /\ x.day = id
                   /\ e.type = "EMPLOYEES" /\ f.type = "FLIGHTS"
                   /\ e.status = "CONFIRMED" /\ f.status = "CONFIRMED"
                   /\ d.config = e.config /\ d.config = f.config
                   /\ d.date = Latest(e).date /\ d.date = Latest(f).date
                   /\ d.shifts = Latest(e).rows /\ d.flights = Latest(f).rows
                   /\ \A r \in Rows :
                        /\ d.shifts[r] = Excluded \/ d.date \in d.shifts[r]
                        /\ d.flights[r] = Excluded \/ d.date \in d.flights[r]
                   /\ Used(d.shifts) /\ Used(d.flights)
      BY DEF OptimizedDaysAreReviewed
    <2>1. PICK x \in stored.compositions, d \in stored.days :
            /\ x.day = id /\ d.id = id /\ Used(d.shifts) /\ Used(d.flights)
      BY <1>1 DEF Inv, OptimizedOK
    <2> DEFINE e == stored.reviews[x.employee]
               f == stored.reviews[x.flight]
    <2>2. x.employee \in Imports /\ x.flight \in Imports
      BY <1>1, StoredFacts, TablesFacts DEF Compositions
    <2>3. JoinedPair(x, stored)
      BY <1>1 DEF Inv, Consistent
    <2>4. /\ e # Nothing /\ f # Nothing /\ e.type = "EMPLOYEES" /\ f.type = "FLIGHTS"
          /\ e.status = "CONFIRMED" /\ f.status = "CONFIRMED"
          /\ Latest(e).date = Latest(f).date /\ e.config = f.config
          /\ JointDay(id, e, f) \in stored.days
      BY <2>1, <2>3 DEF JoinedPair
    <2>5. Resolved(Latest(e)) /\ Resolved(Latest(f))
      BY <1>1, <2>2, <2>4, StoredFacts DEF SettledReview
    <2>6. d = JointDay(id, e, f)
      BY <1>1, <2>1, <2>4 DEF Inv, Consistent, JointDay
    <2>7. /\ d.config = e.config /\ d.date = Latest(e).date
          /\ d.shifts = Latest(e).rows /\ d.flights = Latest(f).rows
      BY <2>6 DEF JointDay
    <2> HIDE DEF e, f
    <2>8. \A r \in Rows :
            /\ d.shifts[r] = Excluded \/ d.date \in d.shifts[r]
            /\ d.flights[r] = Excluded \/ d.date \in d.flights[r]
      BY <2>4, <2>5, <2>7 DEF Resolved
    <2> QED
      BY <2>1, <2>4, <2>7, <2>8 DEF e, f
  <1> QED
    BY <1>1, AlwaysInv, PTL

-----------------------------------------------------------------------------
(* Refinement.                                                             *)

\* The values of the contract's variables.
AbsOrigin == [i \in Imports |->
  IF stored.reviews[i] = Nothing THEN Nothing
  ELSE [type |-> stored.reviews[i].type, config |-> stored.reviews[i].config]]
AbsRevisions == [i \in Imports |->
  IF stored.reviews[i] = Nothing THEN <<>> ELSE stored.reviews[i].revisions]
AbsPublished == [i \in Imports |->
  IF stored.reviews[i] = Nothing THEN Nothing ELSE stored.reviews[i].day]

\* What a new value of one review changes of them.
LEMMA AbsChange ==
  ASSUME Inv, NEW i \in Imports, NEW r2, r2 # Nothing, stored.reviews[i] # Nothing,
         stored'.reviews = [stored.reviews EXCEPT ![i] = r2],
         r2.type = stored.reviews[i].type, r2.config = stored.reviews[i].config
  PROVE  /\ AbsOrigin' = AbsOrigin
         /\ AbsRevisions' = [AbsRevisions EXCEPT ![i] = r2.revisions]
         /\ AbsPublished' = [AbsPublished EXCEPT ![i] = r2.day]
         /\ AbsOrigin[i].type = r2.type /\ AbsOrigin[i].config = r2.config
         /\ AbsRevisions[i] = stored.reviews[i].revisions
         /\ AbsRevisions'[i] = r2.revisions
         /\ AbsPublished[i] = stored.reviews[i].day
  <1>1. /\ stored'.reviews[i] = r2
        /\ \A j \in Imports \ {i} : stored'.reviews[j] = stored.reviews[j]
    BY StoredFacts
  <1>2. AbsOrigin' = AbsOrigin /\ AbsOrigin[i].type = r2.type /\ AbsOrigin[i].config = r2.config
    BY <1>1 DEF AbsOrigin
  <1>3. /\ AbsRevisions' = [AbsRevisions EXCEPT ![i] = r2.revisions]
        /\ AbsRevisions[i] = stored.reviews[i].revisions
        /\ AbsRevisions'[i] = r2.revisions
    BY <1>1 DEF AbsRevisions
  <1>4. /\ AbsPublished' = [AbsPublished EXCEPT ![i] = r2.day]
        /\ AbsPublished[i] = stored.reviews[i].day
    BY <1>1 DEF AbsPublished
  <1> QED
    BY <1>2, <1>3, <1>4

LEMMA UploadOpens ==
  ASSUME ReviewAssumption, Inv, NEW i \in Imports, Upload(i)
  PROVE  Contract!Open(i)
  <1>1. PICK r \in Reviews :
          /\ Len(r.revisions) = 1 /\ r.day = Nothing
          /\ stored'.reviews = [stored.reviews EXCEPT ![i] = r]
          /\ stored'.days = stored.days
          /\ stored'.compositions = stored.compositions
    BY UploadStep
  <1>2. stored.reviews[i] = Nothing /\ r # Nothing
    BY UploadStep DEF ReviewAssumption
  <1>3. /\ stored'.reviews[i] = r
        /\ \A j \in Imports \ {i} : stored'.reviews[j] = stored.reviews[j]
    BY <1>1, StoredFacts
  <1> QED
    BY <1>1, <1>2, <1>3 DEF Contract!Open

LEMMA CommitRefines ==
  ASSUME ReviewAssumption, Inv, NEW c \in Calls, Commit(c)
  PROVE  Contract!Next
  <1>0. PICK i \in Imports : call[c].import = i
    BY CommitStores, TransactionFacts
  <1> DEFINE r == stored.reviews[i]
  <1>1. /\ call[c].pc = "commit" /\ call[c].pc \in Open
        /\ call[c].op \in {"correct", "confirm", "combine"}
        /\ stored' = call[c].work
    BY CommitStores
  <1>2. /\ r \in Reviews /\ r # Nothing /\ r.revisions # <<>>
        /\ stored.reviews \in [Imports -> Reviews \cup {Nothing}]
        /\ \A d \in stored.days : d.id # c
    BY <1>0, <1>1, TransactionFacts, StoredFacts
  <1>3. CASE call[c].op = "correct"
    <2> DEFINE p == Corrected(Latest(r), call[c].change)
               r2 == Revised(r, p)
    <2>1. /\ p \in Previews /\ r.day = Nothing
          /\ stored'.reviews = [stored.reviews EXCEPT ![i] = r2]
          /\ stored'.days = stored.days /\ stored'.compositions = stored.compositions
      BY <1>0, <1>1, <1>3, CommitsCorrection
    <2> HIDE DEF p
    <2>2. /\ r2 # Nothing /\ r2.type = r.type /\ r2.config = r.config /\ r2.day = Nothing
          /\ r2.revisions = Append(r.revisions, p) /\ Last(r2.revisions) = p
      BY <1>2, <2>1, RevisedFacts DEF ReviewAssumption, Latest
    <2> HIDE DEF r2
    <2>3. /\ AbsRevisions' = [AbsRevisions EXCEPT ![i] =
                                Append(AbsRevisions[i], Last(AbsRevisions'[i]))]
          /\ AbsRevisions[i] # <<>> /\ AbsPublished[i] = Nothing
          /\ AbsOrigin' = AbsOrigin
      <3>1. /\ AbsRevisions' = [AbsRevisions EXCEPT ![i] = r2.revisions]
            /\ AbsRevisions[i] = r.revisions /\ AbsRevisions'[i] = r2.revisions
            /\ AbsPublished[i] = Nothing
            /\ AbsOrigin' = AbsOrigin
        BY <1>2, <2>1, <2>2, AbsChange
      <3> QED
        BY <1>2, <2>2, <3>1
    <2>4. AbsPublished' = AbsPublished
      <3>1. AbsPublished' = [AbsPublished EXCEPT ![i] = AbsPublished[i]]
        BY <1>2, <2>1, <2>2, AbsChange
      <3> QED
        BY <3>1 DEF AbsPublished
    <2>5. Contract!Amend(i)
      BY <2>1, <2>3, <2>4
         DEF Contract!Amend, Contract!Last, Last, AbsOrigin, AbsRevisions, AbsPublished
    <2> QED
      BY <2>5 DEF Contract!Next
  <1>4. CASE call[c].op = "confirm"
    <2> DEFINE fresh == Reevaluated(r)
               r2 == Settled(fresh, c)
               d == DayOf(c, fresh)
               p == Last(r.revisions)
    <2>1. /\ r.status # "CONFIRMED" /\ r.day = Nothing
          /\ fresh \in Reviews /\ Resolved(Latest(r))
          /\ stored'.reviews = [stored.reviews EXCEPT ![i] = r2]
          /\ stored'.days = stored.days \cup {d} /\ d.id = c
          /\ stored'.compositions = stored.compositions
      BY <1>0, <1>1, <1>4, CommitsConfirmation
    <2>2. /\ fresh.type = r.type /\ fresh.config = r.config
          /\ Latest(fresh).date = p.date /\ Latest(fresh).rows = p.rows
          /\ fresh.revisions = r.revisions
             \/ fresh.revisions = Append(r.revisions, Last(fresh.revisions))
      BY <1>2, ReevaluatedFacts DEF Latest
    <2>3. /\ d.date = p.date /\ d.config = r.config
          /\ d.shifts = IF r.type = "EMPLOYEES" THEN p.rows ELSE Nothing
          /\ d.flights = IF r.type = "FLIGHTS" THEN p.rows ELSE Nothing
      BY <2>2 DEF DayOf
    <2>4. /\ r2 # Nothing /\ r2.type = r.type /\ r2.config = r.config /\ r2.day = c
          /\ r2.revisions = fresh.revisions
      BY <2>1, <2>2, SettledFacts DEF ReviewAssumption
    <2>5. p \in Previews /\ Contract!Resolved(p)
      BY <1>2, <2>1, LatestFacts DEF Latest, Resolved, Contract!Resolved, Previews
    <2>6. /\ fresh.revisions = r.revisions
          \/ /\ fresh.revisions = Append(r.revisions, Last(fresh.revisions))
             /\ Last(fresh.revisions).date = p.date /\ Last(fresh.revisions).rows = p.rows
      BY <2>2 DEF Latest
    <2> HIDE DEF fresh, r2, d, p
    <2>7. /\ AbsRevisions[i] = r.revisions /\ AbsRevisions'[i] = fresh.revisions
          /\ AbsRevisions' = [AbsRevisions EXCEPT ![i] = fresh.revisions]
          /\ AbsPublished[i] = Nothing
          /\ AbsPublished' = [AbsPublished EXCEPT ![i] = d.id]
          /\ AbsOrigin' = AbsOrigin
          /\ AbsOrigin[i].type = r.type /\ AbsOrigin[i].config = r.config
      BY <1>2, <2>1, <2>4, AbsChange
    <2>8. \/ AbsRevisions' = AbsRevisions
          \/ /\ AbsRevisions' = [AbsRevisions EXCEPT ![i] =
                                   Append(@, Last(AbsRevisions'[i]))]
             /\ Last(AbsRevisions'[i]).date = p.date /\ Last(AbsRevisions'[i]).rows = p.rows
      <3>1. CASE fresh.revisions = r.revisions
        <4>1. AbsRevisions' = [AbsRevisions EXCEPT ![i] = AbsRevisions[i]]
          BY <2>7, <3>1
        <4> QED
          BY <4>1 DEF AbsRevisions
      <3>2. CASE fresh.revisions # r.revisions
        BY <2>6, <2>7, <3>2
      <3> QED
        BY <3>1, <3>2
    <2>9. Contract!Publish(i)
      <3>1. d \in stored'.days
        BY <2>1
      <3>2. /\ AbsRevisions[i] # <<>> /\ AbsPublished[i] = Nothing
            /\ \A d0 \in stored.days : d0.id # d.id
            /\ p = AbsRevisions[i][Len(AbsRevisions[i])]
            /\ d.date = p.date /\ d.config = AbsOrigin[i].config
            /\ d.shifts = IF AbsOrigin[i].type = "EMPLOYEES" THEN p.rows ELSE Nothing
            /\ d.flights = IF AbsOrigin[i].type = "FLIGHTS" THEN p.rows ELSE Nothing
            /\ UNCHANGED <<AbsOrigin, stored.compositions>>
        BY <1>2, <2>1, <2>3, <2>7 DEF p, Last
      <3> QED
        BY <2>1, <2>5, <2>7, <2>8, <3>1, <3>2
           DEF Contract!Publish, Contract!Fresh, Contract!Last, Last,
               AbsOrigin, AbsRevisions, AbsPublished
    <2> QED
      BY <2>9 DEF Contract!Next
  <1>5. CASE call[c].op = "combine"
    <2>0. PICK j \in Imports : call[c].other = j
      BY <1>1, <1>5, TransactionFacts
    <2> DEFINE f == stored.reviews[j]
               d == JointDay(c, r, f)
               pair == [day |-> c, employee |-> i, flight |-> j]
    <2>1. /\ CombineRefusal(r, f) = "NONE"
          /\ \A x \in stored.compositions : x.employee # i \/ x.flight # j
          /\ stored'.reviews = stored.reviews
          /\ stored'.days = stored.days \cup {d} /\ d.id = c
          /\ stored'.compositions = stored.compositions \cup {pair}
      BY <1>0, <1>1, <1>5, <2>0, CommitsCombination
    <2>2. /\ f \in Reviews /\ f # Nothing
          /\ SettledReview(r, stored.days) /\ SettledReview(f, stored.days)
      BY <1>1, <1>2, <1>5, <2>0, TransactionFacts, StoredFacts DEF ReviewAssumption
    <2>3. /\ r.type = "EMPLOYEES" /\ f.type = "FLIGHTS"
          /\ r.status = "CONFIRMED" /\ f.status = "CONFIRMED"
          /\ Latest(r).date = Latest(f).date /\ r.config = f.config
      BY <2>1 DEF CombineRefusal
    <2>4. r.day # Nothing /\ f.day # Nothing
      BY <2>2, <2>3 DEF SettledReview, ReviewAssumption
    <2>5. /\ d.date = Last(r.revisions).date /\ d.date = Last(f.revisions).date
          /\ d.config = r.config /\ d.config = f.config
          /\ d.shifts = Last(r.revisions).rows /\ d.flights = Last(f.revisions).rows
      BY <2>3 DEF JointDay, Latest
    <2> HIDE DEF d
    <2>6. Contract!Join(i, j)
      BY <1>2, <2>1, <2>2, <2>3, <2>4, <2>5
         DEF Contract!Join, Contract!Fresh, Contract!Last, Last
    <2> QED
      BY <2>6 DEF Contract!Next
  <1> QED
    BY <1>1, <1>3, <1>4, <1>5

LEMMA InitRefines == ASSUME ReviewAssumption, Init PROVE Contract!Init
  <1>1. PICK w \in [Earlier -> Left] :
          stored = [reviews |-> [i \in Imports |->
                      IF i \in Earlier THEN Uploaded(w[i], w[i].preview) ELSE Nothing],
                    days |-> {}, compositions |-> {}]
    BY DEF Init
  <1>2. /\ \A i \in Imports :
             \/ stored.reviews[i] = Nothing
             \/ /\ Len(stored.reviews[i].revisions) = 1
                /\ stored.reviews[i].day = Nothing
        /\ stored.days = {} /\ stored.compositions = {}
    <2>1. ASSUME NEW i \in Imports
          PROVE  \/ stored.reviews[i] = Nothing
                 \/ /\ Len(stored.reviews[i].revisions) = 1
                    /\ stored.reviews[i].day = Nothing
      <3>1. stored.reviews[i] =
              IF i \in Earlier THEN Uploaded(w[i], w[i].preview) ELSE Nothing
        BY <1>1
      <3>2. Len(<<w[i].preview>>) = 1
        OBVIOUS
      <3> QED
        BY <3>1, <3>2 DEF Uploaded
    <2> QED
      BY <1>1, <2>1
  <1>3. ASSUME NEW i \in Imports PROVE Len(AbsRevisions[i]) <= 1
    <2>1. CASE stored.reviews[i] = Nothing
      <3>1. AbsRevisions[i] = <<>>
        BY <2>1 DEF AbsRevisions
      <3> QED
        BY <3>1
    <2>2. CASE stored.reviews[i] # Nothing
      <3>1. AbsRevisions[i] = stored.reviews[i].revisions
        BY <2>2 DEF AbsRevisions
      <3>2. Len(stored.reviews[i].revisions) = 1
        BY <1>2, <2>2
      <3> QED
        BY <3>1, <3>2
    <2> QED
      BY <2>1, <2>2
  <1>4. AbsPublished = [i \in Imports |-> Nothing]
    BY <1>2 DEF AbsPublished
  <1> QED
    BY <1>2, <1>3, <1>4 DEF Contract!Init, AbsRevisions, AbsPublished

\* The locks, working copies, failures and repetitions of the transactions
\* implement the atomic steps of the contract.
THEOREM Refines == Spec => ImplementsContract
  <1>1. Init => Contract!Init
    BY InitRefines, ReviewAssumption
  <1>2. Inv /\ [Next]_vars => [Contract!Next]_(Contract!vars)
    <2>1. ASSUME Inv, NEW i \in Imports, Upload(i) PROVE Contract!Next
      BY <2>1, UploadOpens, ReviewAssumption DEF Contract!Next
    <2>2. ASSUME Inv, NEW c \in Calls, CallStep(c)
          PROVE  Contract!Next \/ stored' = stored
      <3>1. CASE Commit(c)
        BY <2>2, <3>1, CommitRefines, ReviewAssumption
      <3>2. CASE ~Commit(c)
        BY <2>2, <3>2 DEF CallStep, SendReviewed, SendCombine, Send, Claim, Correct, Confirm,
           Combine, CreateDay, Link, Fail, Continue, Refuse, Answer
      <3> QED
        BY <3>1, <3>2
    <2>3. Optimize \/ UNCHANGED vars => stored' = stored
      BY DEF Optimize, vars
    <2>4. stored' = stored => UNCHANGED Contract!vars
      BY DEF Contract!vars
    <2> QED
      BY <2>1, <2>2, <2>3, <2>4 DEF Next
  <1> QED
    BY <1>1, <1>2, AlwaysInv, PTL DEF Spec, ImplementsContract, Contract!Spec
=============================================================================
