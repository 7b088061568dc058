------------------------- MODULE InputVersionsProofs -------------------------
(***************************************************************************)
(* Theorems about InputVersions, for all values of its constants.          *)
(***************************************************************************)
EXTENDS InputVersions, FiniteSetTheorems, TLAPS

\* What the program counter says about the local variables: a request in
\* progress has its parameters and no answer yet.
ControlOK ==
  \A c \in Calls :
    /\ call[c].pc # "done" => call[c].reply = "NONE"
    /\ InProgress(c) =>
         /\ call[c].date \in Dates
         /\ call[c].key \in Keys
         /\ call[c].request \in Requests
    /\ call[c].pc = "write" => call[c].number # 0 /\ call[c].content \in Inputs

\* A version is stored by the request it is named for, on its way out.
IdsOK ==
  \A v \in versions :
    /\ call[v.id].pc = "done"
    /\ v.content.date = v.date
    /\ \A u \in versions : u.id = v.id => u = v

KeysUnique ==
  \A u, v \in versions : u.date = v.date /\ u.key = v.key => u = v

\* What the rows read earlier still tell at the INSERT: the numbers below are
\* taken, and the parent or source, once read, never changes.
StillTrue(q, stored) ==
  LET known == {v \in stored : v.date = q.date} IN
  /\ q.content.date = q.date
  /\ \A n \in 1..(q.number - 1) : \E u \in known : u.number = n
  /\ q.request.kind = "revision" =>
       \E u \in known :
         /\ u.id = q.request.parent
         /\ u.number + 1 = q.number
         /\ u.content = q.request.expected
         /\ u.content.employees \subseteq q.content.employees
  /\ q.request.kind # "revision" /\ q.request.parent # NoVersion =>
       \E u \in known : u.id = q.request.parent /\ u.content = q.content

WriteOK == \A c \in Calls : call[c].pc = "write" => StillTrue(call[c], versions)

\* A successful answer is about a stored version.
Supported(q, stored) ==
  \E v \in stored :
    /\ v.date = q.date
    /\ v.id = q.version
    /\ v.key = q.key
    /\ v.request = q.request

AnswersOK ==
  \A c \in Calls : call[c].reply = "VERSION" => Supported(call[c], versions)

TypeInv == TypeOK /\ ControlOK

HistoryInv ==
  /\ IdsOK
  /\ KeysUnique
  /\ NumbersHaveNoGaps
  /\ LineNeverBranches
  /\ WriteOK
  /\ AnswersOK

-----------------------------------------------------------------------------
(* What the requests of clients are made of.                               *)

LEMMA RequestFacts ==
  ASSUME InputAssumption
  PROVE  /\ \A p \in Calls \cup {NoVersion}, i \in Inputs \cup {NoInput} :
              Draft(p, i) \in Requests
         /\ \A p \in Calls, e, i \in Inputs : Revision(p, e, i) \in Requests
         /\ \A d \in Dates : Empty(d) \in Inputs
  BY DEF Draft, Revision, Requests, Empty, Inputs

LEMMA UnsentType == Unsent \in CallStates
  BY DEF Unsent, CallStates, Stages, Replies

-----------------------------------------------------------------------------
(* Types.                                                                  *)

LEMMA InitTypes == ASSUME InputAssumption, Init PROVE TypeInv
  BY UnsentType
     DEF InputAssumption, Init, TypeInv, TypeOK, ControlOK, InProgress, Unsent, Versions

\* A step that replaces the local variables of one request.
LEMMA Replace ==
  ASSUME call \in [Calls -> CallStates], NEW c \in Calls, NEW q \in CallStates,
         call' = [call EXCEPT ![c] = q]
  PROVE  /\ call' \in [Calls -> CallStates]
         /\ call'[c] = q
         /\ \A o \in Calls \ {c} : call'[o] = call[o]
  OBVIOUS

\* One request in the states ControlOK allows.
Controlled(q) ==
  /\ q.pc # "done" => q.reply = "NONE"
  /\ q.pc \notin {"unsent", "done"} =>
       q.date \in Dates /\ q.key \in Keys /\ q.request \in Requests
  /\ q.pc = "write" => q.number # 0 /\ q.content \in Inputs

LEMMA ReplaceControlled ==
  ASSUME TypeInv, NEW c \in Calls, NEW q \in CallStates, Controlled(q),
         call' = [call EXCEPT ![c] = q]
  PROVE  call' \in [Calls -> CallStates] /\ ControlOK'
  <1>1. /\ call' \in [Calls -> CallStates]
        /\ call'[c] = q
        /\ \A o \in Calls \ {c} : call'[o] = call[o]
    BY Replace DEF TypeInv, TypeOK
  <1> QED
    BY <1>1 DEF TypeInv, ControlOK, Controlled, InProgress

LEMMA AnswerFacts ==
  ASSUME TypeInv, NEW c \in Calls, NEW reply \in Replies,
         NEW id \in Calls \cup {NoVersion}, Answer(c, reply, id)
  PROVE  /\ call' \in [Calls -> CallStates]
         /\ ControlOK'
         /\ call'[c].pc = "done" /\ call'[c].reply = reply /\ call'[c].version = id
         /\ call'[c].date = call[c].date
         /\ call'[c].key = call[c].key
         /\ call'[c].request = call[c].request
         /\ \A o \in Calls \ {c} : call'[o] = call[o]
  <1> DEFINE q == [call[c] EXCEPT !.pc = "done", !.reply = reply, !.version = id,
                                  !.attempt = 0, !.number = 0, !.content = NoInput]
  <1>0. call \in [Calls -> CallStates] /\ call[c] \in CallStates
    BY DEF TypeInv, TypeOK
  <1>1. q \in CallStates
    BY <1>0 DEF CallStates, Stages
  <1>2. /\ q.pc = "done" /\ q.reply = reply /\ q.version = id
        /\ q.date = call[c].date /\ q.key = call[c].key /\ q.request = call[c].request
    BY <1>0 DEF CallStates
  <1>3. call' = [call EXCEPT ![c] = q]
    BY DEF Answer
  <1> HIDE DEF q
  <1>4. Controlled(q)
    BY <1>2 DEF Controlled
  <1> QED
    BY <1>0, <1>1, <1>2, <1>3, <1>4, Replace, ReplaceControlled

\* A lost attempt starts again or ends.
LEMMA RetryFacts ==
  ASSUME TypeInv, NEW c \in Calls, InProgress(c), Retry(c)
  PROVE  /\ call' \in [Calls -> CallStates]
         /\ ControlOK'
         /\ call'[c].pc \in {"lookup", "done"}
         /\ call'[c].reply # "VERSION"
         /\ \A o \in Calls \ {c} : call'[o] = call[o]
  <1>1. CASE call[c].attempt = 0
    <2> DEFINE q == [call[c] EXCEPT !.pc = "lookup", !.attempt = 1, !.number = 0,
                                    !.content = NoInput]
    <2>0. call \in [Calls -> CallStates] /\ call[c] \in CallStates
      BY DEF TypeInv, TypeOK
    <2>1. q \in CallStates
      BY <2>0 DEF CallStates, Stages
    <2>2. /\ q.pc = "lookup" /\ q.reply = call[c].reply
          /\ q.date = call[c].date /\ q.key = call[c].key /\ q.request = call[c].request
      BY <2>0 DEF CallStates
    <2>3. call' = [call EXCEPT ![c] = q]
      BY <1>1 DEF Retry
    <2> HIDE DEF q
    <2>4. Controlled(q) /\ q.reply = "NONE"
      BY <2>2 DEF TypeInv, ControlOK, Controlled, InProgress
    <2> QED
      BY <2>0, <2>1, <2>2, <2>3, <2>4, Replace, ReplaceControlled
  <1>2. CASE call[c].attempt # 0
    <2>1. Answer(c, "CONCURRENT", NoVersion)
      BY <1>2 DEF Retry, Refuse
    <2> QED
      BY <2>1, AnswerFacts DEF Replies
  <1> QED
    BY <1>1, <1>2

LEMMA StartFacts ==
  ASSUME TypeInv, NEW c \in Calls, NEW d \in Dates, NEW k \in Keys, NEW r \in Requests,
         Start(c, d, k, r)
  PROVE  /\ call' \in [Calls -> CallStates]
         /\ ControlOK'
         /\ call[c].pc = "unsent"
         /\ call'[c].pc = "lookup" /\ call'[c].reply = "NONE"
         /\ \A o \in Calls \ {c} : call'[o] = call[o]
         /\ UNCHANGED <<versions, timeouts, crashes>>
  <1> DEFINE q == [call[c] EXCEPT !.pc = "lookup", !.date = d, !.key = k, !.request = r]
  <1>0. call \in [Calls -> CallStates] /\ call[c] \in CallStates
    BY DEF TypeInv, TypeOK
  <1>1. q \in CallStates
    BY <1>0 DEF CallStates, Stages
  <1>2. /\ q.pc = "lookup" /\ q.reply = call[c].reply
        /\ q.date = d /\ q.key = k /\ q.request = r
    BY <1>0 DEF CallStates
  <1>3. call' = [call EXCEPT ![c] = q]
    BY DEF Start
  <1>4. call[c].pc = "unsent" /\ UNCHANGED <<versions, timeouts, crashes>>
    BY DEF Start
  <1> HIDE DEF q
  <1>5. Controlled(q) /\ q.reply = "NONE"
    BY <1>2, <1>4 DEF TypeInv, ControlOK, Controlled
  <1> QED
    BY <1>0, <1>1, <1>2, <1>3, <1>4, <1>5, Replace, ReplaceControlled

LEMMA StartingFacts ==
  ASSUME InputAssumption, TypeInv, NEW c \in Calls, StartDraft(c) \/ StartRevision(c)
  PROVE  \E d \in Dates, k \in Keys, r \in Requests : Start(c, d, k, r)
  <1>1. CASE StartDraft(c)
    <2>1. \A v \in versions : v.id \in Calls
      BY DEF TypeInv, TypeOK, Versions
    <2>2. /\ Draft(NoVersion, NoInput) \in Requests
          /\ \A v \in versions : Draft(v.id, NoInput) \in Requests
          /\ \A i \in Snapshots : Draft(NoVersion, i) \in Requests
      BY <2>1, RequestFacts DEF InputAssumption
    <2> QED
      BY <1>1, <2>2 DEF StartDraft
  <1>2. CASE StartRevision(c)
    <2>1. \A v \in versions : v.id \in Calls /\ v.date \in Dates
      BY DEF TypeInv, TypeOK, Versions
    <2>2. PICK v \in versions, seen \in versions, k \in Keys, i \in Offered :
                 Start(c, v.date, k, Revision(v.id, seen.content, i))
      BY <1>2 DEF StartRevision
    <2>3. seen.content \in Inputs /\ i \in Inputs
      BY DEF InputAssumption, TypeInv, TypeOK, Versions
    <2>4. Revision(v.id, seen.content, i) \in Requests
      BY <2>1, <2>3, RequestFacts
    <2> QED
      BY <2>1, <2>2, <2>4
  <1> QED
    BY <1>1, <1>2

\* Reading the rows ends the request or makes it ready to write.
LEMMA ReadRowsFacts ==
  ASSUME InputAssumption, TypeInv, HistoryInv, NEW c \in Calls, ReadRows(c)
  PROVE  /\ call' \in [Calls -> CallStates]
         /\ ControlOK'
         /\ call[c].pc = "rows"
         /\ call'[c].pc = "write" => StillTrue(call'[c], versions)
         /\ call'[c].reply # "VERSION"
         /\ \A o \in Calls \ {c} : call'[o] = call[o]
  <1> DEFINE day == call[c].date
             r == call[c].request
  <1>0. /\ call \in [Calls -> CallStates] /\ call[c] \in CallStates
        /\ call[c].pc = "rows" /\ call[c].reply = "NONE"
        /\ day \in Dates /\ call[c].key \in Keys /\ r \in Requests
        /\ versions \subseteq Versions
    BY DEF ReadRows, TypeInv, TypeOK, ControlOK, InProgress
  <1>1. ASSUME NEW reply \in {"STALE", "INVALID"}, Refuse(c, reply)
        PROVE  /\ call' \in [Calls -> CallStates]
               /\ ControlOK'
               /\ call'[c].pc = "done" /\ call'[c].reply = reply
               /\ \A o \in Calls \ {c} : call'[o] = call[o]
    BY <1>1, AnswerFacts DEF Refuse, Replies
  <1>2. ASSUME r.kind = "revision" => ~IsStale(c) /\ ~Removes(c),
               NEW i \in Candidates(c), NEW n \in NextNumbers(day),
               i.date = day,
               call' = [call EXCEPT ![c] =
                         [@ EXCEPT !.pc = "write", !.number = n, !.content = i]]
        PROVE  /\ call' \in [Calls -> CallStates]
               /\ ControlOK'
               /\ call'[c].pc = "write" /\ call'[c].reply = "NONE"
               /\ StillTrue(call'[c], versions)
               /\ \A o \in Calls \ {c} : call'[o] = call[o]
    <2> DEFINE q == [call[c] EXCEPT !.pc = "write", !.number = n, !.content = i]
    <2>1. n \in Nat \ {0} /\ \A m \in 1..(n - 1) : \E u \in On(day) : u.number = m
      <3>1. CASE On(day) = {}
        <4>1. n = 1
          BY <3>1, <1>2 DEF NextNumbers
        <4> QED
          BY <4>1
      <3>2. CASE On(day) # {}
        <4>1. PICK v \in Newest(day) : n = v.number + 1
          BY <3>2, <1>2 DEF NextNumbers
        <4>2. v \in versions /\ v.date = day /\ v.number \in Nat \ {0}
          BY <4>1, <1>0 DEF Newest, On, Versions
        <4>3. \A m \in 1..v.number : \E u \in On(day) : u.number = m
          BY <4>2 DEF HistoryInv, NumbersHaveNoGaps
        <4> QED
          BY <4>1, <4>2, <4>3
      <3> QED
        BY <3>1, <3>2
    <2>2. i \in Inputs
      <3>1. \A v \in versions : v.content \in Inputs
        BY <1>0 DEF Versions
      <3>2. CASE r.kind = "revision"
        BY <3>2, <1>0, <1>2 DEF Candidates, Requests
      <3>3. CASE r.kind # "revision"
        BY <3>1, <3>3, <1>0, <1>2, RequestFacts DEF Candidates, Requests
      <3> QED
        BY <3>2, <3>3
    <2>3. r.kind = "revision" =>
            \E u \in On(day) :
              /\ u.id = r.parent
              /\ u.number + 1 = n
              /\ u.content = r.expected
              /\ u.content.employees \subseteq i.employees
      <3> SUFFICES ASSUME r.kind = "revision"
                   PROVE  \E u \in On(day) :
                            /\ u.id = r.parent
                            /\ u.number + 1 = n
                            /\ u.content = r.expected
                            /\ u.content.employees \subseteq i.employees
        OBVIOUS
      <3>1. PICK u \in Newest(day) : u.id = r.parent /\ u.content = r.expected
        BY <1>2 DEF IsStale
      <3>2. u \in On(day) /\ u \in versions
        BY <3>1 DEF Newest, On
      <3>3. i = r.input
        BY <1>2 DEF Candidates
      <3>4. u.content.employees \subseteq i.employees
        BY <1>2, <3>1, <3>2, <3>3 DEF Removes
      <3>5. PICK v \in Newest(day) : n = v.number + 1
        BY <1>2, <3>2 DEF NextNumbers
      <3>6. u.number \in Nat /\ v.number \in Nat /\ u.number <= v.number /\ v.number <= u.number
        BY <1>0, <3>1, <3>5 DEF Newest, On, Versions
      <3>7. u.number + 1 = n
        BY <3>5, <3>6
      <3> QED
        BY <3>1, <3>2, <3>4, <3>7
    <2>4. r.kind # "revision" /\ r.parent # NoVersion =>
            \E u \in On(day) : u.id = r.parent /\ u.content = i
      <3> SUFFICES ASSUME r.kind # "revision", r.parent # NoVersion
                   PROVE  \E u \in On(day) : u.id = r.parent /\ u.content = i
        OBVIOUS
      <3>1. PICK u \in versions : u.id = r.parent /\ u.content = i
        BY <1>2 DEF Candidates
      <3>2. u.date = day
        BY <1>2, <3>1 DEF HistoryInv, IdsOK
      <3> QED
        BY <3>1, <3>2 DEF On
    <2>5. q \in CallStates
      BY <1>0, <2>1, <2>2 DEF CallStates, Stages
    <2>6. /\ q.pc = "write" /\ q.reply = "NONE" /\ q.number = n /\ q.content = i
          /\ q.date = day /\ q.key = call[c].key /\ q.request = r
      BY <1>0 DEF CallStates
    <2>7. call' = [call EXCEPT ![c] = q]
      BY <1>2
    <2> HIDE DEF q
    <2>8. Controlled(q)
      BY <1>0, <2>1, <2>2, <2>6 DEF Controlled
    <2>9. StillTrue(q, versions)
      BY <1>2, <2>1, <2>3, <2>4, <2>6 DEF StillTrue, On
    <2> QED
      BY <1>0, <2>5, <2>6, <2>7, <2>8, <2>9, Replace, ReplaceControlled
  <1> QED
    BY <1>0, <1>1, <1>2 DEF ReadRows

-----------------------------------------------------------------------------
(* Steps that store nothing.                                               *)

\* Nothing is stored; a request moves on, ready to write or with an answer that
\* the table supports.
QuietStep ==
  /\ versions' = versions
  /\ \A c \in Calls :
       \/ call'[c] = call[c]
       \/ /\ call[c].pc # "done"
          /\ call'[c].pc = "write" => StillTrue(call'[c], versions)
          /\ call'[c].reply = "VERSION" => Supported(call'[c], versions)

LEMMA QuietHistory == ASSUME TypeInv, HistoryInv, QuietStep PROVE HistoryInv'
  <1>0. versions \subseteq Versions
    BY DEF TypeInv, TypeOK
  <1>1. IdsOK'
    <2>1. \A v \in versions : v.id \in Calls /\ call[v.id].pc = "done"
      BY <1>0 DEF Versions, HistoryInv, IdsOK
    <2>2. \A v \in versions : call'[v.id].pc = "done"
      BY <2>1 DEF QuietStep
    <2> QED
      BY <2>2 DEF QuietStep, HistoryInv, IdsOK
  <1>2. KeysUnique' /\ NumbersHaveNoGaps' /\ LineNeverBranches'
    BY DEF QuietStep, HistoryInv, KeysUnique, NumbersHaveNoGaps, LineNeverBranches, On
  <1>3. WriteOK' /\ AnswersOK'
    BY DEF QuietStep, HistoryInv, WriteOK, AnswersOK
  <1> QED
    BY <1>1, <1>2, <1>3 DEF HistoryInv

LEMMA CrashStep ==
  ASSUME InputAssumption, TypeInv, Crash
  PROVE  TypeInv' /\ QuietStep
  <1> DEFINE lost(c) == [Unsent EXCEPT !.pc = "done", !.reply = "LOST"]
  <1>0. call \in [Calls -> CallStates]
    BY DEF TypeInv, TypeOK
  <1>1. ASSUME NEW c \in Calls
        PROVE  lost(c) \in CallStates /\ lost(c).pc = "done" /\ lost(c).reply = "LOST"
    BY DEF Unsent, CallStates, Stages, Replies
  <1>2. \A c \in Calls : call'[c] = IF InProgress(c) THEN lost(c) ELSE call[c]
    BY DEF Crash
  <1>3. call' = [c \in Calls |-> IF InProgress(c) THEN lost(c) ELSE call[c]]
    BY DEF Crash
  <1> HIDE DEF lost
  <1>4. call' \in [Calls -> CallStates]
    BY <1>0, <1>1, <1>3
  <1>5. versions' = versions /\ timeouts' = timeouts /\ crashes' \in 0..MaxCrashes
    BY DEF InputAssumption, Crash, TypeInv, TypeOK
  <1>6. ControlOK'
    BY <1>1, <1>2 DEF ControlOK, InProgress, TypeInv
  <1>7. QuietStep
    BY <1>1, <1>2, <1>5 DEF QuietStep, InProgress
  <1> QED
    BY <1>4, <1>5, <1>6, <1>7 DEF TypeInv, TypeOK

-----------------------------------------------------------------------------
(* The step that stores a version.                                         *)

Stores(c) == call[c].pc = "write" /\ ~Clashes(c) /\ Write(c)

LEMMA StoreFacts ==
  ASSUME TypeInv, NEW c \in Calls, Stores(c)
  PROVE  /\ TypeInv'
         /\ NewVersion(c) \in Versions
         /\ versions' = versions \cup {NewVersion(c)}
         /\ call'[c].pc = "done" /\ call'[c].reply = "VERSION" /\ call'[c].version = c
         /\ call'[c].date = call[c].date
         /\ call'[c].key = call[c].key
         /\ call'[c].request = call[c].request
         /\ \A o \in Calls \ {c} : call'[o] = call[o]
  <1>1. Answer(c, "VERSION", c) /\ versions' = versions \cup {NewVersion(c)}
        /\ UNCHANGED <<timeouts, crashes>>
    BY DEF Stores, Write
  <1>2. /\ call[c].date \in Dates /\ call[c].key \in Keys /\ call[c].request \in Requests
        /\ call[c].number \in Nat \ {0} /\ call[c].content \in Inputs
    BY DEF Stores, TypeInv, TypeOK, ControlOK, InProgress, CallStates
  <1>3. NewVersion(c) \in Versions
    BY <1>2 DEF NewVersion, Versions
  <1>4. "VERSION" \in Replies
    BY DEF Replies
  <1> QED
    BY <1>1, <1>3, <1>4, AnswerFacts DEF TypeInv, TypeOK

\* The unique constraint turns what was read earlier into the head of the line:
\* every number stored for the date is smaller.
LEMMA StoreIsNewest ==
  ASSUME TypeInv, HistoryInv, NEW c \in Calls, Stores(c),
         NEW u \in On(call[c].date)
  PROVE  u.number < call[c].number /\ u.key # call[c].key
  <1>1. u \in versions /\ u.number \in Nat \ {0} /\ u.date = call[c].date
    BY DEF On, TypeInv, TypeOK, Versions
  <1>2. call[c].number \in Nat \ {0}
    BY DEF Stores, TypeInv, TypeOK, ControlOK, CallStates
  <1>3. ASSUME u.number >= call[c].number PROVE FALSE
    <2>1. call[c].number \in 1..u.number
      BY <1>1, <1>2, <1>3
    <2>2. PICK w \in On(u.date) : w.number = call[c].number
      BY <1>1, <2>1 DEF HistoryInv, NumbersHaveNoGaps
    <2> QED
      BY <1>1, <2>2 DEF Stores, Clashes
  <1>4. u.key # call[c].key
    BY DEF Stores, Clashes
  <1> QED
    BY <1>1, <1>2, <1>3, <1>4

LEMMA StoreHistory ==
  ASSUME TypeInv, HistoryInv, NEW c \in Calls, Stores(c)
  PROVE  HistoryInv'
  <1> DEFINE v == NewVersion(c)
  <1>1. /\ v.id = c /\ v.date = call[c].date /\ v.number = call[c].number
        /\ v.key = call[c].key /\ v.request = call[c].request
        /\ v.content = call[c].content
    BY DEF NewVersion
  <1>2. /\ versions' = versions \cup {v}
        /\ call'[c].pc = "done" /\ call'[c].reply = "VERSION" /\ call'[c].version = c
        /\ call'[c].date = call[c].date
        /\ call'[c].key = call[c].key
        /\ call'[c].request = call[c].request
        /\ \A o \in Calls \ {c} : call'[o] = call[o]
    BY StoreFacts
  <1>3. StillTrue(call[c], versions)
    BY DEF Stores, HistoryInv, WriteOK
  <1>4. \A u \in versions : u.id \in Calls /\ u.date \in Dates /\ u.number \in Nat \ {0}
    BY DEF TypeInv, TypeOK, Versions
  <1>5. call[c].number \in Nat \ {0} /\ call[c].pc = "write"
    BY DEF Stores, TypeInv, TypeOK, ControlOK, CallStates
  <1>6. \A u \in versions : u.date = v.date => u.number < v.number /\ u.key # v.key
    BY <1>1, StoreIsNewest DEF On
  <1> HIDE DEF v
  <1>7. IdsOK'
    <2>1. \A u \in versions : call[u.id].pc = "done" /\ u.id # c
      BY <1>5 DEF HistoryInv, IdsOK
    <2>2. \A u \in versions : call'[u.id].pc = "done"
      BY <1>2, <1>4, <2>1
    <2>3. v.content.date = v.date
      BY <1>1, <1>3 DEF StillTrue
    <2> QED
      BY <1>1, <1>2, <2>1, <2>2, <2>3 DEF HistoryInv, IdsOK
  <1>8. KeysUnique'
    BY <1>2, <1>6 DEF HistoryInv, KeysUnique
  <1>9. NumbersHaveNoGaps'
    <2>1. ASSUME NEW n \in 1..v.number
          PROVE  \E u \in versions' : u.date = v.date /\ u.number = n
      <3>1. CASE n = v.number
        BY <1>2, <3>1
      <3>2. CASE n # v.number
        <4>1. n \in 1..(call[c].number - 1)
          BY <1>1, <1>5, <3>2
        <4> QED
          BY <1>1, <1>2, <1>3, <4>1 DEF StillTrue
      <3> QED
        BY <3>1, <3>2
    <2>2. \A w \in versions :
            /\ \A n \in 1..w.number : \E u \in versions' : u.date = w.date /\ u.number = n
            /\ \A u \in versions : u.date = w.date /\ u.number = w.number => u = w
      BY <1>2 DEF HistoryInv, NumbersHaveNoGaps, On
    <2>3. \A w \in versions : w.date = v.date => w.number # v.number
      BY <1>1, <1>4, <1>5, <1>6
    <2> QED
      BY <1>2, <2>1, <2>2, <2>3 DEF NumbersHaveNoGaps, On
  <1>10. LineNeverBranches'
    <2>1. ASSUME v.request.kind = "revision"
          PROVE  \E u \in versions' :
                   /\ u.date = v.date
                   /\ u.id = v.request.parent
                   /\ u.number + 1 = v.number
                   /\ u.content = v.request.expected
                   /\ u.content.employees \subseteq v.content.employees
      BY <1>1, <1>2, <1>3, <2>1 DEF StillTrue
    <2> QED
      BY <1>2, <2>1 DEF HistoryInv, LineNeverBranches, On
  <1>11. ASSUME NEW q, StillTrue(q, versions) PROVE StillTrue(q, versions')
    BY <1>2, <1>11 DEF StillTrue
  <1>12. WriteOK'
    BY <1>2, <1>11 DEF HistoryInv, WriteOK
  <1>13. AnswersOK'
    <2>1. Supported(call'[c], versions')
      BY <1>1, <1>2 DEF Supported
    <2>2. ASSUME NEW q, Supported(q, versions) PROVE Supported(q, versions')
      BY <1>2, <2>2 DEF Supported
    <2> QED
      BY <1>2, <2>1, <2>2 DEF HistoryInv, AnswersOK
  <1> QED
    BY <1>7, <1>8, <1>9, <1>10, <1>12, <1>13 DEF HistoryInv

-----------------------------------------------------------------------------
(* Every step stores nothing, or is Stores.                                *)

LEMMA StepKind ==
  ASSUME InputAssumption, TypeInv, HistoryInv, Next
  PROVE  TypeInv' /\ (QuietStep \/ \E c \in Calls : Stores(c))
  <1> DEFINE Goal == TypeInv' /\ (QuietStep \/ \E c \in Calls : Stores(c))
  <1>1. CASE Crash
    BY <1>1, CrashStep
  <1>2. ASSUME NEW c \in Calls, StartDraft(c) \/ StartRevision(c) PROVE Goal
    <2>1. PICK d \in Dates, k \in Keys, r \in Requests : Start(c, d, k, r)
      BY <1>2, StartingFacts
    <2> QED
      BY <2>1, StartFacts DEF TypeInv, TypeOK, QuietStep
  <1>3. ASSUME NEW c \in Calls, LookUp(c) PROVE Goal
    <2>0. /\ call[c].pc = "lookup" /\ call[c].reply = "NONE"
          /\ UNCHANGED <<versions, timeouts, crashes>>
          /\ \A v \in versions : v.id \in Calls
      BY <1>3 DEF LookUp, TypeInv, TypeOK, ControlOK, Versions
    <2>1. CASE call' = [call EXCEPT ![c].pc = "rows"]
      <3> DEFINE q == [call[c] EXCEPT !.pc = "rows"]
      <3>0. call \in [Calls -> CallStates] /\ call[c] \in CallStates
        BY DEF TypeInv, TypeOK
      <3>1. q \in CallStates
        BY <3>0 DEF CallStates, Stages
      <3>2. /\ q.pc = "rows" /\ q.reply = "NONE"
            /\ q.date = call[c].date /\ q.key = call[c].key /\ q.request = call[c].request
        BY <2>0, <3>0 DEF CallStates
      <3>3. call' = [call EXCEPT ![c] = q]
        BY <2>1
      <3> HIDE DEF q
      <3>4. Controlled(q)
        BY <2>0, <3>2 DEF TypeInv, ControlOK, Controlled, InProgress
      <3>5. call'[c] = q /\ \A o \in Calls \ {c} : call'[o] = call[o]
        BY <3>0, <3>1, <3>3, Replace
      <3> QED
        BY <2>0, <3>1, <3>2, <3>3, <3>4, <3>5, ReplaceControlled
           DEF TypeInv, TypeOK, QuietStep
    <2>2. ASSUME NEW v \in On(call[c].date), v.key = call[c].key,
                 v.request = call[c].request, Answer(c, "VERSION", v.id)
          PROVE  Goal
      <3>1. v \in versions /\ v.date = call[c].date /\ v.id \in Calls
        BY <2>0 DEF On
      <3>2. /\ call' \in [Calls -> CallStates] /\ ControlOK'
            /\ call'[c].pc = "done" /\ call'[c].version = v.id
            /\ call'[c].date = call[c].date /\ call'[c].key = call[c].key
            /\ call'[c].request = call[c].request
            /\ \A o \in Calls \ {c} : call'[o] = call[o]
        BY <2>2, <3>1, AnswerFacts DEF Replies
      <3>3. Supported(call'[c], versions)
        BY <2>2, <3>1, <3>2 DEF Supported
      <3> QED
        BY <2>0, <3>2, <3>3 DEF TypeInv, TypeOK, QuietStep
    <2>3. CASE Refuse(c, "REUSED")
      <3>1. /\ call' \in [Calls -> CallStates] /\ ControlOK'
            /\ call'[c].pc = "done" /\ call'[c].reply = "REUSED"
            /\ \A o \in Calls \ {c} : call'[o] = call[o]
        BY <2>3, AnswerFacts DEF Refuse, Replies
      <3> QED
        BY <2>0, <3>1 DEF TypeInv, TypeOK, QuietStep
    <2> QED
      BY <1>3, <2>1, <2>2, <2>3 DEF LookUp
  <1>4. ASSUME NEW c \in Calls, ReadRows(c) PROVE Goal
    <2>1. UNCHANGED <<versions, timeouts, crashes>>
      BY <1>4 DEF ReadRows
    <2> QED
      BY <1>4, <2>1, ReadRowsFacts DEF TypeInv, TypeOK, QuietStep
  <1>5. ASSUME NEW c \in Calls, Write(c) PROVE Goal
    <2>1. CASE Clashes(c)
      <3>1. /\ Retry(c) /\ UNCHANGED <<versions, timeouts, crashes>>
            /\ InProgress(c) /\ call[c].pc = "write"
        BY <1>5, <2>1 DEF Write, InProgress
      <3> QED
        BY <3>1, RetryFacts DEF TypeInv, TypeOK, QuietStep
    <2>2. CASE ~Clashes(c)
      BY <1>5, <2>2, StoreFacts DEF Stores, Write
    <2> QED
      BY <2>1, <2>2
  <1>6. ASSUME NEW c \in Calls, DatabaseFails(c) PROVE Goal
    <2>1. /\ Retry(c) /\ InProgress(c) /\ call[c].pc # "done"
          /\ UNCHANGED <<versions, crashes>> /\ timeouts' \in 0..MaxTimeouts
      BY <1>6 DEF DatabaseFails, InProgress, InputAssumption, TypeInv, TypeOK
    <2> QED
      BY <2>1, RetryFacts DEF TypeInv, TypeOK, QuietStep
  <1> QED
    BY <1>1, <1>2, <1>3, <1>4, <1>5, <1>6 DEF Next, CallStep

Inv == TypeInv /\ HistoryInv

LEMMA InitInv == ASSUME InputAssumption, Init PROVE Inv
  <1>1. \A c \in Calls : call[c].pc = "unsent" /\ call[c].reply = "NONE"
    BY DEF Init, Unsent
  <1>2. versions = {}
    BY DEF Init
  <1>3. HistoryInv
    BY <1>1, <1>2 DEF HistoryInv, IdsOK, KeysUnique, NumbersHaveNoGaps,
                      LineNeverBranches, WriteOK, AnswersOK
  <1> QED
    BY <1>3, InitTypes DEF Inv

LEMMA StepInv == ASSUME InputAssumption, Inv, [Next]_vars PROVE Inv'
  <1>1. CASE Next
    BY <1>1, StepKind, QuietHistory, StoreHistory DEF Inv
  <1>2. CASE UNCHANGED vars
    BY <1>2 DEF vars, Inv, TypeInv, TypeOK, ControlOK, InProgress, HistoryInv, IdsOK,
                KeysUnique, NumbersHaveNoGaps, LineNeverBranches, WriteOK, AnswersOK, On
  <1> QED
    BY <1>1, <1>2

LEMMA AlwaysInv == Spec => []Inv
  BY InputAssumption, InitInv, StepInv, PTL DEF Spec

-----------------------------------------------------------------------------

\* Every variable keeps its type: the local variables of create through both
\* attempts, the rows, the counters of faults.
THEOREM TypeCorrect == Spec => []TypeOK
  <1>1. Inv => TypeOK
    BY DEF Inv, TypeInv
  <1> QED
    BY <1>1, AlwaysInv, PTL

\* However many drafts and revisions race, retry and fail, the history of a date
\* never branches.
THEOREM NeverBranches == Spec => []LineNeverBranches
  <1>1. Inv => LineNeverBranches
    BY DEF Inv, HistoryInv
  <1> QED
    BY <1>1, AlwaysInv, PTL

\* ... its versions are numbered without gap or repetition ...
THEOREM NoGaps == Spec => []NumbersHaveNoGaps
  <1>1. Inv => NumbersHaveNoGaps
    BY DEF Inv, HistoryInv
  <1> QED
    BY <1>1, AlwaysInv, PTL

\* ... and a key, once answered with a version, names that version only.
THEOREM OneVersionPerKey == Spec => []KeysNameOneVersion
  <1>1. ASSUME Inv PROVE KeysNameOneVersion
    <2> SUFFICES ASSUME NEW c \in Calls, call[c].reply = "VERSION"
                 PROVE  /\ \E v \in On(call[c].date) :
                             /\ v.id = call[c].version
                             /\ v.key = call[c].key
                             /\ v.request = call[c].request
                        /\ \A v \in On(call[c].date) :
                             v.key = call[c].key => v.id = call[c].version
      BY DEF KeysNameOneVersion
    <2>1. Supported(call[c], versions) /\ KeysUnique
      BY <1>1 DEF Inv, HistoryInv, AnswersOK
    <2> QED
      BY <2>1 DEF Supported, KeysUnique, On
  <1> QED
    BY <1>1, AlwaysInv, PTL

-----------------------------------------------------------------------------
(* Refinement.                                                             *)

LEMMA StoreAppends ==
  ASSUME TypeInv, HistoryInv, NEW c \in Calls, Stores(c)
  PROVE  History!Next
  <1> DEFINE v == NewVersion(c)
  <1>1. /\ v.id = c /\ v.date = call[c].date /\ v.number = call[c].number
        /\ v.key = call[c].key /\ v.request = call[c].request
        /\ v.content = call[c].content
    BY DEF NewVersion
  <1>2. versions' = versions \cup {v}
    BY StoreFacts
  <1>3. \A u \in versions : u.id # c
    BY DEF Stores, HistoryInv, IdsOK
  <1>4. StillTrue(call[c], versions) /\ call[c].number \in Nat \ {0}
    BY DEF Stores, HistoryInv, WriteOK, TypeInv, TypeOK, ControlOK, CallStates
  <1>5. \A u \in versions : u.date = v.date => u.number < v.number /\ u.key # v.key
    BY <1>1, StoreIsNewest DEF On
  <1> HIDE DEF v
  <1>6. History!Fits(v)
    <2>1. v.number = 1 \/ \E u \in versions : u.date = v.date /\ u.number + 1 = v.number
      <3>1. CASE v.number # 1
        <4>1. call[c].number - 1 \in 1..(call[c].number - 1)
          BY <1>1, <1>4, <3>1
        <4>2. PICK u \in versions : u.date = call[c].date /\ u.number = call[c].number - 1
          BY <1>4, <4>1 DEF StillTrue
        <4> QED
          BY <1>1, <1>4, <4>2
      <3> QED
        BY <3>1
    <2> QED
      BY <1>1, <1>3, <1>5, <2>1 DEF History!Fits, History!On
  <1>7. v.request.kind = "revision" => History!Revises(v)
    BY <1>1, <1>4 DEF StillTrue, History!Revises, History!On
  <1>8. v.request.kind # "revision" => History!Drafts(v)
    BY <1>1, <1>4 DEF StillTrue, History!Drafts, History!On
  <1>9. History!Append(v)
    BY <1>2, <1>6, <1>7, <1>8 DEF History!Append
  <1> QED
    BY <1>1, <1>2, <1>3, <1>9 DEF History!Next

\* The stale reads, retries and unique constraints of create implement an
\* atomic append to the history of a date.
THEOREM Refines == Spec => ImplementsHistory
  <1>1. Init => History!Init
    BY DEF Init, History!Init
  <1>2. Inv /\ [Next]_vars => [History!Next]_(History!vars)
    <2>1. ASSUME Inv, Next PROVE History!Next \/ versions' = versions
      BY <2>1, InputAssumption, StepKind, StoreAppends DEF Inv, QuietStep
    <2> QED
      BY <2>1 DEF vars, History!vars
  <1> QED
    BY <1>1, <1>2, AlwaysInv, PTL DEF Spec, ImplementsHistory, History!Spec

-----------------------------------------------------------------------------
(* Refusals.                                                               *)

\* A revision in progress has a parent of its date, and one that was refused
\* as stale has one that is stale now.
Justified(q, stored) ==
  /\ q.pc \notin {"unsent", "done"} /\ q.request.kind = "revision" =>
       \E u \in stored : u.date = q.date /\ u.id = q.request.parent
  /\ q.reply = "STALE" =>
       \E u \in stored :
         /\ u.date = q.date
         /\ u.id = q.request.parent
         /\ \/ u.content # q.request.expected
            \/ \E v \in stored : v.date = u.date /\ v.number = u.number + 1

\* What the attempts that were lost so far are paid with: the version that the
\* first one met has another key and a smaller number than what the second one
\* stores, so a clash of the second is with yet another version.
Paid(q, stored, failed) ==
  /\ q.pc = "unsent" => q.attempt = 0
  /\ q.pc # "done" /\ q.attempt = 1 =>
       \/ failed >= 1
       \/ \E w \in stored :
            /\ w.date = q.date
            /\ q.pc \in {"rows", "write"} => w.key # q.key
            /\ q.pc = "write" => w.number < q.number
  /\ q.reply = "CONCURRENT" =>
       \/ failed >= 2
       \/ failed >= 1 /\ \E w \in stored : w.date = q.date
       \/ \E v, w \in stored : v # w /\ v.date = q.date /\ w.date = q.date

Explained(q, stored, failed) == Justified(q, stored) /\ Paid(q, stored, failed)

RefusalsOK ==
  /\ IsFiniteSet(versions)
  /\ \A c \in Calls : Explained(call[c], versions, timeouts)

\* Versions and failures are never taken back.
LEMMA ExplainedStays ==
  ASSUME NEW q, NEW S, NEW T, S \subseteq T, NEW m \in Nat, NEW n \in Nat, m <= n,
         Explained(q, S, m)
  PROVE  Explained(q, T, n)
  <1>1. m >= 1 => n >= 1
    OBVIOUS
  <1>2. m >= 2 => n >= 2
    OBVIOUS
  <1>3. Justified(q, T)
    BY DEF Explained, Justified
  <1>4. Paid(q, T, n)
    BY <1>1, <1>2 DEF Explained, Paid
  <1> QED
    BY <1>3, <1>4 DEF Explained

\* One request moves.
LEMMA ExplainedStep ==
  ASSUME RefusalsOK, call \in [Calls -> CallStates], NEW c \in Calls, NEW q,
         call' = [call EXCEPT ![c] = q], Explained(q, versions', timeouts'),
         timeouts \in Nat, timeouts' \in Nat, timeouts <= timeouts',
         \/ versions' = versions
         \/ \E v : versions' = versions \cup {v}
  PROVE  RefusalsOK'
  <1>1. versions \subseteq versions' /\ IsFiniteSet(versions')
    BY FS_AddElement DEF RefusalsOK
  <1>2. call'[c] = q /\ \A o \in Calls \ {c} : call'[o] = call[o]
    OBVIOUS
  <1>3. ASSUME NEW o \in Calls \ {c} PROVE Explained(call'[o], versions', timeouts')
    <2>1. Explained(call[o], versions, timeouts)
      BY DEF RefusalsOK
    <2>2. Explained(call[o], versions', timeouts')
      BY <1>1, <2>1, ExplainedStays
    <2> QED
      BY <1>2, <2>2
  <1> QED
    BY <1>1, <1>2, <1>3 DEF RefusalsOK

\* An answer other than these two needs no explanation.
LEMMA PlainAnswer ==
  ASSUME TypeInv, RefusalsOK, NEW c \in Calls, NEW reply \in Replies \ {"STALE", "CONCURRENT"},
         NEW id, Answer(c, reply, id), timeouts' = timeouts,
         versions' = versions \/ \E v : versions' = versions \cup {v}
  PROVE  RefusalsOK'
  <1> DEFINE q == [call[c] EXCEPT !.pc = "done", !.reply = reply, !.version = id,
                                  !.attempt = 0, !.number = 0, !.content = NoInput]
  <1>0. call \in [Calls -> CallStates] /\ call[c] \in CallStates /\ timeouts \in Nat
    BY DEF TypeInv, TypeOK
  <1>1. q.pc = "done" /\ q.reply = reply
    BY <1>0 DEF CallStates
  <1>2. call' = [call EXCEPT ![c] = q]
    BY DEF Answer
  <1> HIDE DEF q
  <1>3. Explained(q, versions', timeouts')
    BY <1>1 DEF Explained, Justified, Paid
  <1>4. timeouts' \in Nat /\ timeouts <= timeouts'
    BY <1>0
  <1> QED
    BY <1>0, <1>2, <1>3, <1>4, ExplainedStep

\* A lost attempt: a clash with a stored version, or an operation that failed.
LEMMA LostAttempt ==
  ASSUME TypeInv, RefusalsOK, NEW c \in Calls, InProgress(c), Retry(c), versions' = versions,
         \/ timeouts' = timeouts /\ call[c].pc = "write" /\ Clashes(c)
         \/ timeouts' = timeouts + 1
  PROVE  RefusalsOK'
  <1>0. /\ call \in [Calls -> CallStates] /\ call[c] \in CallStates
        /\ timeouts \in Nat /\ call[c].attempt \in {0, 1}
        /\ timeouts' \in Nat /\ timeouts <= timeouts'
    BY DEF TypeInv, TypeOK, CallStates
  <1>1. Explained(call[c], versions, timeouts) /\ call[c].pc \notin {"unsent", "done"}
    BY DEF RefusalsOK, InProgress
  <1>2. call[c].reply = "NONE"
    BY <1>1 DEF TypeInv, ControlOK
  <1>3. CASE call[c].attempt = 0
    <2> DEFINE q == [call[c] EXCEPT !.pc = "lookup", !.attempt = 1, !.number = 0,
                                    !.content = NoInput]
    <2>1. /\ q.pc = "lookup" /\ q.reply = "NONE" /\ q.attempt = 1
          /\ q.date = call[c].date /\ q.request = call[c].request
      BY <1>0, <1>2 DEF CallStates
    <2>2. call' = [call EXCEPT ![c] = q]
      BY <1>3 DEF Retry
    <2> HIDE DEF q
    <2>3. Justified(q, versions')
      BY <1>1, <2>1 DEF Explained, Justified
    <2>4. timeouts' >= 1 \/ \E w \in versions' : w.date = q.date
      BY <1>0, <2>1 DEF Clashes, On
    <2>5. Paid(q, versions', timeouts')
      BY <2>1, <2>4 DEF Paid
    <2> QED
      BY <1>0, <2>2, <2>3, <2>5, ExplainedStep DEF Explained
  <1>4. CASE call[c].attempt = 1
    <2> DEFINE q == [call[c] EXCEPT !.pc = "done", !.reply = "CONCURRENT",
                                    !.version = NoVersion,
                                    !.attempt = 0, !.number = 0, !.content = NoInput]
    <2>1. q.pc = "done" /\ q.reply = "CONCURRENT" /\ q.date = call[c].date
      BY <1>0 DEF CallStates
    <2>2. call' = [call EXCEPT ![c] = q]
      BY <1>4 DEF Retry, Refuse, Answer
    <2> HIDE DEF q
    <2>3. \/ timeouts >= 1
          \/ \E w \in versions :
               /\ w.date = call[c].date
               /\ call[c].pc \in {"rows", "write"} => w.key # call[c].key
               /\ call[c].pc = "write" => w.number < call[c].number
      BY <1>1, <1>4 DEF Explained, Paid
    <2>4. \/ timeouts' >= 2
          \/ timeouts' >= 1 /\ \E w \in versions : w.date = call[c].date
          \/ \E v, w \in versions : v # w /\ v.date = call[c].date /\ w.date = call[c].date
      <3>1. CASE timeouts' = timeouts + 1
        BY <1>0, <2>3, <3>1
      <3>2. CASE timeouts' = timeouts /\ call[c].pc = "write" /\ Clashes(c)
        <4>1. PICK v \in versions : /\ v.date = call[c].date
                                    /\ v.number = call[c].number \/ v.key = call[c].key
          BY <3>2 DEF Clashes, On
        <4>2. v.number \in Nat
          BY <4>1 DEF TypeInv, TypeOK, Versions
        <4>3. ASSUME NEW w \in versions, w.date = call[c].date, w.key # call[c].key,
                     w.number < call[c].number
              PROVE  v # w
          BY <4>1, <4>2, <4>3
        <4> QED
          BY <2>3, <3>2, <4>1, <4>3
      <3> QED
        BY <3>1, <3>2
    <2>5. Explained(q, versions', timeouts')
      BY <2>1, <2>4 DEF Explained, Justified, Paid
    <2> QED
      BY <1>0, <2>2, <2>5, ExplainedStep
  <1> QED
    BY <1>0, <1>3, <1>4

\* A request is sent: a revision names a version of its date.
LEMMA StartExplained ==
  ASSUME TypeInv, RefusalsOK, NEW c \in Calls, NEW d \in Dates, NEW k, NEW r, Start(c, d, k, r),
         r.kind = "revision" => \E u \in versions : u.date = d /\ u.id = r.parent
  PROVE  RefusalsOK'
  <1> DEFINE q == [call[c] EXCEPT !.pc = "lookup", !.date = d, !.key = k, !.request = r]
  <1>0. /\ call \in [Calls -> CallStates] /\ call[c] \in CallStates
        /\ timeouts \in Nat /\ call[c].reply = "NONE" /\ call[c].pc = "unsent"
        /\ versions' = versions /\ timeouts' = timeouts
    BY DEF Start, TypeInv, TypeOK, ControlOK
  <1>1. call[c].attempt = 0
    BY <1>0 DEF RefusalsOK, Explained, Paid
  <1>2. /\ q.pc = "lookup" /\ q.reply = "NONE" /\ q.attempt = 0
        /\ q.date = d /\ q.request = r
    BY <1>0, <1>1 DEF CallStates
  <1>3. call' = [call EXCEPT ![c] = q]
    BY DEF Start
  <1> HIDE DEF q
  <1>4. Explained(q, versions', timeouts')
    BY <1>0, <1>2 DEF Explained, Justified, Paid
  <1>5. timeouts' \in Nat /\ timeouts <= timeouts'
    BY <1>0
  <1> QED
    BY <1>0, <1>3, <1>4, <1>5, ExplainedStep

\* The key is new to the date, so no version of it has that key.
LEMMA LookUpExplained ==
  ASSUME TypeInv, RefusalsOK, NEW c \in Calls, LookUp(c) PROVE RefusalsOK'
  <1>0. /\ call \in [Calls -> CallStates] /\ call[c] \in CallStates
        /\ timeouts \in Nat /\ call[c].reply = "NONE" /\ call[c].pc = "lookup"
        /\ versions' = versions /\ timeouts' = timeouts
    BY DEF LookUp, TypeInv, TypeOK, ControlOK
  <1>1. CASE /\ \A v \in On(call[c].date) : v.key # call[c].key
             /\ call' = [call EXCEPT ![c].pc = "rows"]
    <2> DEFINE q == [call[c] EXCEPT !.pc = "rows"]
    <2>1. /\ q.pc = "rows" /\ q.reply = "NONE" /\ q.attempt = call[c].attempt
          /\ q.date = call[c].date /\ q.key = call[c].key /\ q.request = call[c].request
      BY <1>0 DEF CallStates
    <2>2. call' = [call EXCEPT ![c] = q]
      BY <1>1
    <2> HIDE DEF q
    <2>3. Explained(call[c], versions, timeouts)
      BY DEF RefusalsOK
    <2>4. Justified(q, versions')
      BY <1>0, <2>1, <2>3 DEF Explained, Justified
    <2>5. Paid(q, versions', timeouts')
      BY <1>0, <1>1, <2>1, <2>3 DEF Explained, Paid, On
    <2>6. timeouts' \in Nat /\ timeouts <= timeouts'
      BY <1>0
    <2> QED
      BY <1>0, <2>2, <2>4, <2>5, <2>6, ExplainedStep DEF Explained
  <1>2. ASSUME NEW v \in On(call[c].date), Answer(c, "VERSION", v.id) PROVE RefusalsOK'
    BY <1>0, <1>2, PlainAnswer DEF Replies
  <1>3. CASE Refuse(c, "REUSED")
    BY <1>0, <1>3, PlainAnswer DEF Refuse, Replies
  <1> QED
    BY <1>1, <1>2, <1>3 DEF LookUp

\* The rows: a refusal as stale is justified by the newest one, and the number
\* to store exceeds all of them.
LEMMA ReadRowsExplained ==
  ASSUME TypeInv, HistoryInv, RefusalsOK, NEW c \in Calls, ReadRows(c) PROVE RefusalsOK'
  <1> DEFINE day == call[c].date
             r == call[c].request
  <1>0. /\ call \in [Calls -> CallStates] /\ call[c] \in CallStates
        /\ timeouts \in Nat /\ call[c].reply = "NONE" /\ call[c].pc = "rows"
        /\ versions' = versions /\ timeouts' = timeouts
        /\ versions \subseteq Versions
    <2>1. /\ call[c].pc = "rows" /\ versions' = versions /\ timeouts' = timeouts
      BY DEF ReadRows
    <2>2. /\ call \in [Calls -> CallStates] /\ timeouts \in 0..MaxTimeouts
          /\ versions \subseteq Versions
      BY DEF TypeInv, TypeOK
    <2>3. call[c].reply = "NONE"
      BY <2>1 DEF TypeInv, ControlOK
    <2>4. timeouts \in Nat
      BY <2>2
    <2> QED
      BY <2>1, <2>2, <2>3, <2>4
  <1>1. Explained(call[c], versions, timeouts)
    BY DEF RefusalsOK
  <1>2. timeouts' \in Nat /\ timeouts <= timeouts'
    BY <1>0
  <1>3. ASSUME r.kind = "revision", IsStale(c), Refuse(c, "STALE") PROVE RefusalsOK'
    <2> DEFINE q == [call[c] EXCEPT !.pc = "done", !.reply = "STALE", !.version = NoVersion,
                                    !.attempt = 0, !.number = 0, !.content = NoInput]
    <2>1. /\ q.pc = "done" /\ q.reply = "STALE"
          /\ q.date = day /\ q.request = r
      BY <1>0 DEF CallStates
    <2>2. call' = [call EXCEPT ![c] = q]
      BY <1>3 DEF Refuse, Answer
    <2> HIDE DEF q
    <2>3. PICK u \in versions : u.date = day /\ u.id = r.parent
      BY <1>0, <1>1, <1>3 DEF Explained, Justified
    <2>4. ASSUME u.content = r.expected
          PROVE  \E v \in versions : v.date = u.date /\ v.number = u.number + 1
      <3>1. u \in On(day) /\ u \notin Newest(day)
        BY <1>3, <2>3, <2>4 DEF IsStale, On
      <3>2. PICK w \in On(day) : ~(w.number <= u.number)
        BY <3>1 DEF Newest
      <3>3. w \in versions /\ w.date = day /\ w.number \in Nat /\ u.number \in Nat
        BY <1>0, <2>3, <3>2 DEF On, Versions
      <3>4. u.number + 1 \in 1 .. w.number
        BY <3>2, <3>3
      <3>5. PICK v \in On(w.date) : v.number = u.number + 1
        BY <3>3, <3>4 DEF HistoryInv, NumbersHaveNoGaps
      <3> QED
        BY <2>3, <3>3, <3>5 DEF On
    <2>5. Explained(q, versions', timeouts')
      BY <1>0, <2>1, <2>3, <2>4 DEF Explained, Justified, Paid
    <2> QED
      BY <1>0, <1>2, <2>2, <2>5, ExplainedStep
  <1>4. CASE Refuse(c, "INVALID")
    BY <1>0, <1>4, PlainAnswer DEF Refuse, Replies
  <1>5. ASSUME NEW i, NEW n \in NextNumbers(day),
               call' = [call EXCEPT ![c] =
                         [@ EXCEPT !.pc = "write", !.number = n, !.content = i]]
        PROVE  RefusalsOK'
    <2> DEFINE q == [call[c] EXCEPT !.pc = "write", !.number = n, !.content = i]
    <2>1. /\ q.pc = "write" /\ q.reply = "NONE" /\ q.number = n
          /\ q.attempt = call[c].attempt
          /\ q.date = day /\ q.key = call[c].key /\ q.request = r
      BY <1>0 DEF CallStates
    <2>2. call' = [call EXCEPT ![c] = q]
      BY <1>5
    <2> HIDE DEF q
    <2>3. \A w \in versions : w.date = day => w.number < n
      <3> SUFFICES ASSUME NEW w \in versions, w.date = day PROVE w.number < n
        OBVIOUS
      <3>1. w \in On(day)
        BY DEF On
      <3>2. PICK v \in Newest(day) : n = v.number + 1
        BY <1>5, <3>1 DEF NextNumbers
      <3>3. w.number <= v.number /\ v \in versions
        BY <3>1, <3>2 DEF Newest, On
      <3>4. w.number \in Nat /\ v.number \in Nat
        BY <1>0, <3>3 DEF Versions
      <3> QED
        BY <3>2, <3>3, <3>4
    <2>4. Justified(q, versions')
      BY <1>0, <1>1, <2>1 DEF Explained, Justified
    <2>5. Paid(q, versions', timeouts')
      BY <1>0, <1>1, <2>1, <2>3 DEF Explained, Paid
    <2> QED
      BY <1>0, <1>2, <2>2, <2>4, <2>5, ExplainedStep DEF Explained
  <1> QED
    BY <1>3, <1>4, <1>5 DEF ReadRows

LEMMA CrashExplained == ASSUME TypeInv, RefusalsOK, Crash PROVE RefusalsOK'
  <1>1. /\ versions' = versions /\ timeouts' = timeouts
        /\ \A c \in Calls :
             call'[c] = IF InProgress(c) THEN [Unsent EXCEPT !.pc = "done", !.reply = "LOST"]
                                         ELSE call[c]
    BY DEF Crash
  <1>2. ASSUME NEW c \in Calls PROVE Explained(call'[c], versions', timeouts')
    <2>1. CASE InProgress(c)
      <3>1. call'[c].pc = "done" /\ call'[c].reply = "LOST"
        BY <1>1, <2>1 DEF Unsent
      <3> QED
        BY <3>1 DEF Explained, Justified, Paid
    <2>2. CASE ~InProgress(c)
      BY <1>1, <2>2 DEF RefusalsOK
    <2> QED
      BY <2>1, <2>2
  <1> QED
    BY <1>1, <1>2 DEF RefusalsOK

LEMMA RefusalsStep ==
  ASSUME InputAssumption, TypeInv, HistoryInv, RefusalsOK, Next PROVE RefusalsOK'
  <1>1. ASSUME NEW c \in Calls, StartDraft(c) PROVE RefusalsOK'
    <2>1. PICK d \in Dates, k \in Keys : \E p, i : Start(c, d, k, Draft(p, i))
      BY <1>1 DEF StartDraft
    <2>3. PICK p, i : Start(c, d, k, Draft(p, i))
      BY <2>1
    <2>2. Draft(p, i).kind # "revision"
      BY DEF Draft
    <2> QED
      BY <2>3, <2>2, StartExplained
  <1>2. ASSUME NEW c \in Calls, StartRevision(c) PROVE RefusalsOK'
    <2>1. PICK v \in versions, seen \in versions, k \in Keys, i \in Offered :
            Start(c, v.date, k, Revision(v.id, seen.content, i))
      BY <1>2 DEF StartRevision
    <2>2. Revision(v.id, seen.content, i).parent = v.id
      BY DEF Revision
    <2>3. v.date \in Dates
      BY DEF TypeInv, TypeOK, Versions
    <2> QED
      BY <2>1, <2>2, <2>3, StartExplained
  <1>3. ASSUME NEW c \in Calls, Write(c) PROVE RefusalsOK'
    <2>1. CASE ~Clashes(c)
      BY <1>3, <2>1, PlainAnswer DEF Write, Replies
    <2>2. CASE Clashes(c)
      BY <1>3, <2>2, LostAttempt DEF Write, InProgress
    <2> QED
      BY <2>1, <2>2
  <1>4. ASSUME NEW c \in Calls, DatabaseFails(c) PROVE RefusalsOK'
    BY <1>4, LostAttempt DEF DatabaseFails
  <1> QED
    BY <1>1, <1>2, <1>3, <1>4, CrashExplained, LookUpExplained, ReadRowsExplained
    DEF Next, CallStep

LEMMA RefusalsInvariant == Spec => []RefusalsOK
  <1>1. Init => RefusalsOK
    BY FS_EmptySet DEF Init, RefusalsOK, Explained, Justified, Paid, Unsent
  <1>2. Inv /\ RefusalsOK /\ [Next]_vars => RefusalsOK'
    <2>1. ASSUME RefusalsOK, UNCHANGED vars PROVE RefusalsOK'
      BY <2>1 DEF vars, RefusalsOK, Explained, Justified, Paid
    <2> QED
      BY <2>1, InputAssumption, RefusalsStep DEF Inv
  <1> QED
    BY <1>1, <1>2, AlwaysInv, PTL DEF Spec

\* A revision is refused as stale only when the version it names has a
\* successor or another hash than the one its author saw, although the rows
\* that showed it were read without a lock.
THEOREM StaleRefusalsAreRight == Spec => []StaleIsJustified
  <1>1. RefusalsOK => StaleIsJustified
    BY DEF RefusalsOK, Explained, Justified, StaleIsJustified, On
  <1> QED
    BY <1>1, RefusalsInvariant, PTL

\* A request is refused as concurrent only when two versions of its date were
\* stored or operations failed meanwhile: the second attempt cannot lose to
\* what the first one has already lost to.
THEOREM ConflictsArePaid == Spec => []ConflictsMeanProgress
  <1>1. ASSUME Inv, RefusalsOK, NEW c \in Calls, call[c].reply = "CONCURRENT"
        PROVE  Cardinality(On(call[c].date)) + timeouts >= 2
    <2> DEFINE S == On(call[c].date)
    <2>0. timeouts \in Nat
      BY <1>1 DEF Inv, TypeInv, TypeOK
    <2>1. IsFiniteSet(S) /\ Cardinality(S) \in Nat
      <3>1. S \subseteq versions
        BY DEF On
      <3> QED
        BY <1>1, <3>1, FS_Subset, FS_CardinalityType DEF RefusalsOK
    <2>2. \/ timeouts >= 2
          \/ timeouts >= 1 /\ \E w \in S : TRUE
          \/ \E v, w \in S : v # w
      BY <1>1 DEF RefusalsOK, Explained, Paid, On
    <2> HIDE DEF S
    <2>3. ASSUME NEW w \in S PROVE Cardinality(S) >= 1
      <3>1. Cardinality(S) # 0
        BY <2>1, FS_EmptySet
      <3> QED
        BY <2>1, <3>1
    <2>4. ASSUME NEW v \in S, NEW w \in S, v # w PROVE Cardinality(S) >= 2
      <3>1. Cardinality({v}) = 1 /\ IsFiniteSet({v})
        BY FS_Singleton
      <3>2. w \notin {v}
        BY <2>4
      <3>3. Cardinality({v} \cup {w}) = 2
        BY <3>1, <3>2, FS_AddElement
      <3>4. {v} \cup {w} \subseteq S
        OBVIOUS
      <3>5. Cardinality({v} \cup {w}) <= Cardinality(S)
        BY <2>1, <3>4, FS_Subset
      <3> QED
        BY <2>1, <3>3, <3>5
    <2> QED
      BY <2>0, <2>1, <2>2, <2>3, <2>4 DEF S
  <1>2. Inv /\ RefusalsOK => ConflictsMeanProgress
    BY <1>1 DEF ConflictsMeanProgress
  <1> QED
    BY <1>2, AlwaysInv, RefusalsInvariant, PTL

=============================================================================
