--------------------------- MODULE VersionHistory ---------------------------
(***************************************************************************)
(* What InputService promises: every operational date has one line of      *)
(* numbered versions, a version is appended once and never changes, a      *)
(* revision is made from the version it follows, and one key stores one    *)
(* version.  There are no reads, races or retries here.                    *)
(***************************************************************************)
EXTENDS Naturals

CONSTANT NoVersion  \* the absent source of a draft

VARIABLE versions   \* the set of stored versions

vars == <<versions>>

On(d) == {v \in versions : v.date = d}

Init == versions = {}

Fits(v) ==
  /\ \A u \in versions : u.id # v.id
  /\ \A u \in On(v.date) : u.number < v.number /\ u.key # v.key
  /\ v.number = 1 \/ \E u \in On(v.date) : u.number + 1 = v.number

\* The whole input of the newest version is replaced; nobody disappears.
Revises(v) ==
  \E u \in On(v.date) :
    /\ u.id = v.request.parent
    /\ u.number + 1 = v.number
    /\ u.content = v.request.expected
    /\ u.content.employees \subseteq v.content.employees

\* A draft may copy any version of its date, however old, or start afresh.
Drafts(v) ==
  v.request.parent # NoVersion =>
    \E u \in On(v.date) : u.id = v.request.parent /\ u.content = v.content

Append(v) ==
  /\ Fits(v)
  /\ IF v.request.kind = "revision" THEN Revises(v) ELSE Drafts(v)
  /\ versions' = versions \cup {v}

Next == \E v \in versions' : v \notin versions /\ Append(v)

Spec == Init /\ [][Next]_vars
=============================================================================
