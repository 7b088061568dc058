--------------------------- MODULE ReviewContract ---------------------------
(***************************************************************************)
(* What reviewed imports promise: the revisions of a review only grow, a   *)
(* review is settled by the one day it publishes, and a day is published   *)
(* only by settling a review or by joining two settled ones, one day per   *)
(* pair.  There are no requests, locks, failures or retries here.          *)
(***************************************************************************)
EXTENDS Naturals, Sequences, SequencesExt

CONSTANTS Imports, Nothing, Excluded

VARIABLES
  origin,     \* the type and configuration of each review
  revisions,  \* its revisions, none before it is uploaded
  published,  \* the day that settles it
  days,       \* the published days
  pairs       \* the joined reviews and their day

vars == <<origin, revisions, published, days, pairs>>

Init ==
  /\ \A i \in Imports : Len(revisions[i]) <= 1
  /\ published = [i \in Imports |-> Nothing]
  /\ days = {}
  /\ pairs = {}

Fresh(id) == \A d \in days : d.id # id

\* Every row is excluded or is fit for the day's date.
Resolved(p) == \A r \in DOMAIN p.rows : p.rows[r] = Excluded \/ p.date \in p.rows[r]

Open(i) ==
  /\ revisions[i] = <<>>
  /\ Len(revisions'[i]) = 1
  /\ \A j \in Imports \ {i} : origin'[j] = origin[j] /\ revisions'[j] = revisions[j]
  /\ UNCHANGED <<published, days, pairs>>

Amend(i) ==
  /\ revisions[i] # <<>>
  /\ published[i] = Nothing
  /\ revisions' = [revisions EXCEPT ![i] = Append(@, Last(revisions'[i]))]
  /\ UNCHANGED <<origin, published, days, pairs>>

\* What is published is the last revision that was reviewed; its issues may be
\* assessed anew, in a revision that says so and changes nothing else.
Publish(i) ==
  \E d \in days' :
    LET p == Last(revisions[i]) IN
    /\ revisions[i] # <<>> /\ published[i] = Nothing /\ Fresh(d.id)
    /\ Resolved(p)
    /\ d.date = p.date /\ d.config = origin[i].config
    /\ d.shifts = IF origin[i].type = "EMPLOYEES" THEN p.rows ELSE Nothing
    /\ d.flights = IF origin[i].type = "FLIGHTS" THEN p.rows ELSE Nothing
    /\ \/ revisions' = revisions
       \/ /\ revisions' = [revisions EXCEPT ![i] = Append(@, Last(revisions'[i]))]
          /\ Last(revisions'[i]).date = p.date /\ Last(revisions'[i]).rows = p.rows
    /\ published' = [published EXCEPT ![i] = d.id]
    /\ days' = days \cup {d}
    /\ UNCHANGED <<origin, pairs>>

Join(e, f) ==
  \E d \in days' :
    LET p == Last(revisions[e])  q == Last(revisions[f]) IN
    /\ published[e] # Nothing /\ published[f] # Nothing /\ Fresh(d.id)
    /\ origin[e].type = "EMPLOYEES" /\ origin[f].type = "FLIGHTS"
    /\ d.date = p.date /\ d.date = q.date
    /\ d.config = origin[e].config /\ d.config = origin[f].config
    /\ d.shifts = p.rows /\ d.flights = q.rows
    /\ \A x \in pairs : x.employee # e \/ x.flight # f
    /\ pairs' = pairs \cup {[day |-> d.id, employee |-> e, flight |-> f]}
    /\ days' = days \cup {d}
    /\ UNCHANGED <<origin, revisions, published>>

Next ==
  \/ \E i \in Imports : Open(i) \/ Amend(i) \/ Publish(i)
  \/ \E e, f \in Imports : Join(e, f)

Spec == Init /\ [][Next]_vars
=============================================================================
