--------------------------- MODULE MCImportReview ---------------------------
(* Small instances of ImportReview for TLC.                                *)
EXTENDS ImportReview, TLC

CONSTANTS today, tomorrow, row, k1, k2

\* One row per workbook: fit for one date, fit for both (a flight around
\* midnight), or excluded.
Values == {{today}, {today, tomorrow}, Excluded}

Preview(value, issues) ==
  [date |-> today, rows |-> [r \in Rows |-> value], issues |-> issues]

\* Schedules: one that fits the flight logs below, one of another configuration
\* and one that the parser rejects.
Uploads ==
  {[type |-> "EMPLOYEES", config |-> k, preview |-> Preview({today}, {})] : k \in {k1, k2}}
  \cup
  {[type |-> "EMPLOYEES", config |-> k1, preview |-> Preview(Excluded, {"FATAL"})]}

\* Flight logs with an issue that has since been dropped: one that blocks, and
\* one that does not.
Saved ==
  {[type |-> "FLIGHTS", config |-> k1, preview |-> Preview({today}, {"ERROR"})],
   [type |-> "FLIGHTS", config |-> k1, preview |-> Preview({today, tomorrow}, {"NOTE"})]}

\* A reviewer excludes the row, or changes the date.
Corrections ==
  {[rows |-> [r \in Rows |-> Excluded], date |-> Keep],
   [rows |-> [r \in Rows |-> Keep], date |-> tomorrow]}

Symmetry == Permutations(Calls)
=============================================================================
