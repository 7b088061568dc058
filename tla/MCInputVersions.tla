--------------------------- MODULE MCInputVersions ---------------------------
(* Small instances of InputVersions for TLC.                               *)
EXTENDS InputVersions, TLC

CONSTANTS day, otherDay, ann, bob

\* An input that adds ann, and drops bob where he was imported, and one that
\* fails validation and is for another day.
OfferedInputs ==
  {[date |-> day, employees |-> {ann}, valid |-> TRUE],
   [date |-> otherDay, employees |-> {ann, bob}, valid |-> FALSE]}

ImportedSnapshots == {[date |-> day, employees |-> {bob}, valid |-> TRUE]}

\* The other one was stored by an optimization.
StoredSnapshots ==
  ImportedSnapshots \cup {[date |-> day, employees |-> {ann, bob}, valid |-> TRUE]}

Symmetry == Permutations(Calls) \cup Permutations(Keys)
=============================================================================
