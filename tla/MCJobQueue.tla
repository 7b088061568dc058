----------------------------- MODULE MCJobQueue -----------------------------
(* Small instances of JobQueue for TLC.                                    *)
EXTENDS JobQueue, TLC

\* POSTs, keys, fingerprints and supervisors are interchangeable.  Only the
\* safety runs use it.
Symmetry == Permutations(Posts) \cup Permutations(Keys)
              \cup Permutations(Inputs) \cup Permutations(Workers)

\* The properties the runs check are those of JobQueue.
=============================================================================
