\* Two supervisors and one job with two checkpoints, under crashes, exceptions,
\* suspension, damage and cancellation.
SPECIFICATION Spec
CONSTANTS
  Posts = {p1}
  Keys = {}
  NoKey = NoKey
  Inputs = {i1}
  NoInput = NoInput
  Workers = {w1, w2}
  MaxJobs = 1
  MaxPending = 2
  Threads = 1
  Stages = 2
  MaxCrashes = 2
  Damage = TRUE
  Suspends = TRUE
SYMMETRY Symmetry
INVARIANTS
  OneSupervisor
  PublishedExactlyOnce
  OutcomeConsistent
  NoLeakedSolver
PROPERTIES
  TerminalRowsFrozen
  CheckpointsAdvance
  NeverReexecuted
  ImplementsContract
