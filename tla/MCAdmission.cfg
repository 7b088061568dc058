\* Four requests, two at a time, with and without an explicit key, race for
\* three inputs and a capacity of one, while clients cancel.  No worker runs: the
\* queue only admits.
SPECIFICATION Spec
CONSTANTS
  Posts = {p1, p2, p3, p4}
  Keys = {k1, k2}
  NoKey = NoKey
  Inputs = {i1, i2, i3}
  NoInput = NoInput
  Workers = {}
  MaxJobs = 4
  MaxPending = 1
  Threads = 2
  Stages = 0
  MaxCrashes = 0
  Damage = FALSE
  Suspends = FALSE
SYMMETRY Symmetry
INVARIANTS
  RepliesAgreeWithKeys
  SoftCapacity
PROPERTY
  ImplementsContract
\* Every request answered, every queued job cancelled, no worker: it stops.
CHECK_DEADLOCK FALSE
