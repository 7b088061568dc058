\* One worker without faults: a complete result left unread in the pipe.
SPECIFICATION Spec
CONSTANTS
  Posts = {p1}
  Keys = {}
  NoKey = NoKey
  Inputs = {i1}
  NoInput = NoInput
  Workers = {w1}
  MaxJobs = 1
  MaxPending = 2
  Threads = 2
  Stages = 1
  MaxCrashes = 0
  Damage = FALSE
  Suspends = FALSE
INVARIANT
  ResultNotDiscarded
