\* One worker, one crash, a snapshot that may be damaged: a claim that is overdue
\* must end.  It does not when its recovery raises.
SPECIFICATION FairSpec
CONSTANTS
  Posts = {p1}
  Keys = {}
  NoKey = NoKey
  Inputs = {i1}
  NoInput = NoInput
  Workers = {w1}
  MaxJobs = 1
  MaxPending = 2
  Threads = 2
  Stages = 1
  MaxCrashes = 1
  Damage = TRUE
  Suspends = FALSE
PROPERTY
  AbandonedClaimsEnd
