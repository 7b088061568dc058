\* One request, two workers, one crash, a host that may be suspended and a solver
\* that may hang: every claimed job and every solver process ends.
SPECIFICATION FairSpec
CONSTANTS
  Posts = {p1}
  Keys = {}
  NoKey = NoKey
  Inputs = {i1}
  NoInput = NoInput
  Workers = {w1, w2}
  MaxJobs = 1
  MaxPending = 1
  Threads = 1
  Stages = 1
  MaxCrashes = 1
  Damage = FALSE
  Suspends = TRUE
PROPERTIES
  ClaimedJobsEnd
  SolversEnd
