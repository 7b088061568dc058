\* Two racing requests and one worker that is killed once: every request is
\* answered, every queued job leaves the queue.
SPECIFICATION FairSpec
CONSTANTS
  Posts = {p1, p2}
  Keys = {}
  NoKey = NoKey
  Inputs = {i1, i2}
  NoInput = NoInput
  Workers = {w1}
  MaxJobs = 2
  MaxPending = 2
  Threads = 2
  Stages = 0
  MaxCrashes = 1
  Damage = FALSE
  Suspends = FALSE
INVARIANT
  OneActiveJobPerInput
PROPERTIES
  QueueDrains
  PostsAnswered
