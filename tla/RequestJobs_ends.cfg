SPECIFICATION RequestSpec
CONSTANTS
  n1 = n1
  r1 = r1
  w1 = w1
  i1 = i1
  Job <- TwoJobs
  Request <- TheRequest
  Worker <- TwoWorkers
  Invocation <- TheHandler
  MaxActive = 2
  MaxSlots = 1
  MaxRetries = 0
  MaxCommits = 1
  LeaseTime = 1
  Life = 1
  Backoff = 1
  MaxTime = 1
  MaxFaults = 1
INVARIANTS
  OutcomesAreTrue
PROPERTIES
  ClosedAttemptsStayClosed
  JobsEnd
CHECK_DEADLOCK FALSE
