SPECIFICATION Spec
CONSTANTS
  j1 = j1
  j2 = j2
  w1 = w1
  w2 = w2
  Job <- TwoJobs
  Worker <- TwoWorkers
  MaxActive = 2
  MaxSlots = 1
  MaxRetries = 1
  MaxCommits = 2
  LeaseTime = 1
  Life = 2
  Backoff = 1
  MaxTime = 2
  MaxFaults = 2
SYMMETRY Names
INVARIANTS
  AtMostOneCall
  ResultIsAppliedOnce
  StoreIsConsistent
PROPERTIES
  EffectNeedsAuthority
CHECK_DEADLOCK FALSE
