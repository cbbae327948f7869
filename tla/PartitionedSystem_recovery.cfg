SPECIFICATION Spec
CONSTANTS
  s1 = s1
  s2 = s2
  g1 = g1
  d1 = d1
  e1 = e1
  None = None
  Subject <- People
  Group <- Groups
  Draft <- Drafts
  GroupOf <- Groupings
  Plan <- OneErasure
  InFlight = 1
SYMMETRY Names
CONSTRAINTS
  NoDeadPlan
  NoDeadArchive
INVARIANTS
  ErasureCanBeRecovered
CHECK_DEADLOCK FALSE
