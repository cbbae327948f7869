SPECIFICATION Spec
CONSTANTS
  account = account
  group = group
  o1 = o1
  o2 = o2
  w1 = w1
  w2 = w2
  s1 = s1
  s2 = s2
  Row <- Rows
  Batches <- Cut
  Operator <- Operators
  Writer <- Writers
  Server <- Servers
  Absent = Absent
  NoPlan = NoPlan
  Nothing = Nothing
  MaxWrites = 2
  MaxSent = 2
SYMMETRY Names
INVARIANTS
  CopyIsAccountedFor
PROPERTIES
  ImplementsOneStore
CHECK_DEADLOCK FALSE
