SPECIFICATION Spec
CONSTANTS
  c1 = c1
  c2 = c2
  k1 = k1
  k2 = k2
  i1 = i1
  i2 = i2
  None = None
  Client <- Clients
  Key <- Keys
  Invocation <- Invocations
  MaxAttempts = 2
  MaxSystem = 1
SYMMETRY Names
INVARIANTS
  AtMostOnce
  AnswersAreTrue
  RivalsExclude
PROPERTIES
  NothingIsLost
  ImplementsRegister
CHECK_DEADLOCK FALSE
