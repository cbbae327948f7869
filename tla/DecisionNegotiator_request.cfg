SPECIFICATION NegotiatorSpec
CONSTANTS
  p1 = p1
  p2 = p2
  a = a
  r1 = r1
  r2 = r2
  Participant <- TwoPeople
  Optional = {}
  Option <- OneOption
  DraftTerms = {}
  Answer <- Anything
  Conditions <- AnyTerms
  Request <- TwoRequests
  Nobody = Nobody
  MaxContext = 1
  MaxProposal = 1
SYMMETRY Same
INVARIANTS
  NoJobIsAbandoned
  NegotiationIsHeld
  VerdictIsKernels
PROPERTY RequestsKeepApart
CHECK_DEADLOCK FALSE
