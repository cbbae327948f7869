SPECIFICATION Spec
CONSTANTS
  p1 = p1
  p2 = p2
  a = a
  b = b
  Participant <- TwoPeople
  Optional = {}
  Option <- TwoOptions
  DraftTerms <- PrefersA
  Answer <- AnyOption
  MaxContext = 1
  MaxProposal = 1
SYMMETRY People
INVARIANT OwnersKeepTheirView
CHECK_DEADLOCK FALSE
