SPECIFICATION Spec
CONSTANTS
  p1 = p1
  p2 = p2
  a = a
  b = b
  Participant <- TwoPeople
  Optional = {}
  Option <- TwoOptions
  DraftTerms <- PrefersA
  Answer <- AnyOption
  MaxContext = 2
  MaxProposal = 2
SYMMETRY People
ACTION_CONSTRAINT OneOfBoth
INVARIANTS
  OnlyADraftHidesAView
  ProposalRestsOnCompleteInput
  AgreementIsUnanimous
  ProposalHonoursConditions
  RefusalIsRespected
  PermissionHasConsent
PROPERTIES
  ImplementsAgreement
CHECK_DEADLOCK FALSE
