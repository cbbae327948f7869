SPECIFICATION Spec
CONSTANTS
  a = a
  b = b
  c = c
  d1 = d1
  d2 = d2
  x = x
  y = y
  w1 = w1
  w2 = w2
  None = None
  MeetingLength = 2
  Member <- Three
  Invited <- OnlyC
  DraftValues <- Menus
  Schedules <- TwoSchedules
  Policies <- Balance
  PriorLoad <- Loaded
  Worker <- Workers
  PermissionTtl = 1
  ProposalTtl = 1
  InvitationTtl = 1
  GrantLimit = 2
  HistoryLimit = 4
  PublishLimit = 1
  ReceiptLimit = 1
  MaxContext = 5
  MaxDrafts = 1
SYMMETRY Names
INVARIANTS
  StoredRoomCanBeRead
  ProposalFitsRoom
  OffersAreNeededAndSuffice
  RefusalEndsTheRound
CHECK_DEADLOCK FALSE
