SPECIFICATION Spec
CONSTANTS
  p1 = p1
  p2 = p2
  Participant <- People
  QuestionLimit = 2
  PermissionLimit = 2
  RetiredLimit = 2
  HistoryLimit = 3
  OrdinaryLimit = 4
  SafetyLimit = 5
  ArchiveLimit = 1
SYMMETRY Names
INVARIANTS
  AnswersCanBeEdited
CHECK_DEADLOCK FALSE
