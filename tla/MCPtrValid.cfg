CONSTANTS
  PageSize = 2
  Limit = 6
  MaxSize = 3
  Alignments <- OneAndTwo
  SpawnMayFail = TRUE
SPECIFICATION Spec
INVARIANTS
  AnswersExact
  ChildrenReaped
PROPERTIES
  QuestionsAnswered
