CONSTANTS
  MaxOpen = 2
  MaxLookups = 4
SPECIFICATION FairSpec
INVARIANTS
  TypeOK
  NotUsedByBoth
  WaitIsServed
  AnswerIsCurrent
  SuggestionIsMarked
PROPERTIES
  WaitsEnd
