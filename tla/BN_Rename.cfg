CONSTANTS
  NameA = NameA
  NameB = NameB
  None = None
  Absent = Absent
  Torn = Torn
  Paths <- AllPaths
  Docs <- AllDocs
  MaxFaults = 3
  CardFails = TRUE
SPECIFICATION Spec
INVARIANTS
  TypeOK
  MetadataFollowsBook
  ResultTellsPlace
  OneFailureIsUndone
