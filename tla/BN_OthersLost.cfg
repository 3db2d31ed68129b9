CONSTANTS
  NameA = NameA
  NameB = NameB
  None = None
  Absent = Absent
  Torn = Torn
  Paths <- AllPaths
  Docs <- AllDocs
  MaxFaults = 1
  CardFails = TRUE
SPECIFICATION Spec
INVARIANT
  BothCanBeRestored
