CONSTANTS
  s1 = s1
  s2 = s2
  Fresh = Fresh
  Newer = Newer
  Absent = Absent
  Torn = Torn
  Main = Main
  Tmp = Tmp
  Bak = Bak
  Paths = {Main, Bak, Tmp}
  Docs = {Fresh, Newer, s1, s2}
  MaxFaults = 4
  CardFails = TRUE
SPECIFICATION Spec
INVARIANTS
  ReportsTruth
  RecoverableSave
PROPERTY
  NewerIsKept
