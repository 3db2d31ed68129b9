CONSTANTS
  s1 = s1
  s2 = s2
  Fresh = Fresh
  Absent = Absent
  Torn = Torn
  Canonical = Canonical
  Tmp = Tmp
  Bak = Bak
  Previous = Previous
  Legacy = Legacy
  Paths = {Canonical, Tmp, Bak, Previous, Legacy}
  Docs = {Fresh, s1, s2}
  MaxFaults = 4
  CardFails = TRUE
SPECIFICATION Spec
INVARIANTS
  StatsSurvive
  ResetOutcome
  RecoverableSave
