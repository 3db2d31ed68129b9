CONSTANTS
  l1 = l1
  l2 = l2
  EmptyList = EmptyList
  Absent = Absent
  Torn = Torn
  Nothing = Nothing
  Path = Path
  Tmp = Tmp
  Bak = Bak
  Bin = Bin
  BinBak = BinBak
  Paths = {Path, Tmp, Bak, Bin, BinBak}
  Docs = {EmptyList, l1, l2}
  LegacyList = l1
  MaxFaults = 4
  CardFails = TRUE
SPECIFICATION Spec
INVARIANTS
  MemoryMatchesCard
  MoveKeepsAgreement
PROPERTY
  Durable
