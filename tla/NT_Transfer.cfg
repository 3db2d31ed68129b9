CONSTANTS
  Name = Name
  Copy = Copy
  Part = Part
  Backup = Backup
  Paths = {Name, Copy, Part, Backup}
  Old = Old
  Absent = Absent
  Torn = Torn
  Docs = {Old, 1, 2}
  MaxSessions = 2
  MaxChunks = 2
  MaxRetries = 1
  MaxApprovals = 1
  Capacity = 2
  MaxFaults = 1
  CardFails = TRUE
SPECIFICATION FairSpec
INVARIANTS
  TypeOK
  NothingPartial
  FileIsKept
  InStep
PROPERTIES
  ImplementsDelivery
  WaitsEnd
