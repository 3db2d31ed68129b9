CONSTANTS
  Name = Name
  Copy = Copy
  Part = Part
  Backup = Backup
  Paths = {Name, Copy, Part, Backup}
  Old = Old
  Absent = Absent
  Torn = Torn
  Docs = {Old, 1}
  MaxSessions = 1
  MaxChunks = 1
  MaxRetries = 1
  MaxApprovals = 1
  Capacity = 2
  MaxFaults = 1
  CardFails = TRUE
SPECIFICATION FairSpec
PROPERTY
  SendingEnds
