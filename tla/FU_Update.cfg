CONSTANTS
  Good = {g1, g2}
  Bad = {b}
  Torn = Torn
  MaxInstalls = 4
  MaxFaults = 3
SPECIFICATION Spec
INVARIANTS
  NeverBricked
  ResultTellsBoot
PROPERTIES
  ImplementsBootImage
