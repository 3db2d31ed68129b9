CONSTANTS
  h1 = h1
  h2 = h2
  p1 = p1
  p2 = p2
  p3 = p3
  r1 = r1
  o1 = o1
  u1 = u1
  NoActivity = NoActivity
  Activities = {h1, h2, p1, u1}
  Homes = {h1, h2}
  Readers = {}
  Overlays = {}
  Exclusives = {u1}
  MaxStack = 1
  MaxOps = 1
  FrontlightDrawer = FALSE
  Handoffs = FALSE
SPECIFICATION Spec
PROPERTIES
  DetachAfterPaint
