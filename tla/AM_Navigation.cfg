CONSTANTS
  h1 = h1
  h2 = h2
  p1 = p1
  p2 = p2
  p3 = p3
  r1 = r1
  o1 = o1
  u1 = u1
  NoActivity = NoActivity
  Activities = {h1, h2, r1, o1, p1, u1}
  Homes = {h1, h2}
  Readers = {r1}
  Overlays = {o1}
  Exclusives = {u1}
  MaxStack = 2
  MaxOps = 0
  FrontlightDrawer = TRUE
  Handoffs = TRUE
SPECIFICATION Spec
INVARIANTS
  SingleOwner
  LifecyclePaired
  PendingIsServable
  BackdropRepainted
  OverlayOverSource
  ExclusiveOwnerStays
SYMMETRY KindSymmetry
