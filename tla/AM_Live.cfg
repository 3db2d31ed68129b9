CONSTANTS
  h1 = h1
  h2 = h2
  p1 = p1
  p2 = p2
  p3 = p3
  r1 = r1
  o1 = o1
  u1 = u1
  NoActivity = NoActivity
  Activities = {h1, p1}
  Homes = {h1}
  Readers = {}
  Overlays = {}
  Exclusives = {}
  MaxStack = 1
  MaxOps = 2
  FrontlightDrawer = FALSE
  Handoffs = FALSE
SPECIFICATION FairSpec
INVARIANTS
  TypeOK
  RenderSafe
  NoLostWakeup
  SyncRenderFresh
PROPERTIES
  SyncReturns
  NotificationServed
