CONSTANTS
  ann = ann
  sam = sam
  bea = bea
  ivy = ivy
  jon = jon
  kim = kim
  zed = zed
  cart = cart
  crate = crate
  NoOne = NoOne
  NoOrder = NoOrder
  Users <- DisputeUsers
  Pool <- DisputePool
  Bonded <- NoBonded
  PickHash = 1
  Listings <- DisputeListings
  Orders <- NoOrders
  Times <- DisputeTimes
  Graces <- DisputeGraces
  TradeTimeout = 4
  HoldSeconds = 2
  LockGrace = 1
  GraceMax = 2
  LockSkew = 1
SPECIFICATION Spec
CONSTRAINT SeatsStand
CHECK_DEADLOCK FALSE
INVARIANTS
  TypeOK
  ResolvedByTwo
  MajorityHoldsVerdict
  ArbiterSlotIsBest
  BackupReleaseOnMerit
  HelpBeforeDeadline
PROPERTIES
  KeepsPromise
