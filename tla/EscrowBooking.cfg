CONSTANTS
  ann = ann
  sam = sam
  bea = bea
  ivy = ivy
  jon = jon
  kim = kim
  zed = zed
  cart = cart
  crate = crate
  NoOne = NoOne
  NoOrder = NoOrder
  Users <- BookingUsers
  Pool <- BookingPool
  Bonded <- OneBonded
  PickHash = 1
  Listings <- BookingListings
  Orders <- TwoOrders
  Times <- BookingTimes
  Graces <- DisputeGraces
  TradeTimeout = 4
  HoldSeconds = 2
  LockGrace = 1
  GraceMax = 2
  LockSkew = 2
SPECIFICATION FairSpec
CONSTRAINT Unvoted
CHECK_DEADLOCK FALSE
INVARIANTS
  RefundReturnsToLocker
  LockedOrderIsTheBuyers
PROPERTIES
  ThresholdIsSettled
