CONSTANTS
  left = left
  right = right
  third = third
  NoTab = NoTab
  Tabs <- ThreeTabs
  TTL = 3
  Heartbeat = 1
  Settle = 1
  Gap = 1
  Delay = 0
  MaxTakeovers = 2
  MaxSweeps = 1
  MaxCrashes = 1
SPECIFICATION FairSpec
INVARIANTS
  TypeOK
  OneRuntime
  RightedInTime
PROPERTIES
  SomebodyServes
