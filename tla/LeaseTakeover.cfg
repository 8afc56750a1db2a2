CONSTANTS
  left = left
  right = right
  third = third
  NoTab = NoTab
  Tabs <- TwoTabs
  TTL = 3
  Heartbeat = 1
  Settle = 1
  Gap = 1
  Delay = 0
  MaxTakeovers = 1
  MaxSweeps = 0
  MaxCrashes = 1
SPECIFICATION Spec
INVARIANTS
  TakeoverLeavesOne
