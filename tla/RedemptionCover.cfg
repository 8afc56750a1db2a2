CONSTANTS
  c1 = c1
  c2 = c2
  NoClaim = NoClaim
  Claims <- TwoClaims
  MaxAttempts = 1
  MaxTaps = 1
  MaxDeposits = 1
  MaxCrashes = 0
SPECIFICATION Spec
CHECK_DEADLOCK FALSE
INVARIANT CoverKeepsTheStash
