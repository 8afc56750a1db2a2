SPECIFICATION Spec
CHECK_DEADLOCK FALSE
CONSTANTS
  MaxOps = 3
  MaxCrashes = 0
  Worlds <- Overlapping
INVARIANTS
  OnePayoutWhateverHappens
