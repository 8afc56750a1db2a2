SPECIFICATION FairSpec
CHECK_DEADLOCK FALSE
CONSTANTS
  MaxOps = 3
  MaxCrashes = 2
  Worlds <- AllWorlds
INVARIANTS
  TypeOK
  NeverPaidTwice
  PublishedMeansPaid
  ReservedUntilPaid
PROPERTIES
  NoOnchainAfterLightning
  RefusalIsResolved
