CONSTANTS
  c1 = c1
  c2 = c2
  NoClaim = NoClaim
  Claims <- TwoClaims
  MaxAttempts = 1
  MaxTaps = 2
  MaxDeposits = 1
  MaxCrashes = 1
SPECIFICATION Spec
CHECK_DEADLOCK FALSE
INVARIANTS
  TypeOK
  OneAtTheMint
  NoteIsKept
  CreditHasGrounds
PROPERTIES
  MarksStand
SYMMETRY Symmetry
