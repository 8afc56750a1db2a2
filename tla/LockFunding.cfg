CONSTANTS
  rival = rival
  Cancel = Cancel
  Rivals <- OneRival
  MaxSpends = 2
  MaxOthers = 1
  MaxAttempts = 1
  MaxCrashes = 1
SPECIFICATION Spec
INVARIANTS
  TypeOK
  NoHollowLock
  NotesAccounted
  OutboxHoldsUnsent
PROPERTIES
  DeadMeansHome
CHECK_DEADLOCK FALSE
