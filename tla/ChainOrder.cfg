CONSTANTS
  Casts <- SmallCasts
  Dates <- ThreeDates
SPECIFICATION Spec
INVARIANTS
  DatedUnlessCaused
  RequestSeesItsPast
PROPERTIES
  ArrivalOnlyDelays
CHECK_DEADLOCK FALSE
