SPECIFICATION Spec
CONSTANTS
  MaxDate = 2
  MaxItems = 3
  MaxBatch = 2
  MaxTexts = 2
INVARIANTS
  RoundTrip
  NeverSilentlyLost
  DatesListed
CHECK_DEADLOCK FALSE
