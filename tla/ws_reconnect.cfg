SPECIFICATION FairSpec
CONSTANTS
  Works = {}
  MaxConnects = 2
  MaxMessages = 0
PROPERTIES
  RetryEnds
CHECK_DEADLOCK FALSE
