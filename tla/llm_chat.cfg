SPECIFICATION FairSpec
CONSTANTS
  Works = {c1, c2}
  MaxUrl = 3
  AppMay = {}
INVARIANTS
  AnsweredOnceTruly
  ParseRoundTrip
PROPERTIES
  NothingAfterDelete
  ChatAnswered
CHECK_DEADLOCK FALSE
