SPECIFICATION FairSpec
CONSTANTS
  MaxLaunches = 3
  MaxCmds = 3
  AppMay = {}
INVARIANTS
  TypeOK
  CallbacksOwnOnce
  SentInOrder
  ReadyMeansOpened
  NoOrphan
  StopEndsAll
PROPERTIES
  RefinesChannel
  LaunchEnds
  OwnConnects
  CommandAnswered
CHECK_DEADLOCK FALSE
