SPECIFICATION FairSpec
CONSTANTS
  MaxLaunches = 2
  MaxCmds = 1
  AppMay = {}
PROPERTIES
  StartConnects
CHECK_DEADLOCK FALSE
