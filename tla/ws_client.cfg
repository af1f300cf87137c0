SPECIFICATION FairSpec
CONSTANTS
  Works = {}
  MaxConnects = 3
  MaxMessages = 3
INVARIANTS
  TypeOK
  OpenMeansConnected
  StoppedIsQuiet
  ErrorIsFinal
PROPERTIES
  HandshakeResolves
CHECK_DEADLOCK FALSE
