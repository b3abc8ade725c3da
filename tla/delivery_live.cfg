\* What must eventually happen to claims and to revoked keys.
SPECIFICATION FairSpec
CONSTANTS
  h1 = h1
  h2 = h2
  k1 = k1
  k2 = k2
  Handlers = {h1, h2}
  NoHandler = NoHandler
  Keys = {k1}
  NoKey = NoKey
  BatchEvents = 1
  RequestLimit = 3
  EventLimit = 2
  MaxWindow = 0
  MaxFaults = 1
  MaxAttempts = 2
  MaxOthers = 0
  Inflates = TRUE
  Contents = {"good", "invalid", "poison"}
PROPERTIES
  LivesEnd
CHECK_DEADLOCK FALSE
