\* A gzipped batch as the API reads it.
SPECIFICATION Spec
CONSTANTS
  h1 = h1
  h2 = h2
  k1 = k1
  k2 = k2
  Handlers = {h1, h2}
  NoHandler = NoHandler
  Keys = {k1, k2}
  NoKey = NoKey
  BatchEvents = 1
  RequestLimit = 2
  EventLimit = 1
  MaxWindow = 1
  MaxFaults = 0
  MaxAttempts = 2
  MaxOthers = 1
  Inflates = FALSE
  Contents = {"good"}
INVARIANTS
  GzipAccepted
CHECK_DEADLOCK FALSE
