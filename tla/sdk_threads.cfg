\* Two application threads, two senders, a close() whose join may time out.
SPECIFICATION Spec
CONSTANTS
  t1 = t1
  t2 = t2
  s1 = s1
  s2 = s2
  HostThreads = {t1, t2}
  Senders = {s1, s2}
  NoThread = NoThread
  Capacity = 1
  BatchSize = 1
  MaxAttempts = 1
  MaxEvents = 2
  MaxCloses = 1
  MaxOutages = 1
  MaxForks = 0
  SlowJoins = TRUE
SYMMETRY Symmetry
INVARIANTS
  TypeOK
  Accounted
  SingleSenderWhileOpen
PROPERTIES
  FlushMissesOnlyUnmarked
