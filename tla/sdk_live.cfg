\* One application thread that captures, flushes, closes and forks.
SPECIFICATION FairSpec
CONSTANTS
  t1 = t1
  t2 = t2
  s1 = s1
  s2 = s2
  HostThreads = {t1}
  Senders = {s1, s2}
  NoThread = NoThread
  Capacity = 2
  BatchSize = 2
  MaxAttempts = 2
  MaxEvents = 3
  MaxCloses = 1
  MaxOutages = 1
  MaxForks = 1
  SlowJoins = FALSE
PROPERTIES
  KeptInOrder
  ImplementsPipe
  Progress
