\* Two calls of run() of one worker behind one permit, with failures, a crash and the reaper.
SPECIFICATION Spec
CONSTANTS
  r1 = r1
  r2 = r2
  w1 = w1
  w2 = w2
  nobody = nobody
  Nobody = nobody
  Runs = {r1, r2}
  Workers = {w1}
  Home <- MCTogether
  Concurrency = 1
  MaxFaults = 2
INVARIANTS
  Capped
  NoneLeft
  VerdictKept
PROPERTIES
  AllEnd
CHECK_DEADLOCK FALSE
