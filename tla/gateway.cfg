\* Two calls of complete() at once, over the cache, the breaker and the ladder.
SPECIFICATION Spec
CONSTANTS
  w1 = w1
  w2 = w2
  p1 = p1
  p2 = p2
  d1 = d1
  d2 = d2
  month = month
  noText = noText
  Workers = {w1, w2}
  Days = {d1}
  Month = month
  Estimate = 2
  DailyCap = 4
  MonthlyCap = 4
  Ceiling = 3
  Costs = {3}
  MaxFaults = 1
  Prompts = {p1}
  Deterministic = {p1}
  Flagged = {p1}
  Texts <- MCTexts
  NoText = noText
  Route <- MCRoute
  Providers = {"anthropic"}
  MaxTries = 2
  Triggers = {"timeout", "other"}
  FailoverOn = {"timeout"}
  MaxRequests = 2
SYMMETRY Symmetry
INVARIANTS
  AcceptedOnly
  EveryCallRecorded
  NotOvercharged
CHECK_DEADLOCK FALSE
