\* The spend of two days of a month, through calls that are repaired, refused or broken off.
SPECIFICATION Spec
CONSTANTS
  w1 = w1
  w2 = w2
  p1 = p1
  p2 = p2
  d1 = d1
  d2 = d2
  month = month
  noText = noText
  Workers = {w1, w2}
  Days = {d1, d2}
  Month = month
  Estimate = 2
  DailyCap = 3
  MonthlyCap = 4
  Ceiling = 3
  Costs = {1, 3}
  MaxFaults = 1
  Prompts = {p1}
  Deterministic = {}
  Flagged = {}
  Texts <- MCValid
  NoText = noText
  Route <- MCShortRoute
  Providers = {"anthropic"}
  MaxTries = 2
  Triggers = {"timeout"}
  FailoverOn = {"timeout"}
  MaxRequests = 3
INVARIANTS
  Exact
  Overshoot
PROPERTIES
  WithinBudgets
  Completes
CHECK_DEADLOCK FALSE
