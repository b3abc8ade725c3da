SPECIFICATION Spec
CONSTANTS
  Workers = {w1, w2}
  DATA <- MCData
  RULES <- MCRules
  CRITICALITY <- MCCriticality
  MINIMUM = 1
  INVESTIGATED = {"production"}
  TOPFRAMES = 5
  QUOTA = 1
INVARIANTS
  RowsTrue
  OneRunPerBug
  QuotaOverrun
PROPERTIES
  RegressionSticks
CHECK_DEADLOCK FALSE
SYMMETRY Symmetric
