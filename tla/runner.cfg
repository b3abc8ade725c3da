\* One input each: every manifest, outcome of the tests and finding around a good patch.
SPECIFICATION Spec
CONSTANTS
  p = p
  q = q
  t1 = t1
  t2 = t2
  malformed = malformed
  none = none
  Packages = {p, q}
  Cached = {p}
  Tests = {t1, t2}
  Findings <- MCFindings
  Bundles <- MCBundles
  Malformed = malformed
  None = none
  MaxLost = 2
INVARIANTS
  RegressionProven
  SignalsHonest
  DeltasHonest
PROPERTIES
  AlwaysAnswers
CHECK_DEADLOCK FALSE
