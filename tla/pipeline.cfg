\* One investigation, three attempts at most, the real limit.
SPECIFICATION Spec
CONSTANTS
  l1 = l1
  l2 = l2
  l3 = l3
  l4 = l4
  new = new
  bad = bad
  def = def
  def2 = def2
  None = None
  Repo <- MCRepo
  Bundles <- MCBundles
  Causes <- MCCauses
  Patches <- MCPatches
  Answers <- MCAnswers
  Reviews <- MCReviews
  Forbidden = {"lock"}
  Manifests = {"g"}
  Defs = {def, def2}
  TestDefs = {def, def2}
  Broken = {bad}
  MaxChangedLines = 2
  MaxHunks = 2
  MaxAttempts = 3
INVARIANTS
  EvidenceHolds
  PatchInScope
  AppliedAlike
  AttemptsKept
  Published
CHECK_DEADLOCK FALSE
