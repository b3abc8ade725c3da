SPECIFICATION Spec
CONSTANTS
  None = None
  MAPPINGS <- MCMappings
  PREFIXES <- MCPrefixes
  BYTYPE <- MCByType
  BYSUBSTRING <- MCBySubstring
  MAXPLANITEMS = 4
  MAXHYPOTHESES = 2
  AT <- MCAt
  HEAD <- MCHead
  PATHS <- MCPaths
  TESTNAMES <- MCTestNames
  NOISE <- MCNoise
  MARGIN = 1
  WHOLE = 6
  BUDGET = 22
  MINFILES = 1
  MINTOKENS = 1
  EVENTS <- MCEvents
  REPLIES <- MCReplies
  COMMITS <- MCCommits
  BLAME <- MCBlame
  DIFF = None
  MAXCALLERS = 3
  MAXCOMMITS = 2
INVARIANTS
  BudgetKept
  ReplyNeverPoorer
  RealEvidence
  FailurePointKept
CHECK_DEADLOCK FALSE
