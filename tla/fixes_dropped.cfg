SPECIFICATION Spec
CONSTANTS
  work = work  fix = fix  fix2 = fix2  doc = doc  human = human  upstream = upstream
  Patch = {work, fix, fix2, doc, human, upstream}
  EmptyPatch = {}
  DocPatch = {doc}
  Upstream <- Ahead
  DocsEnabled = TRUE
  CommandFor = {}
  PathRisk <- LowPaths
  InPlace = FALSE
  Executor = "in_harness"
  Work <- OneBranch
  AgentPatch = {fix}
  HumanPatch = {}
  Kinds <- Blocks
  MaxFindings = 1
  MaxAttempts = 2
  MaxRestarts = 2
  MaxTokens = 1
  MaxMoves = 1
  MaxFaults = 0
PROPERTIES FixesKept
CHECK_DEADLOCK FALSE
