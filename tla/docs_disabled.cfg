SPECIFICATION Spec
CONSTANTS
  work = work  fix = fix  fix2 = fix2  doc = doc  human = human  upstream = upstream
  Patch = {work, fix, fix2, doc, human, upstream}
  EmptyPatch = {}
  DocPatch = {doc}
  Upstream <- NoUpstream
  DocsEnabled = FALSE
  CommandFor = {}
  PathRisk <- LowPaths
  InPlace = TRUE
  Executor = "in_harness"
  Work <- EitherBranch
  AgentPatch = {fix, doc}
  HumanPatch = {}
  Kinds <- Blocks
  MaxFindings = 1
  MaxAttempts = 2
  MaxRestarts = 5
  MaxTokens = 1
  MaxMoves = 2
  MaxFaults = 0
INVARIANTS AttestedIsValidated
CHECK_DEADLOCK FALSE
