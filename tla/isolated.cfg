SPECIFICATION Spec
CONSTANTS
  work = work  fix = fix  fix2 = fix2  doc = doc  human = human  upstream = upstream
  Patch = {work, fix, fix2, doc, human, upstream}
  EmptyPatch = {}
  DocPatch = {doc}
  Upstream <- Ahead
  DocsEnabled = TRUE
  CommandFor = {}
  PathRisk <- LowPaths
  InPlace = FALSE
  Executor = "in_harness"
  Work <- OneBranch
  AgentPatch = {fix}
  HumanPatch = {human}
  Kinds <- BlocksOrFixes
  MaxFindings = 1
  MaxAttempts = 1
  MaxRestarts = 2
  MaxTokens = 1
  MaxMoves = 2
  MaxFaults = 1
INVARIANTS NothingBlocksPast AttestedIsResolved AttestedIsValidated VerifiedIsAttested PublishedStands
PROPERTIES KeepsPromise
CHECK_DEADLOCK FALSE
