SPECIFICATION Spec
CONSTANTS
  work = work  fix = fix  fix2 = fix2  doc = doc  human = human  upstream = upstream
  Patch = {work, fix, fix2, doc, human, upstream}
  EmptyPatch = {}
  DocPatch = {doc}
  Upstream <- NoUpstream
  DocsEnabled = TRUE
  CommandFor = {"medium"}
  PathRisk <- SensitiveFix
  InPlace = TRUE
  Executor = "in_harness"
  Work <- OneBranch
  AgentPatch = {fix}
  HumanPatch = {}
  Kinds <- BlocksOrNotes
  MaxFindings = 1
  MaxAttempts = 2
  MaxRestarts = 3
  MaxTokens = 1
  MaxMoves = 2
  MaxFaults = 1
INVARIANTS TypeOK RecordConsistent CoverageIsTheReview StopsAtLimit AttemptsBounded 
PROPERTIES AttemptsSurvive
CHECK_DEADLOCK FALSE
