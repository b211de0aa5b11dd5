SPECIFICATION Spec
CONSTANTS
  Path = {"code", "text"}
  Content <- ContentOf
  Plain <- Spaceless
  HighRisk = {"code"}
  Documents = {"text"}
  Modes = {"peer_review", "owner_review"}
  Owner = "author"
  b1 = b1
  b2 = b2
  Start <- AllA
  MaxCommits = 5
  MaxReviews = 2
  MaxSize = 6
SYMMETRY Whitespace
INVARIANTS LandedIsValidated UntestedIsDocumentation ApprovedLands
CHECK_DEADLOCK FALSE
