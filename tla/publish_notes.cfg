SPECIFICATION Spec
CONSTANTS
  a = a
  b = b
  r1 = r1
  r2 = r2
  r3 = r3
  x1 = x1
  x2 = x2
  main = main
  Heads <- SameOrNext
  Clone = {a, b}
  Commit = {x1, x2}
  NoCommit = NoCommit
  Run = {r1, r2, r3}
  Home <- HomeOfThree
  Branch = {main}
  IsAncestor <- InHistory
  MayForce = {b}
  MaxEvents = 1
INVARIANTS TypeOK NotesAreChained TipsAreAttested
PROPERTIES PublishesWhatItVerified NothingIsForgotten PushSettles
CHECK_DEADLOCK FALSE
