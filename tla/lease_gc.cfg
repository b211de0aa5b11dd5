SPECIFICATION Spec
CONSTANTS
  r1 = r1  r2 = r2  r3 = r3  main = main  linked = linked  p1 = p1  p2 = p2
  Run = {r1, r2}
  Tree = {main}
  Proc = {p1, p2}
  Runner = Runner
  None = None
  Commands = {"start", "gc"}
  MaxDeaths = 1
SYMMETRY AnyOne
INVARIANTS LiveOwnsTree
