SPECIFICATION Spec
CONSTANTS
  c1 = c1
  r1 = r1
  Clone = {c1}
  RootOf <- RootOfOne
  NoRoot = "no root"
  Run = {r1}
  Home <- HomeOfOne
  Others <- RowsElsewhere
  Mixes <- RunsOrHooks
  Slot = {1, 2}
  MaxCommands = 3
  MaxClock = 2
INVARIANTS TypeOK ToldStands
PROPERTIES RunsStayReported OthersStand SyncJoins
CHECK_DEADLOCK FALSE
