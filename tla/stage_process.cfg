SPECIFICATION Spec
CONSTANTS
  s = s
  t = t
  Original = s
  Values = {s, t}
  Chars = {"letter", "blank", "single", "double", "backslash", "operator", "expansion", "equals", "newline"}
  MaxLength = 4
  Commands <- ShortCommands
INVARIANTS TypeOK DirectIsTheSame SecretsStayOut PassedIsWhole GroupIsGone
PROPERTY CommandEnds
CHECK_DEADLOCK FALSE
