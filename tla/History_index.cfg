SPECIFICATION Spec
CONSTANTS
  Turns = {t1, t2}
  MaxTools = 1
  Mode = "replace"
  ProtectHead = 1
  ProtectTailMin = 2
  Disruptions = {}
  MaxDisruptions = 0
SYMMETRY Perms
PROPERTY AnswerAtIndex
CHECK_DEADLOCK FALSE
