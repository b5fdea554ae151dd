SPECIFICATION Spec
CONSTANTS
  Turns = {t1, t2}
  MaxTools = 1
  Mode = "recency"
  ProtectHead = 1
  ProtectTailMin = 2
  Disruptions = {"compact", "voice", "clear", "append", "write", "drop", "abort", "crash"}
  MaxDisruptions = 2
SYMMETRY Perms
INVARIANTS TypeOK DanglingHasCause CompactionRepairsPairs
PROPERTIES LossHasCause IndexIsRight
CHECK_DEADLOCK FALSE
