SPECIFICATION Spec
CONSTANTS
  hb = hb
  j1 = j1
  None = None
  Absent = Absent
  Jobs = {j1}
  Heartbeat = hb
  Wakers = {}
  Schedules <- Repeating
  Deletes = {FALSE}
  Slots = {1, 2}
  MaxTime = 3
  Poll = 2
  Stuck = 1
  Cooldown = 0
  ForceRuns = TRUE
  Rejections = FALSE
  LateFinish = FALSE
INVARIANTS NoDuplicateRuns
