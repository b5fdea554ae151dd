SPECIFICATION FairSpec
CONSTANTS
  hb = hb
  j1 = j1
  None = None
  Absent = Absent
  Jobs = {j1}
  Heartbeat = j1
  Wakers = {j1}
  Schedules <- Mixed
  Deletes = {FALSE}
  Slots = {1, 2}
  MaxTime = 4
  Poll = 3
  Stuck = 1
  Cooldown = 1
  ForceRuns = FALSE
  Rejections = FALSE
  LateFinish = FALSE
INVARIANTS NoDuplicateRuns
PROPERTIES DueStarts WakesInTime
