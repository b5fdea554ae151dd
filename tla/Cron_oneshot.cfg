SPECIFICATION Spec
CONSTANTS
  hb = hb
  j1 = j1
  None = None
  Absent = Absent
  Jobs = {j1}
  Heartbeat = hb
  Wakers = {}
  Schedules <- OneShots
  Deletes = {FALSE}
  Slots = {1}
  MaxTime = 3
  Poll = 2
  Stuck = 1
  Cooldown = 0
  ForceRuns = FALSE
  Rejections = FALSE
  LateFinish = FALSE
PROPERTIES OneShotStaysScheduled
