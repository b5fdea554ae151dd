SPECIFICATION Spec
CONSTANTS
  hb = hb
  j1 = j1
  None = None
  Absent = Absent
  Jobs = {j1}
  Heartbeat = hb
  Wakers = {j1}
  Schedules <- Expressions
  Deletes = {TRUE, FALSE}
  Slots = {1}
  MaxTime = 3
  Poll = 2
  Stuck = 1
  Cooldown = 0
  ForceRuns = TRUE
  Rejections = TRUE
  LateFinish = TRUE
INVARIANTS TypeOK StoreFollowsList
