SPECIFICATION FairSpec
CONSTANTS
  h1 = h1
  r1 = r1
  r2 = r2
  r3 = r3
  k = k
  NoKey = NoKey
  None = None
  Hooks = {h1}
  Reqs = {r1, r2, r3}
  Hook <- MCHook
  Key <- MCKey
  Capacity = 1
  MaxCrashes = 1
  MaxErrors = 1
INVARIANTS TypeOK OneDeliveryPerEvent NoDeliveryForgotten ExecutedOncePerLife
PROPERTIES AcceptedEnds
CHECK_DEADLOCK FALSE
