SPECIFICATION FairSpec
CONSTANTS
  m1 = m1
  m2 = m2
  m3 = m3
  Msgs = {m1, m2}
  Sync = {m2}
  Blank = {}
  Context <- OneContext
  Mode = "followup"
  LateCancel = TRUE
  Panics = TRUE
  Remote = {m2}
  Nobody = Nobody
INVARIANTS TypeOK PermitExclusion AnnouncedIsUnclaimed
PROPERTIES AbortFinishes DrainEnds
