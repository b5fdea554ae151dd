SPECIFICATION Spec
CONSTANTS
  m1 = m1
  m2 = m2
  m3 = m3
  Msgs = {m1, m2, m3}
  Sync = {}
  Blank = {}
  Context <- OneContext
  Mode = "followup"
  LateCancel = FALSE
  Panics = FALSE
  Remote = {}
  Nobody = Nobody
INVARIANTS NothingStranded
