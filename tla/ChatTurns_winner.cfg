SPECIFICATION Spec
CONSTANTS
  m1 = m1
  m2 = m2
  m3 = m3
  Msgs = {m1, m2}
  Sync = {}
  Blank = {}
  Context <- OneContext
  Mode = "followup"
  LateCancel = TRUE
  Panics = FALSE
  Remote = {}
  Nobody = Nobody
INVARIANTS SingleWinner
