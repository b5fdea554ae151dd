SPECIFICATION Spec
CONSTANTS
  m1 = m1
  m2 = m2
  m3 = m3
  Msgs = {m1, m2, m3}
  Sync = {}
  Blank = {m1}
  Context <- TwoContexts
  Mode = "collect"
  LateCancel = FALSE
  Panics = FALSE
  Remote = {m2}
  Nobody = Nobody
INVARIANTS ExactlyOnce OneContextPerTurn HistoryAlternates
PROPERTIES EndsHandOver WorksSerially
