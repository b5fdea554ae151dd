SPECIFICATION FairSpec
CONSTANTS
  c1 = c1
  c2 = c2
  c3 = c3
  ui = ui
  chat = chat
  room = room
  NoSession = NoSession
  NoCall = NoCall
  Calls = {c1, c2, c3}
  Kind <- MCKind
  Command <- MCCommand
  Session <- MCSession
  Setups <- MCSetups
  Clients = {ui}
  Channels = {chat}
  ChannelSession <- MCChannelSession
  MaxDecisions = 2
INVARIANTS TypeOK RunHasGround WaitIsReachable RememberedWhenRun
PROPERTIES NumberNamesRequest AsksEnd
CHECK_DEADLOCK FALSE
