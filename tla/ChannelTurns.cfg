SPECIFICATION ChannelSpec
CONSTANTS
  a1 = a1
  f1 = f1
  t1 = t1
  h1 = h1
  h2 = h2
  Accounts = {a1}
  Ops = {f1, t1}
  NoRow = NoRow
  NoOp = NoOp
  Turns = {t1}
  Payer <- MCPayer
  Max <- MCMax
  Amounts = {1, 2, 4}
  Handlers = {h1, h2}
  Sweeper = Sweeper
  MaxFaults = 3
  LostAcks = TRUE
INVARIANTS
  ChargedIfDelivered
PROPERTIES
  FinishedIsFinal
  EveryChannelTurnEnds
CHECK_DEADLOCK FALSE
