SPECIFICATION ChatSpec
CONSTANTS
  a1 = a1
  f1 = f1
  t1 = t1
  t2 = t2
  Accounts = {a1}
  Ops = {f1, t1, t2}
  NoRow = NoRow
  NoOp = NoOp
  Turns = {t1, t2}
  Payer <- MCPayer
  Max <- MCMax
  Amounts = {2, 4}
  MaxFaults = 2
  LostAcks = TRUE
INVARIANTS
  DeliveredIsPaid
  UndisturbedTurnIsExact
SYMMETRY Symmetry
CHECK_DEADLOCK FALSE
