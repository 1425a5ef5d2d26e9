SPECIFICATION TaskSpec
CONSTANTS
  a1 = a1
  f1 = f1
  s1 = s1
  s2 = s2
  m1 = m1
  p1 = p1
  p2 = p2
  Accounts = {a1}
  Ops = {f1, s1, s2, m1}
  NoRow = NoRow
  NoOp = NoOp
  Turns = {s1, s2, m1}
  Payer <- MCPayer
  Max <- MCMax
  Amounts = {1}
  Workers = {p1, p2}
  NoOne = NoOne
  DueAt <- MCDueAt
  Funds = 2
  Purchase = f1
  MaxFailures = 1
  MaxEdits = 1
  GatewayFails = TRUE
  MaxFaults = 2
  LostAcks = TRUE
INVARIANTS
  OutcomesArePaid
PROPERTIES
  NothingTwice
CONSTRAINT TwoDisturbances
SYMMETRY Symmetry
CHECK_DEADLOCK FALSE
