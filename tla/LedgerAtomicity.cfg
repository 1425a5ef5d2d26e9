SPECIFICATION Spec
CONSTANTS
  a1 = a1
  a2 = a2
  g1 = g1
  c1 = c1
  c2 = c2
  Accounts = {a1}
  Ops = {"grant", "topup", "turn", "cron"}
  NoRow = NoRow
  NoOp = NoOp
  Nobody = Nobody
  NoScope = NoScope
  Clients = {c1, c2}
  Intent <- MCIntent
  Charges = {1}
  DailyCap = 9
  RollingCap = 9
  DayLength = 2
  Window = 1
  MaxClock = 0
PROPERTIES
  ImplementsLedger
