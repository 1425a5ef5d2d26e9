SPECIFICATION Spec
CONSTANTS
  a1 = a1
  a2 = a2
  g1 = g1
  c1 = c1
  c2 = c2
  Accounts = {a1, a2}
  Ops = {"grant", "topup", "turn", "cron", "beat"}
  NoRow = NoRow
  NoOp = NoOp
  Nobody = Nobody
  NoScope = NoScope
  Clients = {c1, c2}
  Intent <- CapIntent
  Charges = {}
  DailyCap = 4
  RollingCap = 3
  DayLength = 1
  Window = 1
  MaxClock = 1
INVARIANTS
  CapsHold
  NoDeadlock
SYMMETRY Symmetry
