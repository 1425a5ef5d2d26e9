SPECIFICATION Spec
CONSTANTS
  a1 = a1
  f1 = f1
  f2 = f2
  t1 = t1
  t2 = t2
  Accounts = {a1}
  Ops = {f1, f2, t1, t2}
  NoRow = NoRow
  NoOp = NoOp
  Turns = {t1, t2}
  Payer <- MCPayer
  Max <- MCMax
  Amounts = {1, 3}
INVARIANTS
  MoneyMatchesState
  SettledUsageExact
  OutputIsPaid
PROPERTIES
  TerminalIsFinal
  ImplementsLedger
SYMMETRY Symmetry
CHECK_DEADLOCK FALSE
