SPECIFICATION Spec
CONSTANTS
  a1 = a1
  a2 = a2
  o1 = o1
  o2 = o2
  o3 = o3
  o4 = o4
  Accounts = {a1, a2}
  Ops = {o1, o2, o3, o4}
  Amounts = {1, 2, 3}
  NoRow = NoRow
  NoOp = NoOp
SYMMETRY Symmetry
CHECK_DEADLOCK FALSE
INVARIANTS
  TypeOK
  NeverOverRefunded
  ReversalRetriable
  SplitExact
