SPECIFICATION ChattedRuntimesSpec
CONSTANTS
  h1 = h1
  h2 = h2
  m1 = m1
  m2 = m2
  j1 = j1
  j2 = j2
  l1 = l1
  NoHolder = NoHolder
  MaxAttempts = 2
  Builders = {m1}
  Requesters = {j1}
  Schedulers = {}
  ChatBuilders = {l1}
  HostOf <- MCHostOf
  MaxRevision = 1
  MaxRuntimeFaults = 0
INVARIANTS
  RuntimeIsCurrent
CHECK_DEADLOCK FALSE
