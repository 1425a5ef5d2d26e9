SPECIFICATION FairServicesSpec
CONSTANTS
  a1 = a1
  f1 = f1
  t1 = t1
  t2 = t2
  r1 = r1
  r2 = r2
  n1 = n1
  n2 = n2
  s1 = s1
  s2 = s2
  c1 = c1
  y1 = y1
  e1 = e1
  e2 = e2
  e3 = e3
  i1 = i1
  i2 = i2
  k1 = k1
  v1 = v1
  v2 = v2
  v3 = v3
  b1 = b1
  b2 = b2
  u1 = u1
  u2 = u2
  w1 = w1
  q1 = q1
  d1 = d1
  l1 = l1
  o1 = o1
  g1 = g1
  g2 = g2
  g3 = g3
  x1 = x1
  x2 = x2
  x3 = x3
  x4 = x4
  x5 = x5
  z1 = z1
  z2 = z2
  z3 = z3
  h1 = h1
  h2 = h2
  m1 = m1
  m2 = m2
  j1 = j1
  j2 = j2
  p1 = p1
  p2 = p2
  q2 = q2
  q3 = q3
  g4 = g4
  g5 = g5
  o2 = o2
  c2 = c2
  c3 = c3
  c4 = c4
  c5 = c5
  c6 = c6
  c7 = c7
  c8 = c8
  c9 = c9
  c10 = c10
  a2 = a2
  t3 = t3
  t4 = t4
  t5 = t5
  b3 = b3
  b4 = b4
  o3 = o3
  o4 = o4
  g6 = g6
  Accounts = {a1}
  Ops = {f1, t1}
  NoRow = NoRow
  NoOp = NoOp
  Turns = {t1}
  Payer <- MCPayer
  Max <- MCMax
  Amounts = {1, 2, 4}
  MaxFaults = 2
  LostAcks = FALSE
  NoHolder = NoHolder
  MaxAttempts = 2
  UploadParts = {1}
  Completions = {r1}
  Replicas = {n1, n2}
  MaxUploadFaults = 1
  NoMedia = NoMedia
  StudioRequests = {s1}
  ChatRequests = {c1}
  Syncs = {y1}
  MaxMediaFaults = 2
  MaxGenerations = 2
  Events = {e1, i1}
  Invoices = {i1}
  Checkouts = {k1}
  Redeemers = {v1}
  Created <- MCCreated
  Rank <- MCRank
  RedeemerOf <- MCRedeemerOf
  MaxRedemptions = 2
  MaxBillingFaults = 1
  Transcribers = {n1, n2}
  Owner = Owner
  NoClaim = NoClaim
  MaxSlips = 1
  VoiceRequests = {q1}
  DirectLoops = {d1}
  StaleLoops = {l1}
  OrphanLoops = {o1}
  ProcessOf <- MCProcessOf
  MaxNotes = 2
  MaxVoiceFaults = 1
  Users = {u1}
  Sweepers = {w1}
  Referencing = {u1}
  Busy = {u1}
  TargetId <- MCTargetId
  MaxRecoveryAttempts = 2
  MaxTargetAttempts = 2
  Entrants = {x1, x2, x3, x4, x5}
  EntrantOf <- MCEntrantOf
  Tasks = {x5}
  TurnLimits = {1, 2}
  GlobalLimit = 2
  QueueLimit = 3
  MaxErasureFaults = 1
  SessionTurns = {z1}
  Nobody = Nobody
  Lease = 5
  MaxTurn = 1
  Gap = 2
  MaxSkew = 1
  Skew <- MCSkew
  MaxClock = 6
  Builders = {m1}
  Requesters = {j1}
  Schedulers = {j2}
  ChatBuilders = {}
  HostOf <- MCHostOf
  MaxRevision = 2
  MaxRuntimeFaults = 1
  Dreamers = {n1}
  NoDreamer = NoDreamer
  Funds = 4
  Purchase = f1
  LifecycleCalls = {p1, p2}
  NoCall = NoCall
  Pairings = {q2, q3}
  PeerOf <- MCPeerOf
  Listed = {o2}
  Agents = {g4, g5}
  PendingLimit = 3
  MaxConnectionFaults = 2
  Creates = {c2, c3}
  Seals = {c4, c5}
  Exchanges = {c6, c7}
  Rotations = {c8}
  Posts = {c9}
  Revocations = {c10}
  Owners = {a1, a2}
  OwnerOf <- MCOwnerOf
  Tokens = {t3, t4, t5}
  NoToken = NoToken
  TokenOf <- MCTokenOf
  Bots = {b3, b4}
  NoBot = NoBot
  BotOf <- MCBotOf
  TargetOf <- MCTargetOf
  Onboardings = {o3, o4}
  OnboarderOf <- MCOnboarderOf
  Granters = {g6}
  GranterOf <- MCGranterOf
  Quota = 1
  Workloads <- MCWorkloads
  Running = {"chat", "uploads", "media", "billing", "transcription", "voice", "erasure",
             "agents", "dreams"}
PROPERTIES
  EveryPaidJobEnds
  EveryPaymentIsCredited
  EveryRecordedJobEnds
CHECK_DEADLOCK FALSE
