----------------------------- MODULE MCServices -----------------------------
(* Services on small instances. *)
EXTENDS Services, TLC

CONSTANTS
  a1, f1, t1, t2, r1, r2, n1, n2, e1, e2, e3, i1, i2, v1, v2, v3, b1, b2, u1,
  u2, s1, s2, c1, y1, k1, w1, q1, d1, l1, o1, g1, g2, g3, x1, x2, x3, x4, x5,
  z1, z2, z3, h1, h2, m1, m2, j1, j2,
  p1, p2, q2, q3, g4, g5, o2,
  c2, c3, c4, c5, c6, c7, c8, c9, c10, a2, t3, t4, t5, b3, b4, o3, o4, g6

MCPayer == [t \in Turns |-> a1]
MCMax == [t \in Turns |-> 2]
MCCreated == [e \in Events |-> IF e \in {e1, i1} THEN 1 ELSE 2]
MCRank == [e \in Events |-> IF e = e2 THEN 1 ELSE IF e = e3 THEN 12 ELSE 22]
MCRedeemerOf == [v \in Redeemers |-> IF v = v3 THEN b2 ELSE b1]
MCProcessOf == [p \in Voices |-> n1]
MCTargetId == [u \in Users |-> IF u = u1 THEN 1 ELSE 2]
MCEntrantOf == [c \in Entrants |-> IF c \in {x1, x2} THEN g1 ELSE IF c = x5 THEN g3 ELSE g2]
MCSkew == [t \in SessionTurns |-> IF t = z2 THEN MaxSkew ELSE 0]

\* A pairing request is another sender's, who is named by it.
MCPeerOf == [q \in Pairings |-> q]

\* Of the bot b3 two tokens are known; t5 holds an application's keys of X.
MCBotOf == [t \in Tokens |-> IF t \in {t3, t4} THEN b3 ELSE b4]
MCTokenOf == c2 :> t3 @@ c3 :> t4 @@ c6 :> t4 @@ c7 :> t3 @@ c4 :> t5 @@ c5 :> t5 @@ c8 :> t4
MCOwnerOf == [c \in CredentialCalls |-> IF c \in {c3, c5} THEN a2 ELSE a1]
MCTargetOf == [c \in CredentialCalls \ (Creates \cup Exchanges) |->
                 IF c = c8 THEN c2 ELSE IF c = c5 THEN c5 ELSE c4]
MCOnboarderOf == [i \in Onboardings |-> a1]
MCGranterOf == [c \in Exchanges |-> g6]
MCWorkloads == {{c2, c3, c6, c8, o3, o4}, {c2, c6, c4, o3}, {c6, c7, o3, o4},
                 {c4, c5, c9, c10, c2}}
MCHostOf == [p \in RuntimeActors |-> IF p \in {m1, j1} THEN h1 ELSE h2]
=============================================================================
