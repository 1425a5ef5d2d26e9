-------------------------- MODULE MannaLedgerProofs --------------------------
(***************************************************************************)
(* The properties of MannaLedger, proved for any accounts, keys, amounts.  *)
(***************************************************************************)
EXTENDS MannaLedger, MannaOpsProofs

\* The inductive invariant.  Besides what the properties say it needs that a
\* reversal returns everything (ReversalFinal, in SoundLedger), that a debit
\* draws at most what it takes, and that nothing is restored before it.
IInv ==
  /\ SoundLedger(ledger)
  /\ drawn \in [Ops -> Nat] /\ restored \in [Ops -> Nat] /\ legacy \subseteq Ops
  /\ SplitExact
  /\ \A o \in Ops : IsDebit(ledger, o) => drawn[o] <= Reserved(ledger, o)
  /\ \A o \in Ops : ~Applied(ledger, OpKey(o)) => restored[o] = 0

\* The empty ledger satisfies the invariant.
LEMMA InitIInv ==
  Init => IInv
<1> SUFFICES ASSUME Init PROVE IInv
  OBVIOUS
<1>1. ledger \in Ledger
  BY DEF Init, EmptyLedger, Ledger
<1>2. \A k \in Key : ~Applied(ledger, k)
  BY DEF Init, EmptyLedger, Applied
<1>3. \A o \in Ops : /\ ~Applied(ledger, OpKey(o))
                     /\ \A k \in LegKeys(o) : ~Applied(ledger, k)
                     /\ ~Applied(ledger, refundIdempotencyKey(o))
  BY <1>2, KeyTypes DEF LegKeys
<1> QED
  BY <1>1, <1>3 DEF IInv, SoundLedger, LegsSound, OpsSound, ReversalFinal, IsDebit,
                    SplitExact, Init

\* What a leg of n manna, of which the caller asks t for the subscription pot,
\* does to the ledger.
LEMMA LegEffect ==
  ASSUME IInv, NEW o \in Ops, NEW k \in LegKeys(o), NEW n \in Nat \ {0}, NEW t \in Int,
         IsDebit(ledger, o), ~Applied(ledger, k),
         n <= Reserved(ledger, o) - alreadyRefundedManna(ledger, o),
         k = refundIdempotencyKey(o) =>
           n = Reserved(ledger, o) - alreadyRefundedManna(ledger, o),
         ledger' = creditLeg(ledger, o, k, n, t),
         drawn' = drawn
  PROVE  /\ SoundLedger(ledger')
         /\ MovesWithRow(ledger, ledger')
         /\ \A p \in Ops : ledger'.rows[OpKey(p)] = ledger.rows[OpKey(p)]
         /\ \A p \in Ops \ {o} :
              alreadyRefundedManna(ledger', p) = alreadyRefundedManna(ledger, p)
         /\ alreadyRefundedManna(ledger', o) = alreadyRefundedManna(ledger, o) + n
         /\ ledger'.subscription[PayerOf(ledger, o)]
              = ledger.subscription[PayerOf(ledger, o)] + LegShare(n, t)
         /\ LegShare(n, t) \in 0..n
<1> DEFINE r == [acct |-> PayerOf(ledger, o), amount |-> n, refunds |-> o]
<1>1. ledger \in Ledger /\ SoundLedger(ledger)
  BY DEF IInv, SoundLedger
<1>2. PayerOf(ledger, o) \in Accounts /\ k \in Key
  BY <1>1, DebitFacts, KeyTypes DEF LegKeys
<1>3. /\ Inserted(ledger, ledger', k, r, LegShare(n, t), n - LegShare(n, t))
      /\ MovesWithRow(ledger, ledger')
      /\ LegShare(n, t) \in 0..n
  BY <1>1, <1>2, CreditLegInserts
<1>4. r \in Row /\ r.amount = n /\ r.refunds = o /\ r.acct = PayerOf(ledger, o)
  BY <1>2 DEF Row
<1>5. /\ SoundLedger(ledger')
      /\ \A p \in Ops : ledger'.rows[OpKey(p)] = ledger.rows[OpKey(p)]
      /\ \A p \in Ops \ {o} :
           alreadyRefundedManna(ledger', p) = alreadyRefundedManna(ledger, p)
      /\ alreadyRefundedManna(ledger', o) = alreadyRefundedManna(ledger, o) + r.amount
  <2> HIDE DEF r
  <2>1. r.amount > 0
        /\ r.amount <= Reserved(ledger, o) - alreadyRefundedManna(ledger, o)
        /\ (k = refundIdempotencyKey(o) =>
              r.amount = Reserved(ledger, o) - alreadyRefundedManna(ledger, o))
    BY <1>4
  <2> QED
    <3>1. LegWritten(ledger, ledger', o, r.amount)
      BY <1>1, <1>3, <1>4, <2>1, LegPreservesSound
    <3> QED
      BY <3>1 DEF LegWritten
<1>6. ledger'.subscription[PayerOf(ledger, o)]
        = ledger.subscription[PayerOf(ledger, o)] + LegShare(n, t)
  BY <1>3, <1>4 DEF Inserted
<1> QED
  BY <1>3, <1>4, <1>5, <1>6

\* The subscription share left in a reservation of R after returning n of it,
\* for the two ways the share of a leg is computed.
LEMMA SettleSplit ==
  ASSUME NEW R \in Nat, NEW d \in 0..R, NEW c \in Nat, c < R
  PROVE  d - LegShare(R - c, UnusedSubscription(c, d)) = Least(d, c)
BY DEF LegShare, UnusedSubscription, Least, Max0

\* ... and for a reversal, which returns everything that is left.
LEMMA ReverseSplit ==
  ASSUME NEW d \in Nat, NEW x \in Nat, NEW n \in Nat \ {0}, d - x = Least(d, n)
  PROVE  d - (x + LegShare(n, Least(d, n))) = 0
BY DEF LegShare, Least, Max0

\* Every operation of manna.ts preserves the invariant and moves money only with
\* the row it inserts.
LEMMA NextIInv ==
  IInv /\ [Next]_vars => /\ IInv'
                         /\ [MovesWithRow(ledger, ledger')]_ledger
<1> SUFFICES ASSUME IInv, [Next]_vars
             PROVE  IInv' /\ [MovesWithRow(ledger, ledger')]_ledger
  OBVIOUS
<1> DEFINE L == ledger
           M == ledger'
<1>a. L \in Ledger /\ SoundLedger(L)
  BY DEF IInv, SoundLedger
<1>b. drawn \in [Ops -> Nat] /\ restored \in [Ops -> Nat] /\ legacy \subseteq Ops
  BY DEF IInv
<1>1. ASSUME NEW o \in Ops, NEW a \in Accounts, NEW n \in Amounts, Debit(a, n, o)
      PROVE  IInv' /\ MovesWithRow(L, M)
  <2> DEFINE r == [acct |-> a, amount |-> -n, refunds |-> NoOp]
             d == subscriptionDrawn(L, a, n)
  <2>1. n \in Nat \ {0}
    BY AmountsAssumption
  <2>2. ~Applied(L, OpKey(o)) /\ CanCover(L, a, n) /\ M = debit(L, a, n, o)
    BY <1>1 DEF Debit
  <2>3. Inserted(L, M, OpKey(o), r, -d, -(n - d)) /\ MovesWithRow(L, M) /\ d \in 0..n
    BY <1>a, <2>1, <2>2, DebitInserts
  <2>4. r \in Row /\ r.refunds = NoOp
    BY <2>1 DEF Row
  <2>5. /\ SoundLedger(M)
        /\ \A p \in Ops : alreadyRefundedManna(M, p) = alreadyRefundedManna(L, p)
        /\ \A p \in Ops \ {o} : M.rows[OpKey(p)] = L.rows[OpKey(p)]
        /\ alreadyRefundedManna(L, o) = 0
    BY <1>a, <2>2, <2>3, <2>4, OpPreservesSound
  <2>6. M.rows[OpKey(o)] = r /\ Reserved(M, o) = n /\ Applied(M, OpKey(o))
    BY <2>1, <2>3, <2>4, NoRowAssumption DEF Inserted, Reserved, Applied
  <2>7. restored[o] = 0
    BY <2>2 DEF IInv
  <2>8. drawn' = [drawn EXCEPT ![o] = d] /\ restored' = restored /\ legacy' = legacy
    BY <1>1 DEF Debit
  <2>9. SplitExact'
    <3> SUFFICES ASSUME NEW p \in Ops \ legacy, IsDebit(M, p)
                 PROVE  drawn'[p] - restored[p]
                          = Least(drawn'[p], Reserved(M, p) - alreadyRefundedManna(M, p))
      BY <2>8 DEF SplitExact
    <3>1. CASE p = o
      BY <1>b, <2>1, <2>3, <2>5, <2>6, <2>7, <2>8, <3>1 DEF Least
    <3>2. CASE p # o
      <4>1. IsDebit(L, p) /\ Reserved(M, p) = Reserved(L, p) /\ drawn'[p] = drawn[p]
        BY <1>b, <2>5, <2>8, <3>2 DEF IsDebit, Applied, Reserved
      <4> QED
        BY <2>5, <4>1 DEF IInv, SplitExact
    <3> QED
      BY <3>1, <3>2
  <2>10. \A p \in Ops : IsDebit(M, p) => drawn'[p] <= Reserved(M, p)
    <3> SUFFICES ASSUME NEW p \in Ops, IsDebit(M, p)  PROVE drawn'[p] <= Reserved(M, p)
      OBVIOUS
    <3>1. CASE p = o
      BY <1>b, <2>1, <2>3, <2>6, <2>8, <3>1
    <3>2. CASE p # o
      BY <1>b, <2>5, <2>8, <3>2 DEF IInv, IsDebit, Applied, Reserved
    <3> QED
      BY <3>1, <3>2
  <2>11. \A p \in Ops : ~Applied(M, OpKey(p)) => restored'[p] = 0
    BY <2>5, <2>6, <2>8 DEF IInv, Applied
  <2>12. drawn' \in [Ops -> Nat] /\ restored' \in [Ops -> Nat] /\ legacy' \subseteq Ops
    BY <1>b, <2>1, <2>3, <2>8
  <2> QED
    BY <2>3, <2>5, <2>9, <2>10, <2>11, <2>12 DEF IInv
<1>2. ASSUME NEW o \in Ops, NEW a \in Accounts, NEW n \in Amounts, NEW s \in BOOLEAN,
             Credit(a, n, o, s)
      PROVE  IInv' /\ MovesWithRow(L, M)
  <2> DEFINE r == [acct |-> a, amount |-> n, refunds |-> NoOp]
  <2>1. n \in Nat \ {0}
    BY AmountsAssumption
  <2>2. ~Applied(L, OpKey(o)) /\ M = credit(L, a, n, o, s)
    BY <1>2 DEF Credit
  <2>3. MovesWithRow(L, M) /\ \E ds, db \in Int : Inserted(L, M, OpKey(o), r, ds, db)
    BY <1>a, <2>1, <2>2, CreditInserts
  <2>4. r \in Row /\ r.refunds = NoOp
    BY <2>1 DEF Row
  <2>5. /\ SoundLedger(M)
        /\ \A p \in Ops : alreadyRefundedManna(M, p) = alreadyRefundedManna(L, p)
        /\ \A p \in Ops \ {o} : M.rows[OpKey(p)] = L.rows[OpKey(p)]
    BY <1>a, <2>2, <2>3, <2>4, OpPreservesSound
  <2>6. M.rows[OpKey(o)] = r /\ ~IsDebit(M, o) /\ Applied(M, OpKey(o))
    BY <2>1, <2>3, <2>4, NoRowAssumption DEF Inserted, IsDebit, Applied
  <2>7. UNCHANGED <<drawn, restored, legacy>>
    BY <1>2 DEF Credit
  <2>8. \A p \in Ops : IsDebit(M, p) => IsDebit(L, p) /\ Reserved(M, p) = Reserved(L, p)
    BY <2>5, <2>6 DEF IsDebit, Applied, Reserved
  <2>9. SplitExact'
    BY <2>5, <2>7, <2>8 DEF IInv, SplitExact
  <2>10. \A p \in Ops : IsDebit(M, p) => drawn'[p] <= Reserved(M, p)
    BY <2>7, <2>8 DEF IInv
  <2>11. \A p \in Ops : ~Applied(M, OpKey(p)) => restored'[p] = 0
    BY <2>5, <2>6, <2>7 DEF IInv, Applied
  <2> QED
    BY <1>b, <2>3, <2>5, <2>7, <2>9, <2>10, <2>11 DEF IInv
<1>3. ASSUME NEW o \in Ops, NEW c \in Amounts \cup {0}, Settle(o, c)
      PROVE  IInv' /\ MovesWithRow(L, M)
  <2> DEFINE k == settleReservationIdempotencyKey(o)
             n == Reserved(L, o) - c
             t == UnusedSubscription(c, drawn[o])
  <2>1. c \in Nat /\ SettleApplies(L, o, c)
    BY <1>3, AmountsAssumption DEF Settle
  <2>2. /\ IsDebit(L, o) /\ ~Applied(L, k) /\ ~Applied(L, refundIdempotencyKey(o))
        /\ n \in Nat \ {0}
    BY <1>a, <2>1, SettleAppliesFacts
  <2>3. alreadyRefundedManna(L, o) = 0 /\ Reserved(L, o) \in Nat
    BY <1>a, <2>2, DebitFacts DEF alreadyRefundedManna, LegAmount
  <2>4. M = creditLeg(L, o, k, n, t)
    BY <1>3, <2>1 DEF Settle, settleReservation, refundLeg, SettleApplies, Requested
  <2>5. k \in LegKeys(o) /\ k # refundIdempotencyKey(o) /\ t \in Int
        /\ n <= Reserved(L, o) - alreadyRefundedManna(L, o)
    BY <1>b, <2>1, <2>3, KeysDiffer DEF LegKeys, UnusedSubscription, Max0, Least
  <2>6. UNCHANGED <<drawn, legacy>>
    BY <1>3 DEF Settle
  <2>7. /\ SoundLedger(M) /\ MovesWithRow(L, M)
        /\ \A p \in Ops : M.rows[OpKey(p)] = L.rows[OpKey(p)]
        /\ \A p \in Ops \ {o} : alreadyRefundedManna(M, p) = alreadyRefundedManna(L, p)
        /\ alreadyRefundedManna(M, o) = alreadyRefundedManna(L, o) + n
        /\ M.subscription[PayerOf(L, o)] = L.subscription[PayerOf(L, o)] + LegShare(n, t)
        /\ LegShare(n, t) \in 0..n
    <3> HIDE DEF n, t, k
    <3> QED  BY <2>2, <2>4, <2>5, <2>6, LegEffect
  <2>8. L.subscription[PayerOf(L, o)] \in Nat
    BY <1>a, <2>2, DebitFacts DEF Ledger
  <2>9. restored' = [restored EXCEPT ![o] = @ + LegShare(n, t)]
    <3> HIDE DEF n, t, k
    <3>1. restored[o] \in Nat /\ LegShare(n, t) \in Int
      BY <1>b, <2>2, <2>7
    <3>2. restored[o] + M.subscription[PayerOf(L, o)] - L.subscription[PayerOf(L, o)]
            = restored[o] + LegShare(n, t)
      BY <2>7, <2>8, <3>1
    <3> QED
      BY <1>3, <3>2 DEF Settle, Restore
  <2>10. \A p \in Ops : /\ IsDebit(M, p) = IsDebit(L, p)
                        /\ Reserved(M, p) = Reserved(L, p)
                        /\ Applied(M, OpKey(p)) = Applied(L, OpKey(p))
    BY <2>7 DEF IsDebit, Applied, Reserved
  <2>11. SplitExact'
    <3> SUFFICES ASSUME NEW p \in Ops \ legacy, IsDebit(L, p)
                 PROVE  drawn[p] - restored'[p]
                          = Least(drawn[p], Reserved(L, p) - alreadyRefundedManna(M, p))
      BY <2>6, <2>10 DEF SplitExact
    <3>1. CASE p = o
      <4>1. drawn[o] \in 0..Reserved(L, o) /\ restored[o] \in Nat
        BY <1>b, <2>2, <2>3 DEF IInv
      <4>2. drawn[o] - restored[o] = Least(drawn[o], Reserved(L, o))
        BY <2>3, <3>1 DEF IInv, SplitExact
      <4>3. restored[o] = 0
        BY <2>3, <4>1, <4>2 DEF Least
      <4>4. drawn[o] - LegShare(n, t) = Least(drawn[o], c)
        BY <2>1, <2>2, <2>3, <4>1, SettleSplit
      <4>5. Reserved(L, o) - alreadyRefundedManna(M, o) = c
        BY <2>1, <2>3, <2>7
      <4> QED
        BY <1>b, <2>7, <2>9, <3>1, <4>3, <4>4, <4>5
    <3>2. CASE p # o
      BY <1>b, <2>7, <2>9, <3>2 DEF IInv, SplitExact
    <3> QED
      BY <3>1, <3>2
  <2>12. restored' \in [Ops -> Nat]
    BY <1>b, <2>7, <2>9
  <2>13. \A p \in Ops : ~Applied(M, OpKey(p)) => restored'[p] = 0
    BY <1>b, <2>2, <2>9, <2>10 DEF IInv, IsDebit
  <2> QED
    BY <1>b, <2>6, <2>7, <2>10, <2>11, <2>12, <2>13 DEF IInv
<1>4. ASSUME NEW o \in Ops, Reverse(o)
      PROVE  IInv' /\ MovesWithRow(L, M)
  <2> DEFINE k == refundIdempotencyKey(o)
             n == Refundable(L, o)
             t == Least(drawn[o], n)
  <2>1. ReverseApplies(L, o)
    BY <1>4 DEF Reverse
  <2>2. /\ IsDebit(L, o) /\ ~Applied(L, k)
        /\ n = Reserved(L, o) - alreadyRefundedManna(L, o)
        /\ n \in Nat \ {0}
    BY <1>a, <2>1, ReverseAppliesFacts
  <2>4. M = creditLeg(L, o, k, n, t)
    BY <1>4, <2>1 DEF Reverse, reverseReservation, refundLeg, ReverseApplies, Requested,
                      ReversedSubscription
  <2>5. k \in LegKeys(o) /\ t \in Int /\ n <= Reserved(L, o) - alreadyRefundedManna(L, o)
    BY <1>b, <2>2 DEF LegKeys, Least
  <2>6. UNCHANGED <<drawn, legacy>>
    BY <1>4 DEF Reverse
  <2>7. /\ SoundLedger(M) /\ MovesWithRow(L, M)
        /\ \A p \in Ops : M.rows[OpKey(p)] = L.rows[OpKey(p)]
        /\ \A p \in Ops \ {o} : alreadyRefundedManna(M, p) = alreadyRefundedManna(L, p)
        /\ alreadyRefundedManna(M, o) = alreadyRefundedManna(L, o) + n
        /\ M.subscription[PayerOf(L, o)] = L.subscription[PayerOf(L, o)] + LegShare(n, t)
        /\ LegShare(n, t) \in 0..n
    <3> HIDE DEF n, t, k
    <3> QED  BY <2>2, <2>4, <2>5, <2>6, LegEffect
  <2>8. L.subscription[PayerOf(L, o)] \in Nat
    BY <1>a, <2>2, DebitFacts DEF Ledger
  <2>9. restored' = [restored EXCEPT ![o] = @ + LegShare(n, t)]
    <3> HIDE DEF n, t, k
    <3>1. restored[o] \in Nat /\ LegShare(n, t) \in Int
      BY <1>b, <2>2, <2>7
    <3>2. restored[o] + M.subscription[PayerOf(L, o)] - L.subscription[PayerOf(L, o)]
            = restored[o] + LegShare(n, t)
      BY <2>7, <2>8, <3>1
    <3> QED
      BY <1>4, <3>2 DEF Reverse, Restore
  <2>10. \A p \in Ops : /\ IsDebit(M, p) = IsDebit(L, p)
                        /\ Reserved(M, p) = Reserved(L, p)
                        /\ Applied(M, OpKey(p)) = Applied(L, OpKey(p))
    BY <2>7 DEF IsDebit, Applied, Reserved
  <2>11. SplitExact'
    <3> SUFFICES ASSUME NEW p \in Ops \ legacy, IsDebit(L, p)
                 PROVE  drawn[p] - restored'[p]
                          = Least(drawn[p], Reserved(L, p) - alreadyRefundedManna(M, p))
      BY <2>6, <2>10 DEF SplitExact
    <3>1. CASE p = o
      <4>1. drawn[o] \in Nat /\ restored[o] \in Nat
            /\ Reserved(L, o) \in Nat /\ alreadyRefundedManna(L, o) \in Int
        BY <1>a, <1>b, <2>2, DebitFacts, RefundedType
      <4>2. drawn[o] - restored[o] = Least(drawn[o], n)
        BY <2>2, <3>1 DEF IInv, SplitExact
      <4>3. drawn[o] - (restored[o] + LegShare(n, t)) = 0
        BY <2>2, <4>1, <4>2, ReverseSplit
      <4>4. Reserved(L, o) - alreadyRefundedManna(M, o) = 0
        BY <2>2, <2>7, <4>1
      <4> QED
        BY <1>b, <2>7, <2>9, <3>1, <4>1, <4>3, <4>4 DEF Least
    <3>2. CASE p # o
      BY <1>b, <2>7, <2>9, <3>2 DEF IInv, SplitExact
    <3> QED
      BY <3>1, <3>2
  <2>12. restored' \in [Ops -> Nat]
    BY <1>b, <2>7, <2>9
  <2>13. \A p \in Ops : ~Applied(M, OpKey(p)) => restored'[p] = 0
    BY <1>b, <2>2, <2>9, <2>10 DEF IInv, IsDebit
  <2> QED
    BY <1>b, <2>6, <2>7, <2>10, <2>11, <2>12, <2>13 DEF IInv
<1>5. ASSUME NEW o \in Ops, Refund(o)
      PROVE  IInv' /\ MovesWithRow(L, M)
  <2> DEFINE k == refundIdempotencyKey(o)
             n == Refundable(L, o)
  <2>1. RefundApplies(L, o)
    BY <1>5 DEF Refund
  <2>2. /\ IsDebit(L, o) /\ ~Applied(L, k)
        /\ n = Reserved(L, o) - alreadyRefundedManna(L, o)
        /\ n \in Nat \ {0}
    BY <1>a, <2>1, ReverseAppliesFacts
  <2>4. M = creditLeg(L, o, k, n, 0)
    BY <1>5, <2>1 DEF Refund, refund, refundLeg, RefundApplies, Requested
  <2>5. k \in LegKeys(o) /\ n <= Reserved(L, o) - alreadyRefundedManna(L, o)
    BY <2>2 DEF LegKeys
  <2>6. drawn' = drawn /\ restored' = restored /\ legacy' = legacy \cup {o}
    BY <1>5 DEF Refund
  <2>7. /\ SoundLedger(M) /\ MovesWithRow(L, M)
        /\ \A p \in Ops : M.rows[OpKey(p)] = L.rows[OpKey(p)]
        /\ \A p \in Ops \ {o} : alreadyRefundedManna(M, p) = alreadyRefundedManna(L, p)
    <3> HIDE DEF n, k
    <3> QED  BY <2>2, <2>4, <2>5, <2>6, LegEffect
  <2>10. \A p \in Ops : /\ IsDebit(M, p) = IsDebit(L, p)
                        /\ Reserved(M, p) = Reserved(L, p)
                        /\ Applied(M, OpKey(p)) = Applied(L, OpKey(p))
    BY <2>7 DEF IsDebit, Applied, Reserved
  <2>11. SplitExact'
    BY <2>6, <2>7, <2>10 DEF IInv, SplitExact
  <2> QED
    BY <1>b, <2>6, <2>7, <2>10, <2>11 DEF IInv
<1>6. CASE UNCHANGED vars
  BY <1>6 DEF vars, IInv, SoundLedger, SplitExact
<1> QED
  BY <1>1, <1>2, <1>3, <1>4, <1>5, <1>6 DEF Next

\* In a sound ledger reverseReservation of any debit applies, replays or finds
\* nothing left.
LEMMA SoundRetriable ==
  ASSUME NEW L, SoundLedger(L), NEW o \in Ops, IsDebit(L, o)
  PROVE  ReverseCommits(L, o)
<1> DEFINE k == refundIdempotencyKey(o)
<1>1. Reserved(L, o) \in Nat /\ alreadyRefundedManna(L, o) \in Int /\ Applied(L, OpKey(o))
  BY DebitFacts, RefundedType DEF SoundLedger, IsDebit
<1>2. CASE Applied(L, k)
  <2>1. ~(Refundable(L, o) > 0)
    BY <1>1, <1>2 DEF SoundLedger, ReversalFinal, Refundable, Max0
  <2>2. L.rows[k].refunds = o
    BY <1>2 DEF SoundLedger, LegsSound, LegKeys
  <2> QED
    BY <1>1, <1>2, <2>1, <2>2 DEF ReverseCommits, LegCommits, LegReplays
<1>3. CASE ~Applied(L, k)
  <2>1. Refundable(L, o) \in Int
    BY <1>1 DEF Refundable, Max0
  <2> QED
    BY <1>1, <1>3, <2>1 DEF ReverseCommits, LegCommits, LegOpen, Requested
<1> QED
  BY <1>2, <1>3

-----------------------------------------------------------------------------
(* The theorems.                                                           *)

\* The invariant holds of every sequence of ledger operations.
LEMMA Inductive ==
  Spec => []IInv
<1>1. IInv /\ [Next]_vars => IInv'
  BY NextIInv
<1> QED
  BY <1>1, InitIInv, PTL DEF Spec

\* No account is ever overdrawn and every row is well formed, for any accounts
\* and any number of concurrent keys (the guarded UPDATE of debit).
THEOREM TypeCorrect ==
  Spec => []TypeOK
<1>1. IInv => TypeOK
  BY DEF IInv, TypeOK, SoundLedger
<1> QED
  BY <1>1, Inductive, PTL

\* No mixture of settlements, reversals and refunds returns more than a debit
\* took (refundLeg's validation against the sum of linked refunds).
THEOREM NeverOverRefundedThm ==
  Spec => []NeverOverRefunded
<1>1. IInv => NeverOverRefunded
  BY DEF IInv, NeverOverRefunded, SoundLedger
<1> QED
  BY <1>1, Inductive, PTL

\* A caller that retries reverseReservation never meets an error of its own
\* making, whatever legs were written before.
THEOREM ReversalRetriableThm ==
  Spec => []ReversalRetriable
<1>1. IInv => ReversalRetriable
  BY SoundRetriable DEF IInv, ReversalRetriable
<1> QED
  BY <1>1, Inductive, PTL

\* Settlement and reversal give every pot exactly its own manna back.
THEOREM SplitExactThm ==
  Spec => []SplitExact
<1>1. IInv => SplitExact
  BY DEF IInv
<1> QED
  BY <1>1, Inductive, PTL

\* Money moves only with the row that accounts for it.
THEOREM BalancesFollowRowsThm ==
  Spec => BalancesFollowRows
<1>1. IInv /\ [Next]_vars => [MovesWithRow(ledger, ledger')]_ledger
  BY NextIInv
<1> QED
  BY <1>1, Inductive, PTL DEF Spec, BalancesFollowRows

\* No operation changes or removes a row of manna_transactions.
THEOREM AppendOnlyThm ==
  Spec => AppendOnly
<1> DEFINE Kept == \A k \in Key : Applied(ledger, k) => ledger'.rows[k] = ledger.rows[k]
<1>1. IInv /\ [Next]_vars => [Kept]_vars
  <2> SUFFICES ASSUME IInv, [Next]_vars  PROVE Kept
    OBVIOUS
  <2>1. [MovesWithRow(ledger, ledger')]_ledger
    BY NextIInv
  <2>2. MovesWithRow(ledger, ledger') => Kept
    BY DEF MovesWithRow
  <2> QED
    BY <2>1, <2>2
<1> QED
  BY <1>1, Inductive, PTL DEF Spec, AppendOnly
=============================================================================
