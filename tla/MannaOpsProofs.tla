--------------------------- MODULE MannaOpsProofs ---------------------------
(***************************************************************************)
(* Lemmas about the ledger operators, for any accounts, keys and amounts:  *)
(* each write inserts one row, and the writes manna.ts makes keep a ledger *)
(* sound.  The proofs about the specifications with a ledger cite them.    *)
(***************************************************************************)
EXTENDS MannaOps, TLAPS

-----------------------------------------------------------------------------
(* Keys.                                                                   *)

\* The keys of an operation and of its two refund legs are keys of the journal.
LEMMA KeyTypes ==
  ASSUME NEW o \in Ops
  PROVE  /\ OpKey(o) \in Key
         /\ refundIdempotencyKey(o) \in Key
         /\ settleReservationIdempotencyKey(o) \in Key
BY DEF Key, OpKey, refundIdempotencyKey, settleReservationIdempotencyKey

\* The key namespaces of debits, refunds and settlements never collide, and the
\* keys of different operations differ.
LEMMA KeysDiffer ==
  ASSUME NEW o, NEW p
  PROVE  /\ OpKey(o) # refundIdempotencyKey(p)
         /\ OpKey(o) # settleReservationIdempotencyKey(p)
         /\ refundIdempotencyKey(o) # settleReservationIdempotencyKey(p)
         /\ o # p => /\ OpKey(o) # OpKey(p)
                     /\ refundIdempotencyKey(o) # refundIdempotencyKey(p)
                     /\ settleReservationIdempotencyKey(o)
                          # settleReservationIdempotencyKey(p)
BY DEF OpKey, refundIdempotencyKey, settleReservationIdempotencyKey

-----------------------------------------------------------------------------
(* One operation inserts one row and moves one account's pots.             *)

\* M is L with row r inserted under k, where ds and db were added to the
\* subscription and durable pots of r's account.
Inserts(L, M, k, r, ds, db) ==
  /\ M.rows = [L.rows EXCEPT ![k] = r]
  /\ M.subscription = [L.subscription EXCEPT ![r.acct] = @ + ds]
  /\ M.balance = [L.balance EXCEPT ![r.acct] = @ + db]
  /\ M = [balance |-> M.balance, subscription |-> M.subscription, rows |-> M.rows]

\* What follows for each row and each account.
Inserted(L, M, k, r, ds, db) ==
  /\ M \in Ledger
  /\ M.rows[k] = r
  /\ \A j \in Key \ {k} : M.rows[j] = L.rows[j]
  /\ M.subscription[r.acct] = L.subscription[r.acct] + ds
  /\ M.balance[r.acct] = L.balance[r.acct] + db
  /\ \A a \in Accounts \ {r.acct} : /\ M.subscription[a] = L.subscription[a]
                                    /\ M.balance[a] = L.balance[a]

\* A write that inserts one row and moves its account's two pots keeps the
\* ledger well typed.
LEMMA InsertsEffect ==
  ASSUME NEW L \in Ledger, NEW M, NEW k \in Key, NEW r \in Row,
         NEW ds \in Int, NEW db \in Int, Inserts(L, M, k, r, ds, db),
         L.subscription[r.acct] + ds >= 0, L.balance[r.acct] + db >= 0
  PROVE  Inserted(L, M, k, r, ds, db)
<1>1. /\ r.acct \in Accounts
      /\ L.rows \in [Key -> Row \cup {NoRow}]
      /\ L.subscription \in [Accounts -> Nat]
      /\ L.balance \in [Accounts -> Nat]
  BY DEF Ledger, Row
<1>2. /\ M.rows \in [Key -> Row \cup {NoRow}]
      /\ M.rows[k] = r
      /\ \A j \in Key \ {k} : M.rows[j] = L.rows[j]
  BY <1>1 DEF Inserts
<1>3. /\ M.subscription \in [Accounts -> Nat]
      /\ M.subscription[r.acct] = L.subscription[r.acct] + ds
      /\ \A a \in Accounts \ {r.acct} : M.subscription[a] = L.subscription[a]
  BY <1>1 DEF Inserts
<1>4. /\ M.balance \in [Accounts -> Nat]
      /\ M.balance[r.acct] = L.balance[r.acct] + db
      /\ \A a \in Accounts \ {r.acct} : M.balance[a] = L.balance[a]
  BY <1>1 DEF Inserts
<1>5. M \in Ledger
  BY <1>2, <1>3, <1>4 DEF Inserts, Ledger
<1> QED
  BY <1>2, <1>3, <1>4, <1>5 DEF Inserted

\* A write whose pots move by the row's amount in sum moves money with its row.
LEMMA InsertsMovesWithRow ==
  ASSUME NEW L \in Ledger, NEW M, NEW k \in Key, NEW r \in Row,
         NEW ds \in Int, NEW db \in Int, Inserts(L, M, k, r, ds, db),
         L.subscription[r.acct] + ds >= 0, L.balance[r.acct] + db >= 0,
         ~Applied(L, k), r.amount = ds + db
  PROVE  MovesWithRow(L, M)
<1>1. Inserted(L, M, k, r, ds, db)
  BY InsertsEffect
<1>2. /\ \A a \in Accounts : L.subscription[a] \in Nat /\ L.balance[a] \in Nat
      /\ r.acct \in Accounts /\ r.amount \in Int
  BY DEF Ledger, Row
<1>3. Applied(M, k)
  BY <1>1, NoRowAssumption DEF Applied, Inserted
<1>4. ASSUME NEW a \in Accounts
      PROVE  getBalance(M, a) = getBalance(L, a)
                                  + (IF M.rows[k].acct = a THEN M.rows[k].amount ELSE 0)
  BY <1>1, <1>2, <1>4 DEF getBalance, Inserted
<1> QED
  BY <1>1, <1>3, <1>4 DEF MovesWithRow, Inserted

-----------------------------------------------------------------------------
(* The three writes of manna.ts, as insertions.                            *)

\* A debit the balance covers takes the subscription share first, the rest from
\* the durable pot, and inserts the negative row.
LEMMA DebitInserts ==
  ASSUME NEW L \in Ledger, NEW a \in Accounts, NEW n \in Nat \ {0}, NEW o \in Ops,
         CanCover(L, a, n)
  PROVE  /\ Inserted(L, debit(L, a, n, o), OpKey(o),
                     [acct |-> a, amount |-> -n, refunds |-> NoOp],
                     -subscriptionDrawn(L, a, n), -(n - subscriptionDrawn(L, a, n)))
         /\ ~Applied(L, OpKey(o)) => MovesWithRow(L, debit(L, a, n, o))
         /\ subscriptionDrawn(L, a, n) \in 0..n
<1> DEFINE M == debit(L, a, n, o)
           k == OpKey(o)
           r == [acct |-> a, amount |-> -n, refunds |-> NoOp]
           d == subscriptionDrawn(L, a, n)
           ds == -d
           db == -(n - d)
<1>1. L.subscription[a] \in Nat /\ L.balance[a] \in Nat
  BY DEF Ledger
<1>2. d \in 0..n /\ d <= L.subscription[a] /\ n - d = Max0(n - L.subscription[a])
      /\ L.subscription[a] - d = Max0(L.subscription[a] - n)
  BY <1>1 DEF subscriptionDrawn, Least, Max0
<1>3. r \in Row /\ k \in Key /\ ds \in Int /\ db \in Int /\ r.acct = a
      /\ r.amount = ds + db
  BY <1>2, KeyTypes DEF Row
<1>4. L.subscription[r.acct] + ds >= 0 /\ L.balance[r.acct] + db >= 0
  BY <1>1, <1>2, <1>3 DEF CanCover, getBalance, Max0
<1>5. Inserts(L, M, k, r, ds, db)
  <2>1. M.rows = [L.rows EXCEPT ![k] = r]
    BY DEF debit
  <2>2. M.subscription = [L.subscription EXCEPT ![a] = @ + ds]
    BY <1>1, <1>2 DEF debit
  <2>3. M.balance = [L.balance EXCEPT ![a] = @ + db]
    BY <1>1, <1>2 DEF debit
  <2> QED
    BY <2>1, <2>2, <2>3 DEF Inserts, debit
<1>6. Inserted(L, M, k, r, ds, db)
  <2> HIDE DEF M, k, r, ds, db
  <2> QED  BY <1>3, <1>4, <1>5, InsertsEffect
<1>7. ~Applied(L, k) => MovesWithRow(L, M)
  <2> HIDE DEF M, k, r, ds, db
  <2> QED  BY <1>3, <1>4, <1>5, InsertsMovesWithRow
<1> QED
  BY <1>2, <1>6, <1>7

\* A credit adds its amount to the one pot it names and inserts its row.
LEMMA CreditInserts ==
  ASSUME NEW L \in Ledger, NEW a \in Accounts, NEW n \in Nat \ {0}, NEW o \in Ops,
         NEW s \in BOOLEAN
  PROVE  \E ds, db \in Int :
           /\ Inserted(L, credit(L, a, n, o, s), OpKey(o),
                       [acct |-> a, amount |-> n, refunds |-> NoOp], ds, db)
           /\ ~Applied(L, OpKey(o)) => MovesWithRow(L, credit(L, a, n, o, s))
<1> DEFINE M == credit(L, a, n, o, s)
           k == OpKey(o)
           r == [acct |-> a, amount |-> n, refunds |-> NoOp]
           ds == IF s THEN n ELSE 0
           db == IF s THEN 0 ELSE n
<1>1. L.subscription[a] \in Nat /\ L.balance[a] \in Nat
      /\ L.subscription \in [Accounts -> Nat] /\ L.balance \in [Accounts -> Nat]
  BY DEF Ledger
<1>3. r \in Row /\ k \in Key /\ ds \in Int /\ db \in Int /\ r.acct = a
      /\ r.amount = ds + db
  BY KeyTypes DEF Row
<1>4. L.subscription[r.acct] + ds >= 0 /\ L.balance[r.acct] + db >= 0
  BY <1>1, <1>3
<1>5. Inserts(L, M, k, r, ds, db)
  <2>1. M.rows = [L.rows EXCEPT ![k] = r]
    BY DEF credit
  <2>2. M.subscription = [L.subscription EXCEPT ![a] = @ + ds]
    BY <1>1 DEF credit
  <2>3. M.balance = [L.balance EXCEPT ![a] = @ + db]
    BY <1>1 DEF credit
  <2> QED
    BY <2>1, <2>2, <2>3 DEF Inserts, credit
<1>6. Inserted(L, M, k, r, ds, db)
  <2> HIDE DEF M, k, r, ds, db
  <2> QED  BY <1>3, <1>4, <1>5, InsertsEffect
<1>7. ~Applied(L, k) => MovesWithRow(L, M)
  <2> HIDE DEF M, k, r, ds, db
  <2> QED  BY <1>3, <1>4, <1>5, InsertsMovesWithRow
<1> QED
  BY <1>3, <1>6, <1>7

\* The share of an n-manna leg that goes to the subscription pot.
LegShare(n, t) == Least(Max0(t), n)

\* A refund leg adds the clamped share to the subscription pot and the rest to
\* the durable pot, and inserts a row linked to the debit.
LEMMA CreditLegInserts ==
  ASSUME NEW L \in Ledger, NEW o \in Ops, NEW k \in Key, NEW n \in Nat \ {0},
         NEW t \in Int, PayerOf(L, o) \in Accounts
  PROVE  /\ Inserted(L, creditLeg(L, o, k, n, t), k,
                     [acct |-> PayerOf(L, o), amount |-> n, refunds |-> o],
                     LegShare(n, t), n - LegShare(n, t))
         /\ ~Applied(L, k) => MovesWithRow(L, creditLeg(L, o, k, n, t))
         /\ LegShare(n, t) \in 0..n
<1> DEFINE M == creditLeg(L, o, k, n, t)
           a == PayerOf(L, o)
           r == [acct |-> a, amount |-> n, refunds |-> o]
           ds == LegShare(n, t)
           db == n - ds
<1>1. L.subscription[a] \in Nat /\ L.balance[a] \in Nat
  BY DEF Ledger
<1>2. ds \in 0..n
  BY DEF LegShare, Least, Max0
<1>3. r \in Row /\ ds \in Int /\ db \in Int /\ r.acct = a /\ r.amount = ds + db
  BY <1>2 DEF Row
<1>4. L.subscription[r.acct] + ds >= 0 /\ L.balance[r.acct] + db >= 0
  BY <1>1, <1>2, <1>3
<1>5. Inserts(L, M, k, r, ds, db)
  BY <1>3 DEF Inserts, creditLeg, LegShare
<1>6. Inserted(L, M, k, r, ds, db)
  <2> HIDE DEF M, r, ds, db
  <2> QED  BY <1>3, <1>4, <1>5, InsertsEffect
<1>7. ~Applied(L, k) => MovesWithRow(L, M)
  <2> HIDE DEF M, r, ds, db
  <2> QED  BY <1>3, <1>4, <1>5, InsertsMovesWithRow
<1> QED
  BY <1>2, <1>6, <1>7

-----------------------------------------------------------------------------
(* When a leg is written.                                                  *)

\* What findTransactionByKey finds is a well-formed row.
LEMMA RowTypes ==
  ASSUME NEW L \in Ledger, NEW k \in Key, Applied(L, k)
  PROVE  L.rows[k].acct \in Accounts /\ L.rows[k].amount \in Int \ {0}
BY DEF Ledger, Row, Applied

\* A debit's row has an account and took a positive amount.
LEMMA DebitFacts ==
  ASSUME NEW L \in Ledger, NEW o \in Ops, IsDebit(L, o)
  PROVE  Reserved(L, o) \in Nat \ {0} /\ PayerOf(L, o) \in Accounts
<1>1. OpKey(o) \in Key
  BY KeyTypes
<1> QED
  BY <1>1, RowTypes DEF IsDebit, Reserved, PayerOf

\* The sum of the linked refunds is an integer.
LEMMA RefundedType ==
  ASSUME NEW L \in Ledger, NEW o \in Ops
  PROVE  /\ LegAmount(L, refundIdempotencyKey(o)) \in Int
         /\ LegAmount(L, settleReservationIdempotencyKey(o)) \in Int
         /\ alreadyRefundedManna(L, o) \in Int
<1>1. refundIdempotencyKey(o) \in Key /\ settleReservationIdempotencyKey(o) \in Key
  BY KeyTypes
<1> QED
  BY <1>1, RowTypes DEF LegAmount, alreadyRefundedManna

\* A settlement leg is written only for a debit none of which was returned.
LEMMA SettleAppliesFacts ==
  ASSUME NEW L, SoundLedger(L), NEW o \in Ops, NEW c \in Nat, SettleApplies(L, o, c)
  PROVE  /\ IsDebit(L, o)
         /\ ~Applied(L, settleReservationIdempotencyKey(o))
         /\ ~Applied(L, refundIdempotencyKey(o))
         /\ Reserved(L, o) - c \in Nat \ {0}
<1> DEFINE k == settleReservationIdempotencyKey(o)
           n == Reserved(L, o) - c
<1>1. ~Applied(L, k) /\ IsDebit(L, o) /\ n <= Refundable(L, o) /\ n > 0
  BY DEF SettleApplies, LegApplies, LegOpen, Requested
<1>2. Reserved(L, o) \in Nat \ {0} /\ alreadyRefundedManna(L, o) \in Int
  BY <1>1, DebitFacts, RefundedType DEF SoundLedger
<1>3. ~Applied(L, refundIdempotencyKey(o))
  <2> SUFFICES ASSUME Applied(L, refundIdempotencyKey(o))  PROVE FALSE
    OBVIOUS
  <2>1. Refundable(L, o) = 0
    BY <1>2 DEF SoundLedger, ReversalFinal, Refundable, Max0
  <2> QED  BY <1>1, <1>2, <2>1
<1> QED
  BY <1>1, <1>2, <1>3

\* A reversal leg is written only while something is left, and takes all of it.
LEMMA ReverseAppliesFacts ==
  ASSUME NEW L, SoundLedger(L), NEW o \in Ops, ReverseApplies(L, o) \/ RefundApplies(L, o)
  PROVE  /\ IsDebit(L, o)
         /\ ~Applied(L, refundIdempotencyKey(o))
         /\ Refundable(L, o) = Reserved(L, o) - alreadyRefundedManna(L, o)
         /\ Refundable(L, o) \in Nat \ {0}
<1>1. ~Applied(L, refundIdempotencyKey(o)) /\ IsDebit(L, o) /\ Refundable(L, o) > 0
  BY DEF ReverseApplies, RefundApplies, LegApplies, LegOpen, Requested
<1>2. Reserved(L, o) \in Nat \ {0} /\ alreadyRefundedManna(L, o) \in Int
  BY <1>1, DebitFacts, RefundedType DEF SoundLedger
<1> QED
  BY <1>1, <1>2 DEF Refundable, Max0

-----------------------------------------------------------------------------
(* Soundness is preserved by every write.                                  *)

\* A debit or credit under a free key leaves every other key alone.
LEMMA OpPreservesSound ==
  ASSUME NEW L, SoundLedger(L), NEW M, NEW o \in Ops, NEW r \in Row,
         NEW ds, NEW db, Inserted(L, M, OpKey(o), r, ds, db),
         ~Applied(L, OpKey(o)), r.refunds = NoOp
  PROVE  /\ SoundLedger(M)
         /\ \A p \in Ops : alreadyRefundedManna(M, p) = alreadyRefundedManna(L, p)
         /\ \A p \in Ops \ {o} : M.rows[OpKey(p)] = L.rows[OpKey(p)]
         /\ alreadyRefundedManna(L, o) = 0
<1>1. /\ M \in Ledger
      /\ M.rows[OpKey(o)] = r
      /\ \A j \in Key \ {OpKey(o)} : M.rows[j] = L.rows[j]
  BY DEF Inserted
<1>2. ASSUME NEW p \in Ops
      PROVE  /\ M.rows[refundIdempotencyKey(p)] = L.rows[refundIdempotencyKey(p)]
             /\ M.rows[settleReservationIdempotencyKey(p)]
                  = L.rows[settleReservationIdempotencyKey(p)]
             /\ p # o => M.rows[OpKey(p)] = L.rows[OpKey(p)]
             /\ alreadyRefundedManna(M, p) = alreadyRefundedManna(L, p)
  <2>1. /\ refundIdempotencyKey(p) \in Key \ {OpKey(o)}
        /\ settleReservationIdempotencyKey(p) \in Key \ {OpKey(o)}
        /\ p # o => OpKey(p) \in Key \ {OpKey(o)}
    BY KeyTypes, KeysDiffer
  <2> QED
    BY <1>1, <2>1 DEF alreadyRefundedManna, LegAmount, Applied
<1>3. ~Applied(L, refundIdempotencyKey(o)) /\ ~Applied(L, settleReservationIdempotencyKey(o))
  BY DEF SoundLedger, LegsSound, LegKeys, IsDebit
<1>4. alreadyRefundedManna(L, o) = 0
  BY <1>3 DEF alreadyRefundedManna, LegAmount
<1>5. OpsSound(M)
  <2> SUFFICES ASSUME NEW p \in Ops, Applied(M, OpKey(p))
               PROVE  M.rows[OpKey(p)].refunds = NoOp
    BY DEF OpsSound
  <2> QED
    BY <1>1, <1>2 DEF SoundLedger, OpsSound, Applied
<1>6. ReversalFinal(M)
  <2> SUFFICES ASSUME NEW p \in Ops, Applied(M, refundIdempotencyKey(p))
               PROVE  alreadyRefundedManna(M, p) = Reserved(M, p)
    BY DEF ReversalFinal
  <2>1. Applied(L, refundIdempotencyKey(p)) /\ p # o
    BY <1>2, <1>3 DEF Applied
  <2> QED
    BY <1>2, <2>1 DEF SoundLedger, ReversalFinal, Reserved
<1>7. LegsSound(M)
  <2> SUFFICES ASSUME NEW p \in Ops
               PROVE  /\ \A k \in LegKeys(p) :
                           Applied(M, k) => /\ IsDebit(M, p)
                                            /\ M.rows[k].amount > 0
                                            /\ M.rows[k].refunds = p
                                            /\ M.rows[k].acct = PayerOf(M, p)
                      /\ IsDebit(M, p) => alreadyRefundedManna(M, p) <= Reserved(M, p)
    BY DEF LegsSound
  <2>1. CASE p = o
    <3>1. \A k \in LegKeys(p) : ~Applied(M, k)
      BY <1>2, <1>3, <2>1 DEF LegKeys, Applied
    <3>2. IsDebit(M, p) => Reserved(M, p) \in Nat
      BY <1>1, DebitFacts
    <3>3. IsDebit(M, p) => alreadyRefundedManna(M, p) <= Reserved(M, p)
      BY <1>2, <1>4, <2>1, <3>2
    <3> QED
      BY <3>1, <3>3
  <2>2. CASE p # o
    BY <1>2, <2>2 DEF SoundLedger, LegsSound, LegKeys, Applied, IsDebit, Reserved, PayerOf
  <2> QED
    BY <2>1, <2>2
<1> QED
  BY <1>1, <1>2, <1>4, <1>5, <1>6, <1>7 DEF SoundLedger

\* What a refund leg of n manna for o leaves behind (refundLeg's write).
LegWritten(L, M, o, n) ==
  /\ SoundLedger(M)
  /\ \A p \in Ops : M.rows[OpKey(p)] = L.rows[OpKey(p)]
  /\ \A p \in Ops \ {o} : alreadyRefundedManna(M, p) = alreadyRefundedManna(L, p)
  /\ alreadyRefundedManna(M, o) = alreadyRefundedManna(L, o) + n

\* A leg under a free key, of at most what is left: all of it for a reversal.
LEMMA LegPreservesSound ==
  ASSUME NEW L, SoundLedger(L), NEW M, NEW o \in Ops, IsDebit(L, o),
         NEW k \in LegKeys(o), NEW r \in Row, NEW ds, NEW db,
         Inserted(L, M, k, r, ds, db), ~Applied(L, k),
         r.acct = PayerOf(L, o), r.refunds = o, r.amount > 0,
         r.amount <= Reserved(L, o) - alreadyRefundedManna(L, o),
         k = refundIdempotencyKey(o) =>
           r.amount = Reserved(L, o) - alreadyRefundedManna(L, o)
  PROVE  LegWritten(L, M, o, r.amount)
<1> DEFINE rk == refundIdempotencyKey(o)
           sk == settleReservationIdempotencyKey(o)
<1>0. k \in Key /\ rk \in Key /\ sk \in Key /\ rk # sk /\ (k = rk \/ k = sk)
  BY KeyTypes, KeysDiffer DEF LegKeys
<1>1. /\ M \in Ledger
      /\ M.rows[k] = r
      /\ \A j \in Key \ {k} : M.rows[j] = L.rows[j]
  BY DEF Inserted
<1>2. r \in Row /\ r.amount \in Int /\ r # NoRow
  BY NoRowAssumption DEF Row
<1>3. ASSUME NEW p \in Ops
      PROVE  M.rows[OpKey(p)] = L.rows[OpKey(p)]
  <2>1. OpKey(p) \in Key \ {k}
    BY <1>0, KeyTypes, KeysDiffer
  <2> QED
    BY <1>1, <2>1
<1>4. ASSUME NEW p \in Ops \ {o}
      PROVE  /\ M.rows[refundIdempotencyKey(p)] = L.rows[refundIdempotencyKey(p)]
             /\ M.rows[settleReservationIdempotencyKey(p)]
                  = L.rows[settleReservationIdempotencyKey(p)]
             /\ alreadyRefundedManna(M, p) = alreadyRefundedManna(L, p)
  <2>1. /\ refundIdempotencyKey(p) \in Key \ {k}
        /\ settleReservationIdempotencyKey(p) \in Key \ {k}
    BY <1>0, KeyTypes, KeysDiffer
  <2> QED
    BY <1>1, <2>1 DEF alreadyRefundedManna, LegAmount, Applied
<1>5. LegAmount(L, rk) \in Int /\ LegAmount(L, sk) \in Int
  BY RefundedType DEF SoundLedger
<1>6. alreadyRefundedManna(M, o) = alreadyRefundedManna(L, o) + r.amount
  <2>1. CASE k = rk
    <3>1. LegAmount(M, rk) = r.amount /\ LegAmount(L, rk) = 0
          /\ LegAmount(M, sk) = LegAmount(L, sk)
      BY <1>0, <1>1, <1>2, <2>1 DEF LegAmount, Applied
    <3> QED
      BY <1>2, <1>5, <3>1 DEF alreadyRefundedManna
  <2>2. CASE k = sk
    <3>1. LegAmount(M, sk) = r.amount /\ LegAmount(L, sk) = 0
          /\ LegAmount(M, rk) = LegAmount(L, rk)
      BY <1>0, <1>1, <1>2, <2>2 DEF LegAmount, Applied
    <3> QED
      BY <1>2, <1>5, <3>1 DEF alreadyRefundedManna
  <2> QED
    BY <1>0, <2>1, <2>2
<1>7. Reserved(L, o) \in Nat /\ alreadyRefundedManna(L, o) \in Int
  BY DebitFacts, RefundedType DEF SoundLedger
<1>8. OpsSound(M)
  BY <1>3 DEF SoundLedger, OpsSound, Applied
<1>9. ReversalFinal(M)
  <2> SUFFICES ASSUME NEW p \in Ops, Applied(M, refundIdempotencyKey(p))
               PROVE  alreadyRefundedManna(M, p) = Reserved(M, p)
    BY DEF ReversalFinal
  <2>1. CASE p # o
    BY <1>3, <1>4, <2>1 DEF SoundLedger, ReversalFinal, Reserved, Applied
  <2>2. CASE p = o /\ k = rk
    BY <1>2, <1>3, <1>6, <1>7, <2>2 DEF Reserved
  <2>3. CASE p = o /\ k = sk
    <3>1. Applied(L, rk)
      BY <1>0, <1>1, <2>3 DEF Applied
    <3>2. alreadyRefundedManna(L, o) = Reserved(L, o)
      BY <3>1 DEF SoundLedger, ReversalFinal
    <3> QED
      BY <1>2, <1>7, <3>2
  <2> QED
    BY <1>0, <2>1, <2>2, <2>3
<1>10. LegsSound(M)
  <2> SUFFICES ASSUME NEW p \in Ops
               PROVE  /\ \A j \in LegKeys(p) :
                           Applied(M, j) => /\ IsDebit(M, p)
                                            /\ M.rows[j].amount > 0
                                            /\ M.rows[j].refunds = p
                                            /\ M.rows[j].acct = PayerOf(M, p)
                      /\ IsDebit(M, p) => alreadyRefundedManna(M, p) <= Reserved(M, p)
    BY DEF LegsSound
  <2>1. CASE p # o
    BY <1>3, <1>4, <2>1 DEF SoundLedger, LegsSound, LegKeys, Applied, IsDebit, Reserved, PayerOf
  <2>2. CASE p = o
    <3>1. IsDebit(M, o) /\ PayerOf(M, o) = PayerOf(L, o) /\ Reserved(M, o) = Reserved(L, o)
      BY <1>3 DEF IsDebit, Applied, PayerOf, Reserved
    <3>2. alreadyRefundedManna(M, o) <= Reserved(M, o)
      BY <1>2, <1>6, <1>7, <3>1
    <3>3. ASSUME NEW j \in LegKeys(o), j # k, Applied(M, j)
          PROVE  M.rows[j].amount > 0 /\ M.rows[j].refunds = o
                 /\ M.rows[j].acct = PayerOf(M, o)
      <4>1. j \in Key \ {k} /\ M.rows[j] = L.rows[j]
        BY <1>0, <1>1, <3>3 DEF LegKeys
      <4> QED
        BY <3>1, <3>3, <4>1 DEF SoundLedger, LegsSound, Applied
    <3> QED
      BY <1>1, <2>2, <3>1, <3>2, <3>3
  <2> QED
    BY <2>1, <2>2
<1> QED
  BY <1>1, <1>3, <1>4, <1>6, <1>8, <1>9, <1>10 DEF SoundLedger, LegWritten
=============================================================================
