----------------------- MODULE TurnAuthorizationProofs -----------------------
(***************************************************************************)
(* The properties of TurnAuthorization, proved for any turns, payers,      *)
(* ceilings and amounts.                                                   *)
(***************************************************************************)
EXTENDS TurnAuthorization, MannaOpsProofs

-----------------------------------------------------------------------------
(* What settling and reversing do to a reservation that holds everything.  *)

\* A debit none of which was returned has no leg under either key.
LEMMA NoLegs ==
  ASSUME NEW L, SoundLedger(L), NEW o \in Ops, alreadyRefundedManna(L, o) = 0
  PROVE  /\ ~Applied(L, refundIdempotencyKey(o))
         /\ ~Applied(L, settleReservationIdempotencyKey(o))
<1> DEFINE rk == refundIdempotencyKey(o)
           sk == settleReservationIdempotencyKey(o)
<1>1. \A k \in LegKeys(o) : Applied(L, k) => L.rows[k].amount > 0
  BY DEF SoundLedger, LegsSound
<1>2. rk \in LegKeys(o) /\ sk \in LegKeys(o) /\ rk \in Key /\ sk \in Key
  BY KeyTypes DEF LegKeys
<1>3. \A k \in {rk, sk} : Applied(L, k) => L.rows[k].amount \in Int
  BY <1>2, RowTypes DEF SoundLedger
<1>4. LegAmount(L, rk) + LegAmount(L, sk) = 0
  BY DEF alreadyRefundedManna
<1> HIDE DEF rk, sk
<1> QED
  BY <1>1, <1>2, <1>3, <1>4 DEF LegAmount, rk, sk

\* A refund leg within what its debit still holds keeps the ledger sound.
LEMMA LegWrites ==
  ASSUME NEW L, SoundLedger(L), NEW o \in Ops, IsDebit(L, o), NEW k \in LegKeys(o),
         ~Applied(L, k), NEW n \in Nat \ {0}, NEW s \in Int,
         n <= Reserved(L, o) - alreadyRefundedManna(L, o),
         k = refundIdempotencyKey(o) => n = Reserved(L, o) - alreadyRefundedManna(L, o)
  PROVE  LegWritten(L, creditLeg(L, o, k, n, s), o, n)
<1> DEFINE r == [acct |-> PayerOf(L, o), amount |-> n, refunds |-> o]
           M == creditLeg(L, o, k, n, s)
           ds == LegShare(n, s)
           db == n - ds
<1>1. L \in Ledger /\ PayerOf(L, o) \in Accounts /\ k \in Key
  BY DebitFacts, KeyTypes DEF SoundLedger, LegKeys
<1>2. Inserted(L, M, k, r, ds, db)
  BY <1>1, CreditLegInserts
<1>3. r \in Row /\ r.amount = n /\ r.refunds = o /\ r.acct = PayerOf(L, o)
  BY <1>1 DEF Row
<1> HIDE DEF r, M, ds, db
<1>4. /\ r.amount > 0 /\ r.amount <= Reserved(L, o) - alreadyRefundedManna(L, o)
      /\ k = refundIdempotencyKey(o) =>
           r.amount = Reserved(L, o) - alreadyRefundedManna(L, o)
  BY <1>3
<1>5. LegWritten(L, M, o, r.amount)
  BY <1>2, <1>3, <1>4, LegPreservesSound
<1>6. LegWritten(L, M, o, n)
  BY <1>3, <1>5
<1> QED
  BY <1>6 DEF M

\* settleReservation of a reservation that holds everything returns what the
\* charge leaves of it.
LEMMA SettleWrites ==
  ASSUME NEW L, SoundLedger(L), NEW o \in Ops, IsDebit(L, o),
         alreadyRefundedManna(L, o) = 0, NEW c \in Nat, NEW d \in Nat,
         SettleCommits(L, o, c)
  PROVE  /\ c <= Reserved(L, o)
         /\ LegWritten(L, settleReservation(L, o, c, d), o, Reserved(L, o) - c)
<1> DEFINE k == settleReservationIdempotencyKey(o)
           n == Reserved(L, o) - c
           s == UnusedSubscription(c, d)
<1>1. ~Applied(L, k) /\ Reserved(L, o) \in Nat \ {0}
  BY NoLegs, DebitFacts DEF SoundLedger
<1>2. c <= Reserved(L, o)
  BY DEF SettleCommits, Chargeable
<1>3. LegOpen(L, o, k, TRUE, n)
  BY <1>1 DEF SettleCommits, LegCommits, LegReplays
<1>4. CASE n > 0
  <2>1. settleReservation(L, o, c, d) = creditLeg(L, o, k, n, s)
    BY <1>3, <1>4 DEF settleReservation, refundLeg, LegApplies, Requested
  <2>2. k \in LegKeys(o) /\ k # refundIdempotencyKey(o) /\ s \in Int
    BY KeysDiffer DEF LegKeys, UnusedSubscription, Max0, Least
  <2>3. n \in Nat \ {0} /\ n <= Reserved(L, o) - alreadyRefundedManna(L, o)
    BY <1>1, <1>2, <1>4
  <2>4. LegWritten(L, creditLeg(L, o, k, n, s), o, n)
    <3> HIDE DEF k, n, s
    <3> QED  BY <1>1, <2>2, <2>3, LegWrites
  <2> QED
    BY <1>2, <2>1, <2>4
<1>5. CASE n = 0
  <2>1. ~LegApplies(L, o, k, TRUE, n)
    <3> HIDE DEF n, k
    <3> QED  BY <1>5 DEF LegApplies, Requested
  <2>2. settleReservation(L, o, c, d) = L
    BY <2>1 DEF settleReservation, refundLeg
  <2> QED
    BY <1>2, <1>5, <2>2, RefundedType DEF LegWritten, SoundLedger
<1> QED
  BY <1>1, <1>2, <1>4, <1>5

\* reverseReservation of a reservation that holds everything returns it all.
LEMMA ReverseWrites ==
  ASSUME NEW L, SoundLedger(L), NEW o \in Ops, IsDebit(L, o),
         alreadyRefundedManna(L, o) = 0, NEW d \in Nat
  PROVE  LegWritten(L, reverseReservation(L, o, d), o, Reserved(L, o))
<1> DEFINE k == refundIdempotencyKey(o)
           n == Reserved(L, o)
           s == ReversedSubscription(L, o, d)
<1>1. ~Applied(L, k) /\ n \in Nat \ {0}
  BY NoLegs, DebitFacts DEF SoundLedger
<1>2. Refundable(L, o) = n
  BY <1>1 DEF Refundable, Max0
<1>3. \A b \in BOOLEAN : LegApplies(L, o, k, b, n) /\ Requested(L, o, b, n) = n
  BY <1>1, <1>2 DEF LegApplies, LegOpen, Requested
<1>4. reverseReservation(L, o, d) = creditLeg(L, o, k, n, s)
  <2>1. (n > 0) \in BOOLEAN
    BY <1>1
  <2>2. LegApplies(L, o, k, n > 0, n) /\ Requested(L, o, n > 0, n) = n
    BY <1>3, <2>1
  <2> QED
    BY <1>2, <2>2 DEF reverseReservation, refundLeg
<1>5. k \in LegKeys(o) /\ s \in Int /\ n = Reserved(L, o) - alreadyRefundedManna(L, o)
  BY <1>1, <1>2 DEF LegKeys, ReversedSubscription, Least
<1>6. LegWritten(L, creditLeg(L, o, k, n, s), o, n)
  <2> HIDE DEF k, n, s
  <2>1. n <= Reserved(L, o) - alreadyRefundedManna(L, o)
    BY <1>1, <1>5
  <2> QED  BY <1>1, <1>5, <2>1, LegWrites
<1> QED
  BY <1>4, <1>6

-----------------------------------------------------------------------------
(* The inductive invariant.                                                *)

\* Beyond the properties: the ledger is sound, a ticket belongs to a turn that
\* was authorized, and no reversal waits for a turn that was marked when none
\* was waiting.
MarkKept(t) ==
  run[t] = "output" /\ t \notin raced => ~Waiting(t) /\ authz[t].state \notin Refunded

IInv ==
  /\ TypeOK
  /\ SoundLedger(ledger)
  /\ MoneyMatchesState
  /\ SettledUsageExact
  /\ \A t \in Turns :
       /\ run[t] # "none" => authz[t].state # "none"
       /\ MarkKept(t)

\* MoneyMatchesState for one turn.
MoneyOf(t) ==
  IF authz[t].state = "none" THEN ~Applied(ledger, OpKey(t))
  ELSE /\ IsDebit(ledger, t)
       /\ PayerOf(ledger, t) = Payer[t]
       /\ Reserved(ledger, t) = Max[t]
       /\ authz[t].charged <= Max[t]
       /\ alreadyRefundedManna(ledger, t) = Returned(t)

\* The initial state satisfies the invariant: no row, no authorization.
LEMMA InitIInv ==
  Init => IInv
<1> SUFFICES ASSUME Init PROVE IInv
  OBVIOUS
<1>1. ledger \in Ledger
  BY DEF Init, NoTurns, EmptyLedger, Ledger
<1>2. \A k \in Key : ~Applied(ledger, k)
  BY DEF Init, NoTurns, EmptyLedger, Applied
<1>3. \A o \in Ops : /\ ~Applied(ledger, OpKey(o))
                     /\ \A k \in LegKeys(o) : ~Applied(ledger, k)
                     /\ ~Applied(ledger, refundIdempotencyKey(o))
  BY <1>2, KeyTypes DEF LegKeys
<1>4. SoundLedger(ledger)
  BY <1>1, <1>3 DEF SoundLedger, LegsSound, OpsSound, ReversalFinal, IsDebit
<1>5. TypeOK
  BY <1>1 DEF TypeOK, Init, NoTurns, Authorization, Usage
<1>6. MoneyMatchesState /\ SettledUsageExact
  BY <1>3, TurnsAssumption DEF Init, NoTurns, MoneyMatchesState, SettledUsageExact
<1> QED
  BY <1>4, <1>5, <1>6 DEF IInv, Init, NoTurns, MarkKept

\* A turn whose own rows and authorization a step leaves alone stays right.
LEMMA MoneyFrame ==
  ASSUME NEW t \in Turns, MoneyOf(t), authz'[t] = authz[t],
         ledger'.rows[OpKey(t)] = ledger.rows[OpKey(t)],
         alreadyRefundedManna(ledger', t) = alreadyRefundedManna(ledger, t)
  PROVE  MoneyOf(t)'
BY DEF MoneyOf, Returned, IsDebit, Applied, PayerOf, Reserved

\* The parts of the invariant that only authz, run, usage and reversing show.
LEMMA Unfolded ==
  ASSUME IInv, NEW t \in Turns
  PROVE  /\ SoundLedger(ledger) /\ ledger \in Ledger /\ MoneyOf(t)
         /\ t \in Ops /\ Payer[t] \in Accounts /\ Max[t] \in Nat \ {0}
         /\ authz[t] \in Authorization /\ authz[t].share \in Nat
BY TurnsAssumption, AmountsAssumption
   DEF IInv, SoundLedger, MoneyMatchesState, MoneyOf, TypeOK, Authorization

\* markTurnSettled with settleReservation: the money follows the new state.
LEMMA SettledStep ==
  ASSUME IInv, NEW t \in Turns, NEW c \in Nat, Settled(t, c)
  PROVE  /\ SoundLedger(ledger')
         /\ authz' \in [Turns -> Authorization]
         /\ authz'[t].state = "settled" /\ authz'[t].charged = c
         /\ \A u \in Turns \ {t} : authz'[u] = authz[u]
         /\ \A u \in Turns : MoneyOf(u)'
<1>1. /\ SoundLedger(ledger) /\ ledger \in Ledger /\ MoneyOf(t)
      /\ t \in Ops /\ Max[t] \in Nat \ {0} /\ authz[t].share \in Nat
  BY Unfolded
<1>2. /\ authz[t].state = "reserved" /\ SettleCommits(ledger, t, c)
      /\ ledger' = settleReservation(ledger, t, c, authz[t].share)
      /\ authz' = [authz EXCEPT ![t].state = "settled", ![t].charged = c]
  BY DEF Settled, IsReserved
<1>3. /\ IsDebit(ledger, t) /\ Reserved(ledger, t) = Max[t]
      /\ PayerOf(ledger, t) = Payer[t] /\ alreadyRefundedManna(ledger, t) = 0
  BY <1>1, <1>2 DEF MoneyOf, Returned
<1>4. c <= Reserved(ledger, t) /\ LegWritten(ledger, ledger', t, Reserved(ledger, t) - c)
  BY <1>1, <1>2, <1>3, SettleWrites
<1>5. /\ authz \in [Turns -> Authorization]
      /\ authz' \in [Turns -> Authorization]
      /\ authz'[t].state = "settled" /\ authz'[t].charged = c
      /\ \A u \in Turns \ {t} : authz'[u] = authz[u]
  BY <1>2 DEF IInv, TypeOK, Authorization, Terminal
<1>6. MoneyOf(t)'
  <2>1. ledger'.rows[OpKey(t)] = ledger.rows[OpKey(t)]
    BY <1>1, <1>4 DEF LegWritten
  <2>2. /\ IsDebit(ledger', t) /\ Reserved(ledger', t) = Max[t]
        /\ PayerOf(ledger', t) = Payer[t]
    BY <1>3, <2>1 DEF IsDebit, Applied, Reserved, PayerOf
  <2>3. alreadyRefundedManna(ledger', t) = Max[t] - c
    BY <1>1, <1>3, <1>4 DEF LegWritten
  <2> QED
    BY <1>3, <1>4, <1>5, <2>2, <2>3 DEF MoneyOf, Returned
<1>7. \A u \in Turns \ {t} : MoneyOf(u)'
  BY <1>4, <1>5, Unfolded, MoneyFrame DEF LegWritten
<1> QED
  BY <1>4, <1>5, <1>6, <1>7 DEF LegWritten

\* A step that leaves a turn's ticket, the waiting reversals and the marks
\* alone, and does not refund the turn, keeps its mark.
LEMMA MarkFrame ==
  ASSUME NEW t \in Turns, MarkKept(t), UNCHANGED <<reversing, raced>>, run'[t] = run[t],
         authz'[t] = authz[t] \/ authz'[t].state \notin Refunded
  PROVE  MarkKept(t)'
BY DEF MarkKept, Waiting, Refunded

\* What every action has to establish, given what it does to the money.
LEMMA Conclude ==
  ASSUME TypeOK', SoundLedger(ledger'), \A t \in Turns : MoneyOf(t)', SettledUsageExact',
         \A t \in Turns :
           /\ run'[t] # "none" => authz'[t].state # "none"
           /\ MarkKept(t)'
  PROVE  IInv'
BY DEF IInv, MoneyMatchesState, MoneyOf

\* The strengthened form of TerminalIsFinal for one step.
KeepsOutcomes ==
  \A t \in Turns :
    /\ authz[t].state \in Terminal => authz'[t] = authz[t]
    /\ usage[t].status \in {"completed", "error"} => usage'[t] = usage[t]
    /\ run[t] = "output" => run'[t] = "output"

\* Every transaction of the kernel preserves the invariant and changes nothing
\* that is terminal.
LEMMA NextIInv ==
  IInv /\ [Next]_vars => IInv' /\ KeepsOutcomes
<1> SUFFICES ASSUME IInv, [Next]_vars  PROVE IInv' /\ KeepsOutcomes
  OBVIOUS
<1> USE DEF KeepsOutcomes
<1>a. /\ TypeOK /\ SoundLedger(ledger) /\ ledger \in Ledger
      /\ \A t \in Turns : MoneyOf(t)
      /\ authz \in [Turns -> Authorization] /\ usage \in [Turns -> Usage]
      /\ run \in [Turns -> {"none", "started", "output"}] 
      /\ reversing \subseteq Turns \X Refunded /\ raced \subseteq Turns
  BY Unfolded DEF IInv, TypeOK
<1>b. /\ SettledUsageExact
      /\ \A t \in Turns :
           /\ run[t] # "none" => authz[t].state # "none"
           /\ MarkKept(t)
  BY DEF IInv
<1>1. ASSUME NEW a \in Accounts, NEW n \in Amounts, NEW o \in Ops, NEW s \in BOOLEAN,
             Fund(a, n, o, s)
      PROVE  IInv' /\ KeepsOutcomes
  <2> DEFINE r == [acct |-> a, amount |-> n, refunds |-> NoOp]
  <2>1. n \in Nat \ {0}
    BY AmountsAssumption
  <2>2. /\ o \notin Turns /\ ~Applied(ledger, OpKey(o))
        /\ ledger' = credit(ledger, a, n, o, s) /\ UNCHANGED <<authz, run, usage, reversing, raced>>
    BY <1>1 DEF Fund
  <2>3. PICK ds \in Int, db \in Int : Inserted(ledger, ledger', OpKey(o), r, ds, db)
    BY <1>a, <2>1, <2>2, CreditInserts
  <2>4. r \in Row /\ r.refunds = NoOp
    BY <2>1 DEF Row
  <2>5. /\ SoundLedger(ledger')
        /\ \A p \in Ops : alreadyRefundedManna(ledger', p) = alreadyRefundedManna(ledger, p)
        /\ \A p \in Ops \ {o} : ledger'.rows[OpKey(p)] = ledger.rows[OpKey(p)]
    <3> HIDE DEF r
    <3> QED  BY <1>a, <2>2, <2>3, <2>4, OpPreservesSound
  <2>6. \A t \in Turns : MoneyOf(t)'
    BY <1>a, <2>2, <2>5, MoneyFrame, TurnsAssumption
  <2>7. TypeOK' /\ SettledUsageExact'
    BY <1>a, <1>b, <2>2, <2>5 DEF TypeOK, SoundLedger, SettledUsageExact
  <2>8. \A t \in Turns : MarkKept(t)'
    BY <1>b, <2>2, MarkFrame
  <2> QED
    BY <1>b, <2>2, <2>5, <2>6, <2>7, <2>8, Conclude
<1>2. ASSUME NEW t \in Turns, reserveAuthorization(t)
      PROVE  IInv' /\ KeepsOutcomes
  <2> DEFINE n == Max[t]
             a == Payer[t]
             r == [acct |-> a, amount |-> -n, refunds |-> NoOp]
             d == subscriptionDrawn(ledger, a, n)
  <2>1. n \in Nat \ {0} /\ a \in Accounts /\ t \in Ops
    BY Unfolded
  <2>2. /\ ~Applied(ledger, OpKey(t)) /\ authz[t].state = "none"
        /\ CanCover(ledger, a, n) /\ ledger' = debit(ledger, a, n, t)
        /\ authz' = [authz EXCEPT ![t] = [state |-> "reserved", share |-> d, charged |-> 0]]
        /\ UNCHANGED <<run, usage, reversing, raced>>
    BY <1>2 DEF reserveAuthorization
  <2>3. Inserted(ledger, ledger', OpKey(t), r, -d, -(n - d)) /\ d \in 0..n
    BY <1>a, <2>1, <2>2, DebitInserts
  <2>4. r \in Row /\ r.refunds = NoOp /\ r.acct = a /\ r.amount = -n
    BY <2>1 DEF Row
  <2>5. /\ SoundLedger(ledger')
        /\ \A p \in Ops : alreadyRefundedManna(ledger', p) = alreadyRefundedManna(ledger, p)
        /\ \A p \in Ops \ {t} : ledger'.rows[OpKey(p)] = ledger.rows[OpKey(p)]
        /\ alreadyRefundedManna(ledger, t) = 0
    <3> HIDE DEF r, d, n, a
    <3>1. SoundLedger(ledger) /\ ~Applied(ledger, OpKey(t))
      BY <1>a, <2>2
    <3> QED  BY <2>1, <2>3, <2>4, <3>1, OpPreservesSound
  <2>6. ledger'.rows[OpKey(t)] = r
    BY <2>3 DEF Inserted
  <2>7. /\ authz'[t] = [state |-> "reserved", share |-> d, charged |-> 0]
        /\ authz' \in [Turns -> Authorization]
        /\ \A u \in Turns \ {t} : authz'[u] = authz[u]
    BY <1>a, <2>1, <2>2, <2>3 DEF Authorization
  <2>8. MoneyOf(t)'
    <3>1. /\ IsDebit(ledger', t) /\ Reserved(ledger', t) = n /\ PayerOf(ledger', t) = a
      <4> HIDE DEF r
      <4> QED  BY <2>1, <2>4, <2>6, NoRowAssumption
                 DEF IsDebit, Applied, Reserved, PayerOf
    <3> QED
      BY <2>1, <2>5, <2>7, <3>1 DEF MoneyOf, Returned
  <2>9. \A u \in Turns \ {t} : MoneyOf(u)'
    BY <1>a, <2>5, <2>7, MoneyFrame, TurnsAssumption
  <2>10. TypeOK' /\ SettledUsageExact'
    BY <1>a, <1>b, <2>2, <2>5, <2>7 DEF TypeOK, SoundLedger, SettledUsageExact
  <2>11. \A u \in Turns : /\ run'[u] # "none" => authz'[u].state # "none"
                          /\ MarkKept(u)'
    BY <1>b, <2>2, <2>7, MarkFrame DEF Refunded
  <2>12. KeepsOutcomes
    BY <2>2, <2>7 DEF Terminal
  <2> QED
    BY <2>5, <2>8, <2>9, <2>10, <2>11, <2>12, Conclude
<1>3. ASSUME NEW t \in Turns, claimTurnProviderStart(t)
      PROVE  IInv' /\ KeepsOutcomes
  <2>1. UNCHANGED <<ledger, authz, reversing, raced>> /\ authz[t].state = "reserved"
    BY <1>3 DEF claimTurnProviderStart, IsReserved
  <2>2. TypeOK' /\ SettledUsageExact' /\ KeepsOutcomes
    BY <1>3, <1>a, <1>b, <2>1
       DEF claimTurnProviderStart, TypeOK, Usage, SettledUsageExact, Terminal
  <2>3. \A u \in Turns : MoneyOf(u)'
    BY <1>a, <2>1, MoneyFrame
  <2>4. \A u \in Turns : run'[u] # "none" => authz[u].state # "none"
    BY <1>3, <1>a, <1>b, <2>1 DEF claimTurnProviderStart
  <2>5. \A u \in Turns : MarkKept(u)'
    <3>1. run'[t] = "started" /\ \A u \in Turns \ {t} : run'[u] = run[u]
      BY <1>3, <1>a DEF claimTurnProviderStart
    <3>2. MarkKept(t)'
      BY <3>1 DEF MarkKept
    <3> QED
      BY <1>b, <2>1, <3>1, <3>2, MarkFrame
  <2> QED
    BY <1>a, <1>b, <2>1, <2>2, <2>3, <2>4, <2>5, Conclude
<1>4. ASSUME NEW t \in Turns, markTurnUsableOutput(t)
      PROVE  IInv' /\ KeepsOutcomes
  <2>1. UNCHANGED <<ledger, authz, usage, reversing>> /\ authz[t].state = "reserved"
    BY <1>4 DEF markTurnUsableOutput, IsReserved
  <2>2. TypeOK' /\ SettledUsageExact' /\ KeepsOutcomes
    BY <1>4, <1>a, <1>b, <2>1 DEF markTurnUsableOutput, TypeOK, SettledUsageExact
  <2>3. \A u \in Turns : MoneyOf(u)'
    BY <1>a, <2>1, MoneyFrame
  <2>4. \A u \in Turns : run'[u] # "none" => authz[u].state # "none"
    BY <1>4, <1>a, <1>b, <2>1 DEF markTurnUsableOutput
  <2>5. \A u \in Turns : MarkKept(u)'
    <3>1. \A u \in Turns \ {t} : run'[u] = run[u] /\ (u \in raced' <=> u \in raced)
      BY <1>4, <1>a DEF markTurnUsableOutput
    <3>2. t \notin raced' => ~Waiting(t)'
      BY <1>4, <2>1 DEF markTurnUsableOutput, Waiting
    <3>3. MarkKept(t)'
      BY <2>1, <3>2 DEF MarkKept, Refunded
    <3>4. ASSUME NEW u \in Turns \ {t}  PROVE MarkKept(u)'
      BY <1>b, <2>1, <3>1 DEF MarkKept, Waiting
    <3> QED
      BY <3>3, <3>4
  <2> QED
    BY <1>a, <1>b, <2>1, <2>2, <2>3, <2>4, <2>5, Conclude
<1>5. ASSUME NEW t \in Turns, NEW c \in Nat, NEW w, NEW st \in {"completed", "error"},
             Settled(t, c), w \subseteq {"none", "provider_admitted"},
             UsageTruth(t, w, [status |-> st, manna |-> c]), UNCHANGED <<run, reversing, raced>>
      PROVE  IInv' /\ KeepsOutcomes
  <2> DEFINE row == [status |-> st, manna |-> c]
  <2>1. /\ SoundLedger(ledger') /\ authz' \in [Turns -> Authorization]
        /\ authz'[t].state = "settled" /\ authz'[t].charged = c
        /\ \A u \in Turns \ {t} : authz'[u] = authz[u]
        /\ \A u \in Turns : MoneyOf(u)'
    BY <1>5, SettledStep
  <2>2. authz[t].state = "reserved"
    BY <1>5 DEF Settled, IsReserved
  <2>3. /\ usage' \in [Turns -> Usage] /\ usage'[t] = row
        /\ \A u \in Turns \ {t} : usage'[u] = usage[u]
        /\ usage[t].status \in {"completed", "error"} => usage[t] = row
    BY <1>5, <1>a DEF UsageTruth, Usage
  <2>4. TypeOK'
    BY <1>5, <1>a, <2>1, <2>3 DEF TypeOK, SoundLedger
  <2>5. SettledUsageExact'
    BY <1>5, <1>b, <2>1, <2>3 DEF SettledUsageExact
  <2>6. KeepsOutcomes
    BY <1>5, <2>1, <2>2, <2>3 DEF Terminal
  <2>7. \A u \in Turns : /\ run'[u] # "none" => authz'[u].state # "none"
                         /\ MarkKept(u)'
    BY <1>5, <1>b, <2>1, MarkFrame DEF Refunded
  <2> QED
    BY <2>1, <2>4, <2>5, <2>6, <2>7, Conclude
<1>6. ASSUME NEW t \in Turns, NEW c \in Amounts \cup {0}, settleTerminal(t, c)
      PROVE  IInv' /\ KeepsOutcomes
  <2>1. c \in Nat
    BY AmountsAssumption
  <2> QED
    BY <1>5, <1>6, <2>1 DEF settleTerminal
<1>7. ASSUME NEW t \in Turns, settlePartialOutputAuthorization(t)
      PROVE  IInv' /\ KeepsOutcomes
  <2>1. Max[t] \in Nat
    BY Unfolded
  <2> QED
    BY <1>5, <1>7, <2>1 DEF settlePartialOutputAuthorization
<1>8. ASSUME NEW t \in Turns, NEW s \in Refunded, beginReversal(t, s) \/ endReversal(t, s)
      PROVE  IInv' /\ KeepsOutcomes
  <2>1. UNCHANGED <<ledger, authz, run, usage, raced>> /\ reversing' \subseteq Turns \X Refunded
    BY <1>8, <1>a DEF beginReversal, endReversal
  <2>2. TypeOK' /\ SettledUsageExact'
    BY <1>a, <1>b, <2>1 DEF TypeOK, SettledUsageExact
  <2>3. \A u \in Turns : MoneyOf(u)'
    BY <1>a, <2>1, MoneyFrame
  <2>4. \A u \in Turns : run[u] = "output" /\ Waiting(u)' => Waiting(u)
    BY <1>8 DEF beginReversal, endReversal, Waiting
  <2>5. \A u \in Turns : MarkKept(u)'
    BY <1>b, <2>1, <2>4 DEF MarkKept
  <2> QED
    BY <1>a, <1>b, <2>1, <2>2, <2>3, <2>5, Conclude
<1>9. ASSUME NEW t \in Turns, NEW s \in Refunded, reverseTurnAuthorization(t, s)
      PROVE  IInv' /\ KeepsOutcomes
  <2>1. /\ t \in Ops /\ Max[t] \in Nat \ {0} /\ authz[t].share \in Nat
    BY Unfolded
  <2>2. /\ Waiting(t) /\ authz[t].state = "reserved" /\ reversing' \subseteq reversing
        /\ ledger' = reverseReservation(ledger, t, authz[t].share)
        /\ authz' = [authz EXCEPT ![t].state = s] /\ UNCHANGED <<run, usage, raced>>
    BY <1>9 DEF reverseTurnAuthorization, IsReserved, Waiting
  <2>3. /\ IsDebit(ledger, t) /\ Reserved(ledger, t) = Max[t] /\ authz[t].charged <= Max[t]
        /\ PayerOf(ledger, t) = Payer[t] /\ alreadyRefundedManna(ledger, t) = 0
    BY <1>a, <2>2 DEF MoneyOf, Returned
  <2>4. LegWritten(ledger, ledger', t, Max[t])
    BY <1>a, <2>1, <2>2, <2>3, ReverseWrites
  <2>5. /\ authz' \in [Turns -> Authorization]
        /\ authz'[t].state = s /\ authz'[t].charged = authz[t].charged
        /\ \A u \in Turns \ {t} : authz'[u] = authz[u]
    BY <1>a, <2>2 DEF Authorization, Terminal, Refunded
  <2>6. MoneyOf(t)'
    <3>1. ledger'.rows[OpKey(t)] = ledger.rows[OpKey(t)]
          /\ alreadyRefundedManna(ledger', t) = Max[t]
      BY <2>1, <2>3, <2>4 DEF LegWritten
    <3>2. /\ IsDebit(ledger', t) /\ Reserved(ledger', t) = Max[t]
          /\ PayerOf(ledger', t) = Payer[t]
      BY <2>3, <3>1 DEF IsDebit, Applied, Reserved, PayerOf
    <3> QED
      BY <2>3, <2>5, <3>1, <3>2 DEF MoneyOf, Returned, Refunded
  <2>7. \A u \in Turns \ {t} : MoneyOf(u)'
    BY <1>a, <2>4, <2>5, MoneyFrame, TurnsAssumption DEF LegWritten
  <2>8. SoundLedger(ledger') /\ TypeOK' /\ SettledUsageExact'
    BY <1>a, <1>b, <2>2, <2>4, <2>5 
       DEF TypeOK, SoundLedger, SettledUsageExact, LegWritten, Refunded
  <2>9. KeepsOutcomes
    BY <2>2, <2>5 DEF Terminal
  <2>10. \A u \in Turns : run'[u] # "none" => authz'[u].state # "none"
    BY <1>b, <2>2, <2>5 DEF Refunded
  <2>11. \A u \in Turns : MarkKept(u)'
    <3>1. \A u \in Turns : Waiting(u)' => Waiting(u)
      BY <2>2 DEF Waiting
    <3>2. MarkKept(t)'
      BY <1>b, <2>2, <3>1 DEF MarkKept
    <3> QED
      BY <1>b, <2>2, <2>5, <3>1, <3>2 DEF MarkKept
  <2> QED
    BY <2>6, <2>7, <2>8, <2>9, <2>10, <2>11, Conclude
<1>10. ASSUME NEW t \in Turns, NEW n \in {0, Max[t]}, recordUsageEvent(t, n)
       PROVE  IInv' /\ KeepsOutcomes
  <2>1. UNCHANGED <<ledger, authz, run, reversing, raced>> /\ n \in Nat
    BY <1>10, Unfolded DEF recordUsageEvent
  <2>2. /\ usage' \in [Turns -> Usage] /\ usage[t].status \in {"none", "provider_admitted"}
        /\ \A u \in Turns \ {t} : usage'[u] = usage[u]
    BY <1>10, <1>a, <2>1 DEF recordUsageEvent, Usage
  <2>3. TypeOK' /\ SettledUsageExact' /\ KeepsOutcomes
    BY <1>a, <1>b, <2>1, <2>2 DEF TypeOK, SettledUsageExact
  <2>4. \A u \in Turns : MoneyOf(u)'
    BY <1>a, <2>1, MoneyFrame
  <2>5. \A u \in Turns : MarkKept(u)'
    BY <1>b, <2>1, MarkFrame
  <2> QED
    BY <1>a, <1>b, <2>1, <2>3, <2>4, <2>5, Conclude
<1>11. ASSUME UNCHANGED vars
       PROVE  IInv' /\ KeepsOutcomes
  <2>1. TypeOK' /\ SettledUsageExact' /\ KeepsOutcomes
    BY <1>11, <1>a, <1>b DEF vars, TypeOK, SettledUsageExact
  <2>2. \A u \in Turns : MoneyOf(u)'
    BY <1>11, <1>a, MoneyFrame DEF vars
  <2>3. \A u \in Turns : MarkKept(u)'
    BY <1>11, <1>b, MarkFrame DEF vars
  <2> QED
    BY <1>11, <1>a, <1>b, <2>1, <2>2, <2>3, Conclude DEF vars
<1> QED
  BY <1>1, <1>2, <1>3, <1>4, <1>6, <1>7, <1>8, <1>9, <1>10, <1>11 DEF Next
-----------------------------------------------------------------------------
(* The theorems.                                                           *)

\* A ledger without rows is sound.
LEMMA EmptySound ==
  SoundLedger(EmptyLedger)
<1>1. EmptyLedger \in Ledger
  BY DEF EmptyLedger, Ledger
<1>2. \A k \in Key : ~Applied(EmptyLedger, k)
  BY DEF EmptyLedger, Applied
<1>3. \A o \in Ops : /\ ~Applied(EmptyLedger, OpKey(o))
                     /\ \A k \in LegKeys(o) : ~Applied(EmptyLedger, k)
                     /\ ~Applied(EmptyLedger, refundIdempotencyKey(o))
  BY <1>2, KeyTypes DEF LegKeys
<1> QED
  BY <1>1, <1>3 DEF SoundLedger, LegsSound, OpsSound, ReversalFinal, IsDebit

\* The payer has bought Funds; nothing is reserved, claimed or recorded.
\* A purchase before any turn: the state the compositions start in.
LEMMA FundedIInv ==
  ASSUME NoTurns, NEW a \in Accounts, NEW n \in Nat \ {0}, NEW o \in Ops \ Turns,
         NEW s \in BOOLEAN, ledger = credit(EmptyLedger, a, n, o, s)
  PROVE  IInv
<1> DEFINE r == [acct |-> a, amount |-> n, refunds |-> NoOp]
<1>1. EmptyLedger \in Ledger /\ Turns \subseteq Ops
  BY EmptySound, TurnsAssumption DEF SoundLedger
<1>2. PICK ds \in Int, db \in Int : Inserted(EmptyLedger, ledger, OpKey(o), r, ds, db)
  BY <1>1, CreditInserts
<1>3. r \in Row /\ r.refunds = NoOp /\ ~Applied(EmptyLedger, OpKey(o))
  BY KeyTypes DEF Row, EmptyLedger, Applied
<1>4. /\ SoundLedger(ledger)
      /\ \A p \in Ops \ {o} : ledger.rows[OpKey(p)] = EmptyLedger.rows[OpKey(p)]
  <2> HIDE DEF r
  <2> QED  BY <1>2, <1>3, EmptySound, OpPreservesSound
<1>5. \A t \in Turns : ~Applied(ledger, OpKey(t))
  BY <1>1, <1>4, KeyTypes DEF EmptyLedger, Applied
<1>6. TypeOK
  BY <1>4 DEF TypeOK, NoTurns, Authorization, Usage, SoundLedger
<1>7. MoneyMatchesState /\ SettledUsageExact
  BY <1>5 DEF NoTurns, MoneyMatchesState, SettledUsageExact
<1> QED
  BY <1>4, <1>6, <1>7 DEF IInv, NoTurns, MarkKept

\* reverseTurnAuthorization in one step: a reserved turn without output gives
\* everything back.
LEMMA ReverseAtOnceStep ==
  ASSUME IInv, NEW t \in Turns, NEW s \in Refunded, reverseAtOnce(t, s)
  PROVE  IInv' /\ KeepsOutcomes
<1>a. /\ TypeOK /\ SoundLedger(ledger) /\ ledger \in Ledger
      /\ \A u \in Turns : MoneyOf(u)
      /\ authz \in [Turns -> Authorization]
  BY Unfolded DEF IInv, TypeOK
<1>b. /\ SettledUsageExact
      /\ \A u \in Turns : /\ run[u] # "none" => authz[u].state # "none"
                          /\ MarkKept(u)
  BY DEF IInv
<1>1. t \in Ops /\ Max[t] \in Nat \ {0} /\ authz[t].share \in Nat
  BY Unfolded
<1>2. /\ authz[t].state = "reserved" /\ run[t] # "output"
      /\ ledger' = reverseReservation(ledger, t, authz[t].share)
      /\ authz' = [authz EXCEPT ![t].state = s]
      /\ UNCHANGED <<run, usage, reversing, raced>>
  BY DEF reverseAtOnce, IsReserved
<1>3. /\ IsDebit(ledger, t) /\ Reserved(ledger, t) = Max[t] /\ authz[t].charged <= Max[t]
      /\ PayerOf(ledger, t) = Payer[t] /\ alreadyRefundedManna(ledger, t) = 0
  BY <1>a, <1>2 DEF MoneyOf, Returned
<1>4. LegWritten(ledger, ledger', t, Max[t])
  BY <1>a, <1>1, <1>2, <1>3, ReverseWrites
<1>5. /\ authz' \in [Turns -> Authorization]
      /\ authz'[t].state = s /\ authz'[t].charged = authz[t].charged
      /\ \A u \in Turns \ {t} : authz'[u] = authz[u]
  BY <1>a, <1>2 DEF Authorization, Terminal, Refunded
<1>6. MoneyOf(t)'
  <2>1. ledger'.rows[OpKey(t)] = ledger.rows[OpKey(t)]
        /\ alreadyRefundedManna(ledger', t) = Max[t]
    BY <1>1, <1>3, <1>4 DEF LegWritten
  <2>2. /\ IsDebit(ledger', t) /\ Reserved(ledger', t) = Max[t]
        /\ PayerOf(ledger', t) = Payer[t]
    BY <1>3, <2>1 DEF IsDebit, Applied, Reserved, PayerOf
  <2> QED
    BY <1>3, <1>5, <2>1, <2>2 DEF MoneyOf, Returned, Refunded
<1>7. \A u \in Turns \ {t} : MoneyOf(u)'
  BY <1>a, <1>4, <1>5, MoneyFrame, TurnsAssumption DEF LegWritten
<1>8. SoundLedger(ledger') /\ TypeOK' /\ SettledUsageExact'
  BY <1>a, <1>b, <1>2, <1>4, <1>5
     DEF TypeOK, SoundLedger, SettledUsageExact, LegWritten, Refunded
<1>9. KeepsOutcomes
  BY <1>2, <1>5 DEF KeepsOutcomes, Terminal
<1>10. \A u \in Turns : run'[u] # "none" => authz'[u].state # "none"
  BY <1>b, <1>2, <1>5 DEF Refunded
<1>11. \A u \in Turns : MarkKept(u)'
  <2>1. MarkKept(t)'
    BY <1>2 DEF MarkKept
  <2>2. \A u \in Turns \ {t} : MarkKept(u)'
    BY <1>b, <1>2, <1>5 DEF MarkKept, Waiting
  <2> QED
    BY <2>1, <2>2
<1> QED
  BY <1>6, <1>7, <1>8, <1>9, <1>10, <1>11, Conclude

\* The invariant holds of every behaviour of the kernel's transactions.
LEMMA Inductive ==
  Spec => []IInv
<1>1. IInv /\ [Next]_vars => IInv'
  BY NextIInv
<1> QED
  BY InitIInv, <1>1, PTL DEF Spec

\* The types of the authorization, ticket and usage rows are right.
THEOREM TypeCorrect ==
  Spec => []TypeOK
<1>1. IInv => TypeOK
  BY DEF IInv
<1> QED
  BY Inductive, <1>1, PTL

\* turn_authorizations.state tells the truth about the reservation's money,
\* whichever of settlement, reversal and reaper wins.
THEOREM MoneyMatchesStateThm ==
  Spec => []MoneyMatchesState
<1>1. IInv => MoneyMatchesState
  BY DEF IInv
<1> QED
  BY Inductive, <1>1, PTL

\* The usage row of a settled turn states what the turn was charged.
THEOREM SettledUsageExactThm ==
  Spec => []SettledUsageExact
<1>1. IInv => SettledUsageExact
  BY DEF IInv
<1> QED
  BY Inductive, <1>1, PTL

\* reverseTurnAuthorization never refunds a turn whose output was marked
\* while no reversal was waiting, however many are tried afterwards.
THEOREM OutputIsPaidThm ==
  Spec => []OutputIsPaid
<1>1. IInv => OutputIsPaid
  <2> SUFFICES ASSUME IInv, NEW t \in Turns \ raced, run[t] = "output"
               PROVE  authz[t].state \in {"reserved", "settled"}
    BY DEF OutputIsPaid
  <2>1. authz[t].state \in {"none", "reserved", "settled", "reversed", "reaped"}
    BY DEF IInv, TypeOK, Authorization, Terminal
  <2>2. authz[t].state # "none" /\ authz[t].state \notin {"reversed", "reaped"}
    BY DEF IInv, MarkKept, Refunded
  <2> QED
    BY <2>1, <2>2
<1> QED
  BY Inductive, <1>1, PTL

\* No transaction changes a terminal authorization or usage row, or takes an
\* output mark back.
THEOREM TerminalIsFinalThm ==
  Spec => TerminalIsFinal
<1>1. IInv /\ [Next]_vars => [KeepsOutcomes]_vars
  BY NextIInv
<1>2. [KeepsOutcomes]_vars <=> [\A t \in Turns :
         /\ authz[t].state \in Terminal => authz'[t] = authz[t]
         /\ usage[t].status \in {"completed", "error"} => usage'[t] = usage[t]
         /\ run[t] = "output" => run'[t] = "output"]_vars
  BY DEF KeepsOutcomes
<1> QED
  BY Inductive, <1>1, <1>2, PTL DEF Spec, TerminalIsFinal
-----------------------------------------------------------------------------
(* The kernel implements the ledger's specification.                       *)

\* The operators of MannaLedger's own copy of MannaOps are this module's.
LEMMA SameOps ==
  ASSUME NEW L, NEW a, NEW n, NEW o, NEW s
  PROVE  /\ Money!Applied(L, Money!OpKey(o)) = Applied(L, OpKey(o))
         /\ Money!CanCover(L, a, n) = CanCover(L, a, n)
         /\ Money!subscriptionDrawn(L, a, n) = subscriptionDrawn(L, a, n)
         /\ Money!debit(L, a, n, o) = debit(L, a, n, o)
         /\ Money!credit(L, a, n, o, s) = credit(L, a, n, o, s)
         /\ Money!PayerOf(L, o) = PayerOf(L, o)
         /\ Money!EmptyLedger = EmptyLedger
BY DEF Money!Applied, Money!OpKey, Money!CanCover, Money!getBalance, Money!Least,
       Money!subscriptionDrawn, Money!debit, Money!Max0, Money!credit, Money!PayerOf,
       Money!EmptyLedger, Money!Key,
       Applied, OpKey, CanCover, getBalance, Least, subscriptionDrawn, debit, Max0, credit,
       PayerOf, EmptyLedger, Key

\* The same for the operators about refund legs.
LEMMA SameLegs ==
  ASSUME NEW L, NEW o, NEW c, NEW d
  PROVE  /\ Money!SettleApplies(L, o, c) = SettleApplies(L, o, c)
         /\ Money!settleReservation(L, o, c, d) = settleReservation(L, o, c, d)
         /\ Money!ReverseApplies(L, o) = ReverseApplies(L, o)
         /\ Money!reverseReservation(L, o, d) = reverseReservation(L, o, d)
<1>1. \A k : Money!Applied(L, k) = Applied(L, k)
  BY DEF Money!Applied, Applied
<1>2. /\ Money!OpKey(o) = OpKey(o)
      /\ Money!refundIdempotencyKey(o) = refundIdempotencyKey(o)
      /\ Money!settleReservationIdempotencyKey(o) = settleReservationIdempotencyKey(o)
  BY DEF Money!OpKey, Money!refundIdempotencyKey, Money!settleReservationIdempotencyKey,
         OpKey, refundIdempotencyKey, settleReservationIdempotencyKey
<1>3. /\ Money!IsDebit(L, o) = IsDebit(L, o) /\ Money!Reserved(L, o) = Reserved(L, o)
      /\ Money!PayerOf(L, o) = PayerOf(L, o)
  BY <1>1, <1>2 DEF Money!IsDebit, Money!Reserved, Money!PayerOf, IsDebit, Reserved, PayerOf
<1>4. \A x, y : Money!Max0(x) = Max0(x) /\ Money!Least(x, y) = Least(x, y)
  BY DEF Money!Max0, Money!Least, Max0, Least
<1>5. Money!Refundable(L, o) = Refundable(L, o)
  BY <1>1, <1>2, <1>3, <1>4
     DEF Money!Refundable, Money!alreadyRefundedManna, Money!LegAmount,
         Refundable, alreadyRefundedManna, LegAmount
<1>6. \A b, n : Money!Requested(L, o, b, n) = Requested(L, o, b, n)
  BY <1>5 DEF Money!Requested, Requested
<1>7. \A k, b, n : Money!LegApplies(L, o, k, b, n) = LegApplies(L, o, k, b, n)
  BY <1>1, <1>3, <1>5, <1>6 DEF Money!LegApplies, Money!LegOpen, LegApplies, LegOpen
<1>8. \A k, n, s : Money!creditLeg(L, o, k, n, s) = creditLeg(L, o, k, n, s)
  BY <1>3, <1>4 DEF Money!creditLeg, creditLeg
<1>9. \A k, b, n, s : Money!refundLeg(L, o, k, b, n, s) = refundLeg(L, o, k, b, n, s)
  BY <1>6, <1>7, <1>8 DEF Money!refundLeg, refundLeg
<1>10. /\ Money!UnusedSubscription(c, d) = UnusedSubscription(c, d)
       /\ Money!ReversedSubscription(L, o, d) = ReversedSubscription(L, o, d)
  BY <1>4, <1>5 DEF Money!UnusedSubscription, Money!ReversedSubscription,
                    UnusedSubscription, ReversedSubscription
<1>11. Money!SettleApplies(L, o, c) = SettleApplies(L, o, c)
  BY <1>1, <1>2, <1>3, <1>7 DEF Money!SettleApplies, Money!Chargeable, SettleApplies, Chargeable
<1>12. Money!settleReservation(L, o, c, d) = settleReservation(L, o, c, d)
  BY <1>2, <1>3, <1>9, <1>10 DEF Money!settleReservation, settleReservation
<1>13. Money!ReverseApplies(L, o) = ReverseApplies(L, o)
  BY <1>1, <1>2, <1>5, <1>7 DEF Money!ReverseApplies, ReverseApplies
<1>14. Money!reverseReservation(L, o, d) = reverseReservation(L, o, d)
  BY <1>2, <1>5, <1>9, <1>10 DEF Money!reverseReservation, reverseReservation
<1> QED
  BY <1>11, <1>12, <1>13, <1>14

\* The subscription manna a leg hands back to the payer.
LEMMA LegRestores ==
  ASSUME NEW L \in Ledger, NEW o \in Ops, IsDebit(L, o), NEW k \in Key,
         NEW n \in Nat \ {0}, NEW s \in 0..n
  PROVE  creditLeg(L, o, k, n, s).subscription[PayerOf(L, o)]
           - L.subscription[PayerOf(L, o)] = s
<1>1. PayerOf(L, o) \in Accounts
  BY DebitFacts
<1>2. L.subscription[PayerOf(L, o)] \in Nat
  BY <1>1 DEF Ledger
<1>3. LegShare(n, s) = s
  BY DEF LegShare, Least, Max0
<1> DEFINE r == [acct |-> PayerOf(L, o), amount |-> n, refunds |-> o]
<1>4. Inserted(L, creditLeg(L, o, k, n, s), k, r, s, n - s)
  BY <1>1, <1>3, CreditLegInserts
<1>5. creditLeg(L, o, k, n, s).subscription[PayerOf(L, o)]
        = L.subscription[PayerOf(L, o)] + s
  BY <1>4 DEF Inserted
<1> QED
  BY <1>2, <1>5

\* The subscription share recorded with a reservation is part of it.
ShareBounded == \A t \in Turns : authz[t].share <= Max[t]

\* The refinement mapping's history of restored subscription manna moves by
\* what the leg of a settlement or reversal puts into the subscription pot.
LEMMA RestoreStep ==
  ASSUME IInv, NEW t \in Turns, IsReserved(t),
         NEW k \in Key, NEW n \in Nat \ {0}, NEW s \in 0..n,
         ledger' = creditLeg(ledger, t, k, n, s),
         RestoredShare(t)' = s, \A u \in Turns \ {t} : authz'[u] = authz[u]
  PROVE  Restored' = [Restored EXCEPT ![t] = @ + ledger'.subscription[PayerOf(ledger, t)]
                                              - ledger.subscription[PayerOf(ledger, t)]]
<1>1. ledger \in Ledger /\ t \in Ops /\ IsDebit(ledger, t) /\ authz[t].state = "reserved"
  BY Unfolded DEF MoneyOf, IsReserved
<1>2. Restored[t] = 0
  BY <1>1, TurnsAssumption DEF Restored, RestoredShare
<1> DEFINE x == ledger'.subscription[PayerOf(ledger, t)]
           y == ledger.subscription[PayerOf(ledger, t)]
<1>3. x - y = s
  BY <1>1, LegRestores
<1>4. x \in Nat /\ y \in Nat
  <2>1. PayerOf(ledger, t) \in Accounts
    BY <1>1, DebitFacts
  <2>2. y \in Nat
    BY <1>1, <2>1 DEF Ledger
  <2>3. ledger' \in Ledger
    <3>1. Inserted(ledger, ledger', k,
                   [acct |-> PayerOf(ledger, t), amount |-> n, refunds |-> t],
                   LegShare(n, s), n - LegShare(n, s))
      BY <1>1, <2>1, CreditLegInserts
    <3> QED
      BY <3>1 DEF Inserted
  <2> QED
    BY <2>1, <2>2, <2>3 DEF Ledger
<1> HIDE DEF x, y
<1>5. 0 + x - y = s
  BY <1>3, <1>4
<1>6. \A u \in Turns \ {t} : RestoredShare(u)' = RestoredShare(u)
  BY DEF RestoredShare
<1>7. Restored' = [Restored EXCEPT ![t] = s]
  BY <1>1, <1>6 DEF Restored
<1> QED
  BY <1>2, <1>5, <1>7 DEF x, y

\* A settlement is MannaLedger's Settle, or nothing when the charge is the
\* whole reservation.
LEMMA SettledRefines ==
  ASSUME IInv, ShareBounded, NEW t \in Turns, NEW c \in Amounts \cup {0}, Settled(t, c)
  PROVE  Money!Settle(t, c) \/ UNCHANGED Money!vars
<1> DEFINE d == authz[t].share
           n == Max[t] - c
           k == settleReservationIdempotencyKey(t)
           s == UnusedSubscription(c, d)
<1>1. /\ SoundLedger(ledger) /\ ledger \in Ledger /\ MoneyOf(t)
      /\ t \in Ops /\ Max[t] \in Nat \ {0} /\ d \in Nat /\ d <= Max[t] /\ c \in Nat
  <2>1. c \in Nat
    BY AmountsAssumption
  <2>2. d <= Max[t]
    BY DEF ShareBounded
  <2> QED
    BY <2>1, <2>2, Unfolded
<1>2. /\ IsReserved(t) /\ authz[t].state = "reserved" /\ SettleCommits(ledger, t, c)
      /\ ledger' = settleReservation(ledger, t, c, d)
      /\ authz' = [authz EXCEPT ![t].state = "settled", ![t].charged = c]
  BY DEF Settled, IsReserved
<1>3. /\ IsDebit(ledger, t) /\ Reserved(ledger, t) = Max[t] /\ ~Applied(ledger, k)
      /\ alreadyRefundedManna(ledger, t) = 0
  BY <1>1, <1>2, NoLegs DEF MoneyOf, Returned
<1>4. c <= Max[t] /\ Applied(ledger, OpKey(t))
  BY <1>2, <1>3 DEF SettleCommits, Chargeable
<1>5. /\ authz \in [Turns -> Authorization]
      /\ authz'[t].state = "settled" /\ authz'[t].charged = c /\ authz'[t].share = d
      /\ \A u \in Turns \ {t} : authz'[u] = authz[u]
  BY <1>2 DEF IInv, TypeOK, Authorization
<1>6. RestoredShare(t)' = s
  BY <1>5 DEF RestoredShare
<1>7. Drawn' = Drawn /\ Drawn[t] = d
  <2>1. \A u \in Turns : authz'[u].share = authz[u].share
    BY <1>5
  <2> QED
    BY <1>1, <2>1 DEF Drawn
<1>8. s \in 0..n
  BY <1>1, <1>4 DEF UnusedSubscription, Max0, Least
<1>9. k \in Key
  BY <1>1, KeyTypes
<1>10. LegOpen(ledger, t, k, TRUE, n)
  BY <1>2, <1>3 DEF SettleCommits, LegCommits, LegReplays
<1> HIDE DEF k, s
<1>11. CASE n > 0
  <2>1. LegApplies(ledger, t, k, TRUE, n) /\ Requested(ledger, t, TRUE, n) = n
    BY <1>10, <1>11 DEF LegApplies, Requested
  <2>2. SettleApplies(ledger, t, c)
    BY <1>3, <1>4, <2>1 DEF SettleApplies, Chargeable, k
  <2>3. ledger' = creditLeg(ledger, t, k, n, s)
    BY <1>2, <1>3, <2>1 DEF settleReservation, refundLeg, k, s
  <2>4. n \in Nat \ {0}
    BY <1>1, <1>4, <1>11
  <2>5. Restored' = [Restored EXCEPT ![t] = @ + ledger'.subscription[PayerOf(ledger, t)]
                                              - ledger.subscription[PayerOf(ledger, t)]]
    <3> HIDE DEF n
    <3> QED  BY <1>2, <1>5, <1>6, <1>8, <1>9, <2>3, <2>4, RestoreStep
  <2>6. Money!Settle(t, c)
    BY <1>2, <1>7, <2>2, <2>5, SameOps, SameLegs DEF Money!Settle, Money!Restore
  <2> QED
    BY <2>6
<1>12. CASE n = 0
  <2>1. ledger' = ledger
    <3>1. ~LegApplies(ledger, t, k, TRUE, n)
      <4> HIDE DEF n
      <4> QED  BY <1>12 DEF LegApplies, Requested
    <3> QED
      BY <1>2, <1>3, <3>1 DEF settleReservation, refundLeg, k
  <2>2. Restored' = Restored
    <3>1. RestoredShare(t)' = 0 /\ RestoredShare(t) = 0
      BY <1>2, <1>6, <1>8, <1>12 DEF RestoredShare
    <3>2. \A u \in Turns : RestoredShare(u)' = RestoredShare(u)
      BY <1>5, <3>1 DEF RestoredShare
    <3> QED
      BY <3>2 DEF Restored
  <2> QED
    BY <1>7, <2>1, <2>2 DEF Money!vars
<1> QED
  BY <1>1, <1>4, <1>11, <1>12

\* A reversal is MannaLedger's Reverse.
LEMMA ReverseRefines ==
  ASSUME IInv, ShareBounded, NEW t \in Turns, NEW x \in {"reversed", "reaped"},
         reverseTurnAuthorization(t, x)
  PROVE  Money!Reverse(t)
<1> DEFINE d == authz[t].share
           n == Max[t]
           k == refundIdempotencyKey(t)
<1>1. /\ SoundLedger(ledger) /\ ledger \in Ledger /\ MoneyOf(t)
      /\ t \in Ops /\ n \in Nat \ {0} /\ d \in Nat
  BY Unfolded
<1>2. d \in 0..n
  BY <1>1 DEF ShareBounded
<1>3. /\ IsReserved(t) /\ authz[t].state = "reserved"
      /\ ledger' = reverseReservation(ledger, t, d)
      /\ authz' = [authz EXCEPT ![t].state = x]
  BY DEF reverseTurnAuthorization, IsReserved
<1>4. /\ IsDebit(ledger, t) /\ Reserved(ledger, t) = n /\ ~Applied(ledger, k)
      /\ alreadyRefundedManna(ledger, t) = 0 /\ Applied(ledger, OpKey(t)) /\ k \in Key
  BY <1>1, <1>3, NoLegs, KeyTypes DEF MoneyOf, Returned, IsDebit
<1>5. Refundable(ledger, t) = n /\ ReversedSubscription(ledger, t, d) = d
  BY <1>1, <1>2, <1>4 DEF Refundable, Max0, ReversedSubscription, Least
<1>6. /\ authz \in [Turns -> Authorization]
      /\ authz'[t].state = x /\ authz'[t].share = d
      /\ \A u \in Turns \ {t} : authz'[u] = authz[u]
  BY <1>3 DEF IInv, TypeOK, Authorization
<1>7. RestoredShare(t)' = d
  BY <1>6 DEF RestoredShare
<1>8. Drawn' = Drawn /\ Drawn[t] = d
  <2>1. \A u \in Turns : authz'[u].share = authz[u].share
    BY <1>6
  <2> QED
    BY <1>1, <2>1 DEF Drawn
<1> HIDE DEF d, n, k
<1>9. \A b \in BOOLEAN : LegApplies(ledger, t, k, b, n) /\ Requested(ledger, t, b, n) = n
  BY <1>1, <1>4, <1>5 DEF LegApplies, LegOpen, Requested
<1>10. (n > 0) \in BOOLEAN
  BY <1>1
<1>11. LegApplies(ledger, t, k, n > 0, n) /\ Requested(ledger, t, n > 0, n) = n
  BY <1>9, <1>10
<1>12. ReverseApplies(ledger, t)
  BY <1>4, <1>5, <1>11 DEF ReverseApplies, k
<1>13. ledger' = creditLeg(ledger, t, k, n, d)
  BY <1>3, <1>5, <1>11 DEF reverseReservation, refundLeg, k
<1>14. Restored' = [Restored EXCEPT ![t] = @ + ledger'.subscription[PayerOf(ledger, t)]
                                            - ledger.subscription[PayerOf(ledger, t)]]
  BY <1>1, <1>2, <1>3, <1>4, <1>6, <1>7, <1>13, RestoreStep
<1> QED
  BY <1>3, <1>8, <1>12, <1>14, SameOps, SameLegs DEF Money!Reverse, Money!Restore

\* Every transaction of the kernel is an operation of the ledger or leaves the
\* money alone.
LEMMA NextRefines ==
  ASSUME IInv, ShareBounded, [Next]_vars
  PROVE  ShareBounded' /\ [Money!Next]_(Money!vars)
<1>a. authz \in [Turns -> Authorization]
  BY DEF IInv, TypeOK
<1>b. ASSUME UNCHANGED authz  PROVE ShareBounded' /\ Drawn' = Drawn /\ Restored' = Restored
  BY <1>b DEF ShareBounded, Drawn, Restored, RestoredShare
<1>c. ASSUME UNCHANGED <<ledger, authz>>  PROVE ShareBounded' /\ UNCHANGED Money!vars
  BY <1>b, <1>c DEF Money!vars
<1>1. ASSUME NEW a \in Accounts, NEW n \in Amounts, NEW o \in Ops, NEW s \in BOOLEAN,
             Fund(a, n, o, s)
      PROVE  ShareBounded' /\ Money!Next
  <2>1. ShareBounded' /\ Drawn' = Drawn /\ Restored' = Restored
    BY <1>1, <1>b DEF Fund
  <2>2. Money!Credit(a, n, o, s)
    BY <1>1, <2>1, SameOps DEF Fund, Money!Credit
  <2> QED
    BY <2>1, <2>2 DEF Money!Next
<1>2. ASSUME NEW t \in Turns, reserveAuthorization(t)
      PROVE  ShareBounded' /\ Money!Next
  <2> DEFINE d == subscriptionDrawn(ledger, Payer[t], Max[t])
  <2>1. /\ t \in Ops /\ Max[t] \in Nat \ {0} /\ Payer[t] \in Accounts /\ ledger \in Ledger
    BY Unfolded
  <2>2. /\ authz[t].state = "none"
        /\ authz' = [authz EXCEPT ![t] = [state |-> "reserved", share |-> d, charged |-> 0]]
        /\ ~Applied(ledger, OpKey(t)) /\ CanCover(ledger, Payer[t], Max[t])
        /\ ledger' = debit(ledger, Payer[t], Max[t], t)
    BY <1>2 DEF reserveAuthorization
  <2>3. d \in 0..Max[t]
    BY <2>1, <2>2, DebitInserts
  <2> HIDE DEF d
  <2>4. /\ authz'[t] = [state |-> "reserved", share |-> d, charged |-> 0]
        /\ \A u \in Turns \ {t} : authz'[u] = authz[u]
    BY <1>a, <2>2
  <2>5. ShareBounded'
    BY <2>1, <2>3, <2>4 DEF ShareBounded
  <2>6. Drawn' = [Drawn EXCEPT ![t] = d]
    <3>1. authz'[t].share = d
      BY <2>4
    <3>2. \A o \in Ops : (IF o \in Turns THEN authz'[o].share ELSE 0)
                           = IF o = t THEN d ELSE Drawn[o]
      BY <2>1, <2>4, <3>1 DEF Drawn
    <3> QED
      BY <3>2 DEF Drawn
  <2>7. Restored' = Restored
    BY <2>2, <2>4 DEF Restored, RestoredShare
  <2>8. Money!Debit(Payer[t], Max[t], t)
    BY <2>2, <2>6, <2>7, SameOps DEF Money!Debit, d
  <2>9. Max[t] \in Amounts
    BY TurnsAssumption
  <2> QED
    BY <2>1, <2>5, <2>8, <2>9 DEF Money!Next
<1>3. ASSUME NEW t \in Turns, NEW c \in Amounts \cup {0}, Settled(t, c)
      PROVE  ShareBounded' /\ [Money!Next]_(Money!vars)
  <2>1. Money!Settle(t, c) \/ UNCHANGED Money!vars
    BY <1>3, SettledRefines
  <2>2. ShareBounded'
    BY <1>3, <1>a DEF Settled, ShareBounded, Authorization
  <2>3. t \in Ops
    BY TurnsAssumption
  <2> QED
    BY <2>1, <2>2, <2>3 DEF Money!Next
<1>4. ASSUME NEW t \in Turns, NEW x \in Refunded, reverseTurnAuthorization(t, x)
      PROVE  ShareBounded' /\ Money!Next
  <2>1. Money!Reverse(t)
    BY <1>4, ReverseRefines DEF Refunded
  <2>2. ShareBounded'
    BY <1>4, <1>a DEF reverseTurnAuthorization, ShareBounded, Authorization
  <2>3. t \in Ops
    BY TurnsAssumption
  <2> QED
    BY <2>1, <2>2, <2>3 DEF Money!Next
<1>5. ASSUME NEW t \in Turns,
             \/ claimTurnProviderStart(t) \/ markTurnUsableOutput(t)
             \/ \E s \in Refunded : beginReversal(t, s) \/ endReversal(t, s)
             \/ \E n \in {0, Max[t]} : recordUsageEvent(t, n)
      PROVE  ShareBounded' /\ UNCHANGED Money!vars
  BY <1>5, <1>c
     DEF claimTurnProviderStart, markTurnUsableOutput, beginReversal, endReversal,
         recordUsageEvent
<1>6. ASSUME UNCHANGED vars  PROVE ShareBounded' /\ UNCHANGED Money!vars
  BY <1>6, <1>c DEF vars
<1>7. ASSUME NEW t \in Turns, NEW c \in Amounts \cup {0}, settleTerminal(t, c)
      PROVE  ShareBounded' /\ [Money!Next]_(Money!vars)
  BY <1>3, <1>7 DEF settleTerminal
<1>8. ASSUME NEW t \in Turns, settlePartialOutputAuthorization(t)
      PROVE  ShareBounded' /\ [Money!Next]_(Money!vars)
  <2>1. Max[t] \in Amounts \cup {0}
    BY TurnsAssumption
  <2> QED
    BY <1>3, <1>8, <2>1 DEF settlePartialOutputAuthorization
<1> QED
  BY <1>1, <1>2, <1>4, <1>5, <1>6, <1>7, <1>8 DEF Next

\* Reserving, settling, reversing and reaping use the ledger only as
\* MannaLedger specifies it, so its theorems hold of every turn's money.
THEOREM ImplementsLedgerThm ==
  Spec => ImplementsLedger
<1>1. Init => ShareBounded /\ Money!Init
  <2> SUFFICES ASSUME Init PROVE ShareBounded /\ Money!Init
    OBVIOUS
  <2>1. ShareBounded
    <3> SUFFICES ASSUME NEW t \in Turns PROVE authz[t].share <= Max[t]
      BY DEF ShareBounded
    <3>1. Max[t] \in Nat
      BY TurnsAssumption, AmountsAssumption
    <3>2. authz[t].share = 0
      BY DEF Init, NoTurns
    <3> QED
      BY <3>1, <3>2
  <2>2. ledger = Money!EmptyLedger
    BY SameOps DEF Init, NoTurns
  <2>3. Drawn = [o \in Ops |-> 0] /\ Restored = [o \in Ops |-> 0]
    BY DEF Init, NoTurns, Drawn, Restored, RestoredShare
  <2> QED
    BY <2>1, <2>2, <2>3 DEF Money!Init
<1>2. IInv /\ ShareBounded /\ [Next]_vars => ShareBounded' /\ [Money!Next]_(Money!vars)
  BY NextRefines
<1> QED
  BY <1>1, <1>2, Inductive, PTL DEF Spec, ImplementsLedger, Money!Spec
=============================================================================
