--------------------------- MODULE ChannelTurnProofs ---------------------------
(***************************************************************************)
(* The safety properties of ChannelTurns, proved for any turns, handlers,  *)
(* ceilings, charges and number of faults.                                 *)
(*                                                                         *)
(* A channel turn that was settled may still be compensated, so the        *)
(* kernel's own invariant does not hold here: what a settled authorization *)
(* says about the money depends on the channel row beside it.              *)
(***************************************************************************)
EXTENDS ChannelTurns, TurnAuthorizationProofs

-----------------------------------------------------------------------------
(* The invariant.                                                          *)

Statuses == {"none"} \cup Working \cup Finished
ChannelRow == [status : Statuses, metered : Nat, compensating : BOOLEAN]
Callers == Handlers \cup {Sweeper}
Asleep == [pc : {"idle"}]
Places == {"authorize", "markError", "claimSettlement", "settle", "failSettlement",
           "reverse", "markRefundFailed"}
Awake == [pc : Places, turn : Turns]

\* What of its reservation turn t has got back: a settled turn what its charge
\* left, and all of it once it is compensated.
Returns(t) ==
  CASE authz[t].state = "settled" ->
         IF Is(t, "refunded") THEN Max[t] ELSE Max[t] - authz[t].charged
    [] authz[t].state \in Refunded -> Max[t]
    [] OTHER -> 0

LedgerAgrees(t) ==
  IF authz[t].state = "none" THEN ~Applied(ledger, OpKey(t))
  ELSE /\ IsDebit(ledger, t)
       /\ PayerOf(ledger, t) = Payer[t]
       /\ Reserved(ledger, t) = Max[t]
       /\ authz[t].charged <= Max[t]
       /\ alreadyRefundedManna(ledger, t) = Returns(t)

\* The row asks for a charge: it waits for the proof of delivery, has it, or is
\* claimed for a compensation that has not reached the ledger.
Billed(t) == channel[t].status \in {"delivery_pending", "delivered"} \/ channel[t].compensating

\* A turn is settled only while its row is billed, or was refunded after that;
\* a billed row, its authorization and its usage row state one charge.
RowAgrees(t) ==
  /\ channel[t].compensating => Is(t, "refunding")
  /\ authz[t].state = "settled" => Billed(t) \/ Is(t, "refunded")
  /\ Billed(t) => /\ authz[t].state = "settled"
                  /\ authz[t].charged = channel[t].metered
                  /\ usage[t] = [status |-> "completed", manna |-> channel[t].metered]
  /\ Is(t, "refunded") => /\ authz[t].state # "reserved"
                          /\ usage[t].status \in {"none", "error"}
  /\ usage[t].status = "none" \/ Is(t, "refunded") => usage[t].manna = 0

TablesOK ==
  /\ TypeOK
  /\ SoundLedger(ledger)
  /\ channel \in [Turns -> ChannelRow]
  /\ stale \subseteq Turns
  /\ \A t \in Turns : LedgerAgrees(t) /\ RowAgrees(t)

CallsOK == call \in [Callers -> Asleep \cup Awake]

ChannelInv == TablesOK /\ CallsOK

\* FinishedIsFinal for one step.
KeepsFinished ==
  \A t \in Turns :
    channel[t].status \in Finished =>
      /\ channel'[t] = channel[t]
      /\ usage'[t] = usage[t]
      /\ alreadyRefundedManna(ledger', t) = alreadyRefundedManna(ledger, t)

LEMMA ChannelInitInv ==
  ChannelInit => ChannelInv
<1> SUFFICES ASSUME ChannelInit PROVE ChannelInv
  OBVIOUS
<1>1. Init /\ IInv
  BY InitIInv DEF ChannelInit
<1>2. /\ TypeOK /\ SoundLedger(ledger)
      /\ \A t \in Turns : /\ MoneyOf(t) /\ authz[t].state = "none"
                          /\ usage[t] = [status |-> "none", manna |-> 0]
  BY <1>1, Unfolded DEF IInv, Init, NoTurns
<1>3. channel \in [Turns -> ChannelRow]
  BY DEF ChannelInit, ChannelRow, Statuses
<1>4. \A t \in Turns : LedgerAgrees(t) /\ RowAgrees(t)
  BY <1>2 DEF MoneyOf, LedgerAgrees, RowAgrees, Billed, Is, ChannelInit
<1>5. CallsOK
  BY DEF ChannelInit, CallsOK, Callers, Asleep
<1> QED
  BY <1>2, <1>3, <1>4, <1>5 DEF ChannelInv, TablesOK, ChannelInit

\* What the invariant says of one turn, with the types of the constants.
LEMMA OfTurn ==
  ASSUME TablesOK, NEW t \in Turns
  PROVE  /\ SoundLedger(ledger) /\ ledger \in Ledger
         /\ LedgerAgrees(t) /\ RowAgrees(t)
         /\ t \in Ops /\ Payer[t] \in Accounts /\ Max[t] \in Nat \ {0}
         /\ authz \in [Turns -> Authorization] /\ authz[t].share \in Nat
         /\ usage \in [Turns -> Usage] /\ channel \in [Turns -> ChannelRow]
<1>1. authz[t] \in Authorization
  BY DEF TablesOK, TypeOK
<1> QED
  BY <1>1, TurnsAssumption, AmountsAssumption
     DEF TablesOK, SoundLedger, TypeOK, Authorization

-----------------------------------------------------------------------------
(* Steps that leave a turn, or its money, alone.                           *)

LEMMA LedgerFrame ==
  ASSUME NEW t \in Turns, LedgerAgrees(t), authz'[t] = authz[t],
         authz[t].state = "settled" => (Is(t, "refunded")' <=> Is(t, "refunded")),
         ledger'.rows[OpKey(t)] = ledger.rows[OpKey(t)],
         alreadyRefundedManna(ledger', t) = alreadyRefundedManna(ledger, t)
  PROVE  LedgerAgrees(t)'
BY DEF LedgerAgrees, Returns, IsDebit, Applied, PayerOf, Reserved

LEMMA RowFrame ==
  ASSUME NEW t \in Turns, RowAgrees(t),
         authz'[t] = authz[t], usage'[t] = usage[t], channel'[t] = channel[t]
  PROVE  RowAgrees(t)'
BY DEF RowAgrees, Billed, Is

\* Nothing but the timers and the handlers moves.
LEMMA TablesFrame ==
  ASSUME TablesOK, UNCHANGED <<ledger, authz, run, usage, reversing, raced, channel>>,
         stale' \subseteq Turns
  PROVE  TablesOK' /\ KeepsFinished
<1>1. \A t \in Turns : LedgerAgrees(t)' /\ RowAgrees(t)'
  BY DEF TablesOK, LedgerAgrees, Returns, RowAgrees, Billed, Is
<1> QED
  BY <1>1 DEF TablesOK, TypeOK, KeepsFinished

\* A statement on the row of t alone, which neither ends it nor bills it.
LEMMA RowStep ==
  ASSUME TablesOK, NEW t \in Turns, NEW row \in ChannelRow, Write(t, row), UNCHANGED kernel,
         channel[t].status \notin Finished, row.status # "refunded",
         row.compensating => row.status = "refunding",
         row.status \in {"delivery_pending", "delivered"} \/ row.compensating <=> Billed(t),
         Billed(t) => row.metered = channel[t].metered
  PROVE  TablesOK' /\ KeepsFinished
<1>1. /\ channel' = [channel EXCEPT ![t] = row] /\ stale' \subseteq Turns
      /\ channel \in [Turns -> ChannelRow]
      /\ UNCHANGED <<ledger, authz, run, usage, reversing, raced>>
  BY DEF TablesOK, Write, kernel, vars
<1>2. /\ channel' \in [Turns -> ChannelRow] /\ channel'[t] = row
      /\ \A u \in Turns \ {t} : channel'[u] = channel[u]
  BY <1>1
<1>3. \A u \in Turns : LedgerAgrees(u) /\ RowAgrees(u)
  BY DEF TablesOK
<1>4. ASSUME NEW u \in Turns PROVE LedgerAgrees(u)'
  <2>1. Is(u, "refunded")' <=> Is(u, "refunded")
    BY <1>2 DEF Is, Finished
  <2> QED
    BY <1>1, <1>3, <2>1, LedgerFrame
<1>5. RowAgrees(t)'
  BY <1>1, <1>2, <1>3 DEF RowAgrees, Billed, Is, Finished
<1>6. ASSUME NEW u \in Turns \ {t} PROVE RowAgrees(u)'
  BY <1>1, <1>2, <1>3, RowFrame
<1>7. KeepsFinished
  BY <1>1, <1>2 DEF KeepsFinished
<1> QED
  BY <1>1, <1>2, <1>4, <1>5, <1>6, <1>7 DEF TablesOK, TypeOK

-----------------------------------------------------------------------------
(* The transactions that move money.                                       *)

\* reverseReservation returns whatever its debit still holds, also after a
\* settlement.
LEMMA ReverseReturnsRest ==
  ASSUME NEW L, SoundLedger(L), NEW o \in Ops, IsDebit(L, o), NEW d \in Nat
  PROVE  LegWritten(L, reverseReservation(L, o, d), o,
                    Reserved(L, o) - alreadyRefundedManna(L, o))
<1> DEFINE k == refundIdempotencyKey(o)
           n == Reserved(L, o) - alreadyRefundedManna(L, o)
           s == ReversedSubscription(L, o, d)
<1>1. /\ L \in Ledger /\ Reserved(L, o) \in Nat \ {0} /\ alreadyRefundedManna(L, o) \in Int
      /\ alreadyRefundedManna(L, o) <= Reserved(L, o)
  BY DebitFacts, RefundedType DEF SoundLedger, LegsSound
<1>2. n \in Nat /\ Refundable(L, o) = n
  BY <1>1 DEF Refundable, Max0
<1>3. s \in Int
  BY <1>2 DEF ReversedSubscription, Least
<1>4. CASE ~Applied(L, k) /\ n > 0
  <2>1. \A b \in BOOLEAN : LegApplies(L, o, k, b, n) /\ Requested(L, o, b, n) = n
    BY <1>2, <1>4 DEF LegApplies, LegOpen, Requested
  <2>2. (n > 0) \in BOOLEAN
    BY <1>2
  <2>3. LegApplies(L, o, k, n > 0, n) /\ Requested(L, o, n > 0, n) = n
    BY <2>1, <2>2
  <2>4. reverseReservation(L, o, d) = creditLeg(L, o, k, n, s)
    BY <1>2, <2>3 DEF reverseReservation, refundLeg
  <2>5. k \in LegKeys(o) /\ n \in Nat \ {0} /\ n <= Reserved(L, o) - alreadyRefundedManna(L, o)
    BY <1>2, <1>4 DEF LegKeys
  <2>6. LegWritten(L, creditLeg(L, o, k, n, s), o, n)
    <3> HIDE DEF k, s
    <3> QED  BY <1>3, <1>4, <2>5, LegWrites
  <2> QED
    BY <2>4, <2>6
<1>5. CASE Applied(L, k) \/ n = 0
  <2>1. n = 0
    BY <1>1, <1>5 DEF SoundLedger, ReversalFinal
  <2>2. ~LegApplies(L, o, k, n > 0, n)
    <3>1. \A b \in BOOLEAN : ~LegApplies(L, o, k, b, n)
      BY <1>2, <2>1 DEF LegApplies, Requested
    <3>2. (n > 0) \in BOOLEAN
      BY <2>1
    <3> QED
      BY <3>1, <3>2
  <2>3. reverseReservation(L, o, d) = L
    BY <1>2, <2>2 DEF reverseReservation, refundLeg
  <2> QED
    BY <1>1, <2>1, <2>3 DEF LegWritten, SoundLedger
<1> QED
  BY <1>2, <1>4, <1>5

\* A leg for t moves the money of no other turn.
LEMMA OthersKeepMoney ==
  ASSUME TablesOK, NEW t \in Turns, NEW n, LegWritten(ledger, ledger', t, n),
         \A u \in Turns \ {t} : authz'[u] = authz[u] /\ channel'[u] = channel[u]
  PROVE  /\ SoundLedger(ledger') /\ ledger' \in Ledger
         /\ ledger'.rows[OpKey(t)] = ledger.rows[OpKey(t)]
         /\ alreadyRefundedManna(ledger', t) = alreadyRefundedManna(ledger, t) + n
         /\ \A u \in Turns \ {t} :
              /\ LedgerAgrees(u)'
              /\ alreadyRefundedManna(ledger', u) = alreadyRefundedManna(ledger, u)
<1>1. Turns \subseteq Ops
  BY TurnsAssumption
<1>2. \A u \in Turns : ledger'.rows[OpKey(u)] = ledger.rows[OpKey(u)]
  BY <1>1 DEF LegWritten
<1>3. \A u \in Turns \ {t} : alreadyRefundedManna(ledger', u) = alreadyRefundedManna(ledger, u)
  BY <1>1 DEF LegWritten
<1>4. \A u \in Turns \ {t} : LedgerAgrees(u)'
  BY <1>2, <1>3, LedgerFrame DEF TablesOK, Is
<1> QED
  BY <1>2, <1>3, <1>4 DEF LegWritten, SoundLedger

\* authorizeTx: the debit, the authorization, the ticket and both rows.
LEMMA AuthorizeStep ==
  ASSUME TablesOK, NEW t \in Turns, authorizeTx(t)
  PROVE  TablesOK' /\ KeepsFinished
<1> DEFINE n == Max[t]
           a == Payer[t]
           r == [acct |-> a, amount |-> -n, refunds |-> NoOp]
           d == subscriptionDrawn(ledger, a, n)
           row == [channel[t] EXCEPT !.status = "reserved"]
<1>1. /\ SoundLedger(ledger) /\ ledger \in Ledger
      /\ n \in Nat \ {0} /\ a \in Accounts /\ t \in Ops
      /\ authz \in [Turns -> Authorization]
      /\ usage \in [Turns -> Usage] /\ channel \in [Turns -> ChannelRow]
  BY OfTurn
<1>2. /\ ~Applied(ledger, OpKey(t)) /\ authz[t].state = "none" /\ Is(t, "reserving")
      /\ CanCover(ledger, a, n) /\ ledger' = debit(ledger, a, n, t)
      /\ authz' = [authz EXCEPT ![t] = [state |-> "reserved", charged |-> 0, share |-> d]]
      /\ run' = [run EXCEPT ![t] = "started"]
      /\ usage' = [usage EXCEPT ![t] = [status |-> "provider_admitted", manna |-> 0]]
      /\ channel' = [channel EXCEPT ![t] = row] /\ stale' = stale \ {t}
      /\ UNCHANGED <<reversing, raced>>
  BY DEF authorizeTx, SetStatus, Write
<1>3. Inserted(ledger, ledger', OpKey(t), r, -d, -(n - d)) /\ d \in 0..n
  BY <1>1, <1>2, DebitInserts
<1>4. r \in Row /\ r.refunds = NoOp /\ r.acct = a /\ r.amount = -n
  BY <1>1 DEF Row
<1>5. /\ SoundLedger(ledger')
      /\ \A p \in Ops : alreadyRefundedManna(ledger', p) = alreadyRefundedManna(ledger, p)
      /\ \A p \in Ops \ {t} : ledger'.rows[OpKey(p)] = ledger.rows[OpKey(p)]
      /\ alreadyRefundedManna(ledger, t) = 0
  <2> HIDE DEF r, d, n, a
  <2>1. SoundLedger(ledger) /\ ~Applied(ledger, OpKey(t))
    BY <1>1, <1>2
  <2> QED
    BY <1>1, <1>3, <1>4, <2>1, OpPreservesSound
<1>6. ledger'.rows[OpKey(t)] = r
  BY <1>3 DEF Inserted
<1>7. row \in ChannelRow /\ row.status = "reserved" /\ row.compensating = channel[t].compensating
  BY <1>1 DEF ChannelRow, Statuses, Working
<1> HIDE DEF row
<1>8. /\ authz'[t] = [state |-> "reserved", charged |-> 0, share |-> d]
      /\ authz' \in [Turns -> Authorization]
      /\ channel' \in [Turns -> ChannelRow] /\ channel'[t] = row
      /\ usage' \in [Turns -> Usage]
      /\ \A u \in Turns \ {t} : /\ authz'[u] = authz[u] /\ usage'[u] = usage[u]
                                /\ channel'[u] = channel[u]
  BY <1>1, <1>2, <1>3, <1>7 DEF Authorization, Usage
<1>9. LedgerAgrees(t)'
  <2>1. /\ IsDebit(ledger', t) /\ Reserved(ledger', t) = n /\ PayerOf(ledger', t) = a
    <3> HIDE DEF r
    <3> QED  BY <1>1, <1>4, <1>6, NoRowAssumption DEF IsDebit, Applied, Reserved, PayerOf
  <2> QED
    BY <1>1, <1>5, <1>8, <2>1 DEF LedgerAgrees, Returns, Refunded
<1>10. \A u \in Turns \ {t} : LedgerAgrees(u)'
  BY <1>5, <1>8, LedgerFrame, TurnsAssumption DEF TablesOK, Is
<1>11. RowAgrees(t)'
  BY <1>2, <1>7, <1>8 DEF TablesOK, RowAgrees, Billed, Is
<1>12. \A u \in Turns \ {t} : RowAgrees(u)'
  BY <1>8, RowFrame DEF TablesOK
<1>13. run' \in [Turns -> {"none", "started", "output"}] /\ stale' \subseteq Turns
  BY <1>2 DEF TablesOK, TypeOK
<1>14. KeepsFinished
  BY <1>2, <1>5, <1>8, TurnsAssumption DEF KeepsFinished, Finished, Is
<1> QED
  BY <1>2, <1>5, <1>8, <1>9, <1>10, <1>11, <1>12, <1>13, <1>14
     DEF TablesOK, TypeOK, SoundLedger

\* settleTx: the charge in the ledger, the authorization and both rows.
LEMMA SettleTxStep ==
  ASSUME TablesOK, NEW t \in Turns, NEW c \in Nat, settleTx(t, c)
  PROVE  TablesOK' /\ KeepsFinished
<1> DEFINE row == [status |-> "delivery_pending", metered |-> c, compensating |-> FALSE]
<1>1. /\ SoundLedger(ledger) /\ ledger \in Ledger
      /\ LedgerAgrees(t) /\ RowAgrees(t)
      /\ Max[t] \in Nat \ {0} /\ t \in Ops /\ authz[t].share \in Nat
      /\ authz \in [Turns -> Authorization]
      /\ usage \in [Turns -> Usage] /\ channel \in [Turns -> ChannelRow]
  BY OfTurn
<1>2. /\ authz[t].state = "reserved" /\ Is(t, "settling") /\ SettleCommits(ledger, t, c)
      /\ ledger' = settleReservation(ledger, t, c, authz[t].share)
      /\ authz' = [authz EXCEPT ![t].state = "settled", ![t].charged = c]
      /\ usage' = [usage EXCEPT ![t] = [status |-> "completed", manna |-> c]]
      /\ channel' = [channel EXCEPT ![t] = row] /\ stale' = stale \ {t}
      /\ UNCHANGED <<run, reversing, raced>>
  BY DEF settleTx, Settleable, Settled, IsReserved, Write
<1>3. /\ IsDebit(ledger, t) /\ Reserved(ledger, t) = Max[t]
      /\ PayerOf(ledger, t) = Payer[t] /\ alreadyRefundedManna(ledger, t) = 0
  BY <1>1, <1>2 DEF LedgerAgrees, Returns, Refunded
<1>4. c <= Max[t] /\ LegWritten(ledger, ledger', t, Max[t] - c)
  BY <1>1, <1>2, <1>3, SettleWrites
<1>5. row \in ChannelRow
  BY DEF ChannelRow, Statuses, Working
<1>6. /\ authz' \in [Turns -> Authorization]
      /\ authz'[t].state = "settled" /\ authz'[t].charged = c
      /\ channel' \in [Turns -> ChannelRow] /\ channel'[t] = row
      /\ usage' \in [Turns -> Usage] /\ usage'[t] = [status |-> "completed", manna |-> c]
      /\ \A u \in Turns \ {t} : /\ authz'[u] = authz[u] /\ usage'[u] = usage[u]
                                /\ channel'[u] = channel[u]
  BY <1>1, <1>2, <1>5 DEF Authorization, Terminal, Usage
<1>7. /\ SoundLedger(ledger') /\ ledger' \in Ledger
      /\ ledger'.rows[OpKey(t)] = ledger.rows[OpKey(t)]
      /\ alreadyRefundedManna(ledger', t) = alreadyRefundedManna(ledger, t) + (Max[t] - c)
      /\ \A u \in Turns \ {t} :
           /\ LedgerAgrees(u)'
           /\ alreadyRefundedManna(ledger', u) = alreadyRefundedManna(ledger, u)
  <2> HIDE DEF row
  <2> QED  BY <1>4, <1>6, OthersKeepMoney
<1>8. LedgerAgrees(t)'
  <2>1. /\ IsDebit(ledger', t) /\ Reserved(ledger', t) = Max[t] /\ PayerOf(ledger', t) = Payer[t]
    BY <1>3, <1>7 DEF IsDebit, Applied, Reserved, PayerOf
  <2>2. alreadyRefundedManna(ledger', t) = Max[t] - c
    BY <1>1, <1>3, <1>7
  <2>3. Returns(t)' = Max[t] - c
    <3>1. ~Is(t, "refunded")' /\ authz'[t].state = "settled" /\ authz'[t].charged = c
      BY <1>6 DEF Is
    <3> QED
      BY <3>1 DEF Returns, Refunded
  <2> QED
    BY <1>4, <1>6, <2>1, <2>2, <2>3 DEF LedgerAgrees
<1>9. RowAgrees(t)'
  BY <1>6 DEF RowAgrees, Billed, Is
<1>10. \A u \in Turns \ {t} : RowAgrees(u)'
  BY <1>6, RowFrame DEF TablesOK
<1>11. KeepsFinished
  BY <1>2, <1>6, <1>7 DEF KeepsFinished, Finished, Is
<1> QED
  BY <1>2, <1>6, <1>7, <1>8, <1>9, <1>10, <1>11 DEF TablesOK, TypeOK

\* A reversal of t that returns whatever t still holds.
LEMMA MoneyReturned ==
  ASSUME TablesOK, NEW t \in Turns, IsReserved(t) \/ authz[t].state = "settled",
         ledger' = reverseReservation(ledger, t, authz[t].share),
         \A u \in Turns \ {t} : authz'[u] = authz[u] /\ channel'[u] = channel[u],
         authz'[t].charged = authz[t].charged,
         authz'[t].state \in Refunded \/ (authz'[t].state = "settled" /\ Is(t, "refunded")')
  PROVE  /\ SoundLedger(ledger') /\ ledger' \in Ledger
         /\ \A u \in Turns : LedgerAgrees(u)'
         /\ \A u \in Turns \ {t} :
              alreadyRefundedManna(ledger', u) = alreadyRefundedManna(ledger, u)
<1> DEFINE held == Max[t] - alreadyRefundedManna(ledger, t)
<1>1. /\ SoundLedger(ledger) /\ ledger \in Ledger /\ LedgerAgrees(t)
      /\ Max[t] \in Nat \ {0} /\ t \in Ops /\ authz[t].share \in Nat
  BY OfTurn
<1>2. /\ IsDebit(ledger, t) /\ Reserved(ledger, t) = Max[t]
      /\ PayerOf(ledger, t) = Payer[t] /\ authz[t].charged <= Max[t]
  BY <1>1 DEF LedgerAgrees, IsReserved
<1>3. LegWritten(ledger, ledger', t, held)
  BY <1>1, <1>2, ReverseReturnsRest
<1>4. alreadyRefundedManna(ledger, t) \in Int
  BY <1>1, RefundedType
<1>5. /\ SoundLedger(ledger') /\ ledger' \in Ledger
      /\ ledger'.rows[OpKey(t)] = ledger.rows[OpKey(t)]
      /\ alreadyRefundedManna(ledger', t) = alreadyRefundedManna(ledger, t) + held
      /\ \A u \in Turns \ {t} :
           /\ LedgerAgrees(u)'
           /\ alreadyRefundedManna(ledger', u) = alreadyRefundedManna(ledger, u)
  <2> HIDE DEF held
  <2> QED  BY <1>3, OthersKeepMoney
<1>6. LedgerAgrees(t)'
  <2>1. /\ IsDebit(ledger', t) /\ Reserved(ledger', t) = Max[t] /\ PayerOf(ledger', t) = Payer[t]
    BY <1>2, <1>5 DEF IsDebit, Applied, Reserved, PayerOf
  <2>2. alreadyRefundedManna(ledger', t) = Max[t]
    BY <1>1, <1>4, <1>5
  <2>3. Returns(t)' = Max[t] /\ authz'[t].state # "none"
    BY DEF Returns, Refunded
  <2> QED
    BY <1>2, <2>1, <2>2, <2>3 DEF LedgerAgrees
<1> QED
  BY <1>5, <1>6

\* The reaper returns a reserved turn; no row of a reserved turn is billed.
LEMMA ReapedStep ==
  ASSUME TablesOK, NEW t \in Turns, reverseTurnAuthorization(t, "reaped"),
         UNCHANGED <<channel, stale>>
  PROVE  TablesOK' /\ KeepsFinished
<1>1. /\ RowAgrees(t) /\ authz \in [Turns -> Authorization]
      /\ usage \in [Turns -> Usage] /\ channel \in [Turns -> ChannelRow]
  BY OfTurn
<1>2. /\ IsReserved(t) /\ authz[t].state = "reserved"
      /\ ledger' = reverseReservation(ledger, t, authz[t].share)
      /\ authz' = [authz EXCEPT ![t].state = "reaped"]
      /\ reversing' \subseteq reversing /\ UNCHANGED <<run, usage, raced>>
  BY DEF reverseTurnAuthorization, IsReserved
<1>3. /\ authz' \in [Turns -> Authorization]
      /\ authz'[t].state = "reaped" /\ authz'[t].charged = authz[t].charged
      /\ \A u \in Turns \ {t} : authz'[u] = authz[u]
  BY <1>1, <1>2 DEF Authorization, Terminal
<1>4. /\ SoundLedger(ledger') /\ ledger' \in Ledger
      /\ \A u \in Turns : LedgerAgrees(u)'
      /\ \A u \in Turns \ {t} :
           alreadyRefundedManna(ledger', u) = alreadyRefundedManna(ledger, u)
  BY <1>2, <1>3, MoneyReturned DEF Refunded
<1>5. RowAgrees(t)'
  BY <1>1, <1>2, <1>3 DEF RowAgrees, Billed, Is
<1>6. \A u \in Turns \ {t} : RowAgrees(u)'
  BY <1>2, <1>3, RowFrame DEF TablesOK
<1>7. channel[t].status \notin Finished
  BY <1>1, <1>2 DEF RowAgrees, Billed, Is, Finished
<1>8. KeepsFinished
  BY <1>2, <1>4, <1>7 DEF KeepsFinished
<1> QED
  BY <1>2, <1>3, <1>4, <1>5, <1>6, <1>8 DEF TablesOK, TypeOK

\* reverseTx: a reserved turn is reversed, a settled one compensated while its
\* row says so, and the row and the usage row are closed if they are claimed.
LEMMA ReverseTxStep ==
  ASSUME TablesOK, NEW t \in Turns, reverseTx(t)
  PROVE  TablesOK' /\ KeepsFinished
<1> DEFINE row == [channel[t] EXCEPT !.status = "refunded", !.metered = 0,
                                     !.compensating = FALSE]
<1>1. /\ LedgerAgrees(t) /\ RowAgrees(t) /\ authz \in [Turns -> Authorization]
      /\ usage \in [Turns -> Usage] /\ channel \in [Turns -> ChannelRow]
      /\ SoundLedger(ledger) /\ ledger \in Ledger /\ Max[t] \in Nat \ {0}
  BY OfTurn
<1>2. /\ authz[t].state = "settled" => DeliveryCompensation(t)
      /\ ReverseMoney(t) /\ UNCHANGED <<run, reversing, raced>>
  BY DEF reverseTx
<1>3. row \in ChannelRow /\ row.status = "refunded" /\ row.compensating = FALSE
  BY <1>1 DEF ChannelRow, Statuses, Finished
<1> HIDE DEF row
<1>4. /\ channel' \in [Turns -> ChannelRow] /\ stale' \subseteq Turns
      /\ usage' \in [Turns -> Usage]
      /\ Is(t, "refunding") => /\ channel'[t] = row /\ usage'[t].manna = 0
                               /\ usage'[t].status \in {"none", "error"}
      /\ ~Is(t, "refunding") => channel'[t] = channel[t] /\ usage'[t] = usage[t]
      /\ \A u \in Turns \ {t} : channel'[u] = channel[u] /\ usage'[u] = usage[u]
  <2>1. usage[t].status = "none" => usage[t].manna = 0
    BY <1>1 DEF RowAgrees
  <2>2. CASE Is(t, "refunding")
    <3>1. /\ channel' = [channel EXCEPT ![t] = row] /\ stale' = stale \ {t}
          /\ usage' = IF usage[t].status = "none" THEN usage
                      ELSE [usage EXCEPT ![t] = [status |-> "error", manna |-> 0]]
      BY <2>2 DEF reverseTx, Write, row
    <3>2. usage' \in [Turns -> Usage]
      BY <1>1, <3>1 DEF Usage
    <3> QED
      BY <1>1, <1>3, <2>1, <2>2, <3>1, <3>2 DEF TablesOK
  <2>3. CASE ~Is(t, "refunding")
    BY <1>1, <2>3 DEF reverseTx, TablesOK
  <2> QED
    BY <2>2, <2>3
<1>5. /\ Is(t, "refunding") => Is(t, "refunded")' /\ ~Billed(t)'
      /\ ~Is(t, "refunding") => (Is(t, "refunded")' <=> Is(t, "refunded"))
  BY <1>3, <1>4 DEF Is, Billed
<1>6. /\ SoundLedger(ledger') /\ ledger' \in Ledger
      /\ authz' \in [Turns -> Authorization]
      /\ \A u \in Turns : LedgerAgrees(u)'
      /\ \A u \in Turns \ {t} : /\ authz'[u] = authz[u]
                                /\ alreadyRefundedManna(ledger', u) = alreadyRefundedManna(ledger, u)
      /\ ~Is(t, "refunding") => /\ authz'[t].state # "settled"
                                /\ IsReserved(t) \/ UNCHANGED <<ledger, authz>>
      /\ authz'[t].state # "reserved"
  <2>1. CASE IsReserved(t)
    <3>1. /\ ledger' = reverseReservation(ledger, t, authz[t].share)
          /\ authz' = [authz EXCEPT ![t].state = "reversed"]
      BY <1>2, <2>1 DEF ReverseMoney
    <3>2. /\ authz' \in [Turns -> Authorization]
          /\ authz'[t].state = "reversed" /\ authz'[t].charged = authz[t].charged
          /\ \A u \in Turns \ {t} : authz'[u] = authz[u]
      BY <1>1, <3>1 DEF Authorization, Terminal
    <3>3. /\ SoundLedger(ledger') /\ ledger' \in Ledger
          /\ \A u \in Turns : LedgerAgrees(u)'
          /\ \A u \in Turns \ {t} :
               alreadyRefundedManna(ledger', u) = alreadyRefundedManna(ledger, u)
      BY <1>4, <2>1, <3>1, <3>2, MoneyReturned DEF Refunded
    <3> QED
      BY <2>1, <3>2, <3>3
  <2>2. CASE DeliveryCompensation(t)
    <3>1. /\ ledger' = reverseReservation(ledger, t, authz[t].share)
          /\ authz' = authz /\ authz[t].state = "settled" /\ Is(t, "refunding")
      BY <1>2, <2>2 DEF ReverseMoney, IsReserved, DeliveryCompensation
    <3>2. /\ SoundLedger(ledger') /\ ledger' \in Ledger
          /\ \A u \in Turns : LedgerAgrees(u)'
          /\ \A u \in Turns \ {t} :
               alreadyRefundedManna(ledger', u) = alreadyRefundedManna(ledger, u)
      BY <1>4, <1>5, <3>1, MoneyReturned
    <3> QED
      BY <1>1, <3>1, <3>2
  <2>3. CASE ~IsReserved(t) /\ ~DeliveryCompensation(t)
    <3>1. UNCHANGED <<ledger, authz>> /\ authz[t].state \notin {"settled", "reserved"}
      BY <1>2, <2>3 DEF ReverseMoney, IsReserved
    <3>2. \A u \in Turns : LedgerAgrees(u)
      BY DEF TablesOK
    <3>3. LedgerAgrees(t)'
      BY <1>1, <3>1, LedgerFrame
    <3>4. \A u \in Turns \ {t} : LedgerAgrees(u)'
      BY <1>4, <3>1, <3>2, LedgerFrame DEF Is
    <3> QED
      BY <1>1, <3>1, <3>3, <3>4
  <2> QED
    BY <2>1, <2>2, <2>3
<1>7. RowAgrees(t)'
  <2>1. CASE Is(t, "refunding")
    <3>1. channel'[t].compensating = FALSE
      BY <1>3, <1>4, <2>1
    <3> QED
      BY <1>4, <1>5, <1>6, <2>1, <3>1 DEF RowAgrees
  <2>2. CASE ~Is(t, "refunding")
    <3>1. ~Billed(t)
      BY <1>1, <1>2, <2>2 DEF RowAgrees, DeliveryCompensation
    <3>2. ~Billed(t)' /\ channel'[t] = channel[t] /\ usage'[t] = usage[t]
      BY <1>4, <2>2, <3>1 DEF Billed
    <3> QED
      BY <1>1, <1>5, <1>6, <2>2, <3>2 DEF RowAgrees, Is
  <2> QED
    BY <2>1, <2>2
<1>8. \A u \in Turns \ {t} : RowAgrees(u)'
  BY <1>4, <1>6, RowFrame DEF TablesOK
<1>9. KeepsFinished
  <2>1. ASSUME channel[t].status \in Finished
        PROVE  /\ ~Is(t, "refunding") /\ ~IsReserved(t) /\ channel'[t] = channel[t]
               /\ usage'[t] = usage[t] /\ ledger' = ledger
    <3>1. ~Is(t, "refunding")
      BY <2>1 DEF Is, Finished
    <3>2. ~IsReserved(t)
      BY <1>1, <2>1 DEF IsReserved, RowAgrees, Billed, Finished, Is
    <3> QED
      BY <1>4, <1>6, <3>1, <3>2
  <2> QED
    BY <1>4, <1>6, <2>1 DEF KeepsFinished
<1> QED
  BY <1>2, <1>4, <1>6, <1>7, <1>8, <1>9 DEF TablesOK, TypeOK

-----------------------------------------------------------------------------
(* The statements on the channel row alone.                                *)

\* claimTurn inserts the row, markError and claimSettlement move it on: none of
\* them concerns a row that is billed or was claimed.
LEMMA SetStatusStep ==
  ASSUME TablesOK, NEW t \in Turns, NEW st \in {"reserving", "error", "settling"},
         channel[t].status \in {"none", "reserving", "reserved"},
         SetStatus(t, st), UNCHANGED kernel
  PROVE  TablesOK' /\ KeepsFinished
<1> DEFINE row == [channel[t] EXCEPT !.status = st]
<1>1. RowAgrees(t) /\ channel \in [Turns -> ChannelRow]
  BY OfTurn
<1>2. row \in ChannelRow /\ row.status = st /\ row.compensating = channel[t].compensating
  BY <1>1 DEF ChannelRow, Statuses, Working
<1>3. Write(t, row)
  BY DEF SetStatus
<1>4. ~Billed(t) /\ ~row.compensating
  BY <1>1, <1>2 DEF RowAgrees, Billed, Is
<1> HIDE DEF row
<1> QED
  BY <1>2, <1>3, <1>4, RowStep DEF Finished

\* A claimed row is billed exactly if it is to be compensated.
LEMMA ClaimStep ==
  ASSUME TablesOK, NEW t \in Turns, NEW S, S \subseteq Working, claimRefundTx(t, S)
  PROVE  TablesOK' /\ KeepsFinished
<1>1. RowAgrees(t) /\ channel \in [Turns -> ChannelRow]
  BY OfTurn
<1>2. /\ channel[t].status \in Working /\ Write(t, Claimed(t)) /\ UNCHANGED kernel
  BY DEF claimRefundTx
<1>3. /\ Claimed(t) \in ChannelRow /\ Claimed(t).status = "refunding"
      /\ Claimed(t).metered = channel[t].metered
      /\ Claimed(t).compensating <=> channel[t].compensating \/ Is(t, "delivery_pending")
  BY <1>1 DEF Claimed, ChannelRow, Statuses, Working
<1>4. Claimed(t).compensating <=> Billed(t)
  BY <1>1, <1>2, <1>3 DEF RowAgrees, Billed, Is, Working
<1> QED
  BY <1>2, <1>3, <1>4, RowStep DEF Working, Finished

\* A failed refund leaves a compensation claimed, and any other in error.
LEMMA MarkFailedStep ==
  ASSUME TablesOK, NEW t \in Turns, Is(t, "refunding"),
         SetStatus(t, IF channel[t].compensating THEN "refunding" ELSE "error"),
         UNCHANGED kernel
  PROVE  TablesOK' /\ KeepsFinished
<1> DEFINE st == IF channel[t].compensating THEN "refunding" ELSE "error"
           row == [channel[t] EXCEPT !.status = st]
<1>1. RowAgrees(t) /\ channel \in [Turns -> ChannelRow]
  BY OfTurn
<1>2. /\ row \in ChannelRow /\ row.status = st
      /\ row.compensating = channel[t].compensating /\ row.metered = channel[t].metered
  BY <1>1 DEF ChannelRow, Statuses, Working
<1>3. Write(t, row)
  BY DEF SetStatus
<1>4. Billed(t) <=> row.compensating
  BY <1>1, <1>2 DEF Billed, Is
<1> HIDE DEF row
<1> QED
  BY <1>2, <1>3, <1>4, RowStep DEF Finished, Is

\* The proof of delivery finds a billed row and leaves it billed.
LEMMA DeliveredStep ==
  ASSUME TablesOK, NEW t \in Turns, markDelivered(t)
  PROVE  TablesOK' /\ KeepsFinished
<1> DEFINE row == [channel[t] EXCEPT !.status = "delivered", !.compensating = FALSE]
<1>1. RowAgrees(t) /\ channel \in [Turns -> ChannelRow]
  BY OfTurn
<1>2. /\ row \in ChannelRow /\ row.status = "delivered" /\ row.compensating = FALSE
      /\ row.metered = channel[t].metered
  BY <1>1 DEF ChannelRow, Statuses, Finished
<1>3. Write(t, row) /\ UNCHANGED kernel
  BY DEF markDelivered
<1>4. Billed(t) /\ channel[t].status \notin Finished
  BY DEF markDelivered, Billed, Is, Finished
<1> HIDE DEF row
<1> QED
  BY <1>2, <1>3, <1>4, RowStep

-----------------------------------------------------------------------------
(* The kernel's transactions that are not the channel's.                   *)

\* A step of the ticket or of the waiting reversals.
LEMMA KernelFrame ==
  ASSUME TablesOK, UNCHANGED <<ledger, authz, usage, channel, stale>>,
         run' \in [Turns -> {"none", "started", "output"}],
         reversing' \subseteq Turns \X Refunded, raced' \subseteq Turns
  PROVE  TablesOK' /\ KeepsFinished
<1>1. \A t \in Turns : LedgerAgrees(t)' /\ RowAgrees(t)'
  BY DEF TablesOK, LedgerAgrees, Returns, RowAgrees, Billed, Is
<1> QED
  BY <1>1 DEF TablesOK, TypeOK, KeepsFinished

\* A purchase or a grant touches no turn.
LEMMA FundStep ==
  ASSUME TablesOK, NEW a \in Accounts, NEW n \in Amounts, NEW o \in Ops, NEW s \in BOOLEAN,
         Fund(a, n, o, s), UNCHANGED <<channel, stale>>
  PROVE  TablesOK' /\ KeepsFinished
<1> DEFINE r == [acct |-> a, amount |-> n, refunds |-> NoOp]
<1>1. n \in Nat \ {0} /\ Turns \subseteq Ops
  BY AmountsAssumption, TurnsAssumption
<1>2. /\ SoundLedger(ledger) /\ ledger \in Ledger
      /\ o \notin Turns /\ ~Applied(ledger, OpKey(o))
      /\ ledger' = credit(ledger, a, n, o, s) /\ UNCHANGED <<authz, run, usage, reversing, raced>>
  BY DEF Fund, TablesOK, TypeOK
<1>3. PICK ds \in Int, dd \in Int : Inserted(ledger, ledger', OpKey(o), r, ds, dd)
  BY <1>1, <1>2, CreditInserts
<1>4. r \in Row /\ r.refunds = NoOp
  BY <1>1 DEF Row
<1>5. /\ SoundLedger(ledger')
      /\ \A p \in Ops : alreadyRefundedManna(ledger', p) = alreadyRefundedManna(ledger, p)
      /\ \A p \in Ops \ {o} : ledger'.rows[OpKey(p)] = ledger.rows[OpKey(p)]
  <2> HIDE DEF r
  <2> QED  BY <1>2, <1>3, <1>4, OpPreservesSound
<1>6. \A t \in Turns : LedgerAgrees(t)' /\ RowAgrees(t)'
  BY <1>1, <1>2, <1>5, LedgerFrame, RowFrame DEF TablesOK, Is
<1> QED
  BY <1>1, <1>2, <1>5, <1>6 DEF TablesOK, TypeOK, SoundLedger, KeepsFinished

-----------------------------------------------------------------------------
(* The handlers.                                                           *)

LEMMA GoOK ==
  ASSUME CallsOK, NEW c \in Callers, NEW t \in Turns, NEW pc \in Places, Go(c, pc, t)
  PROVE  CallsOK'
BY DEF CallsOK, Go, Awake

LEMMA ReturnOK ==
  ASSUME CallsOK, NEW c \in Callers, Return(c)
  PROVE  CallsOK'
BY DEF CallsOK, Return, Asleep

\* A handler that runs works on a turn.
LEMMA AtTurn ==
  ASSUME CallsOK, NEW c \in Callers, ~Idle(c)
  PROVE  call[c].turn \in Turns
BY DEF CallsOK, Idle, Asleep, Awake

\* The first transaction of a request of the runtime, or of the sweep.
LEMMA RequestStep ==
  ASSUME ChannelInv, NEW c \in Callers, NEW t \in Turns,
         claimTurn(c, t) \/ markUsableOutput(c, t) \/ refundTurn(c, t)
           \/ refundDeliveryFailure(c, t) \/ claimStale(c, t)
  PROVE  ChannelInv' /\ KeepsFinished
<1>1. TablesOK /\ CallsOK
  BY DEF ChannelInv
<1>2. ASSUME UNCHANGED db PROVE TablesOK' /\ KeepsFinished
  BY <1>1, <1>2, TablesFrame DEF db, TablesOK
<1>3. CASE claimTurn(c, t)
  <2>1. CallsOK'
    BY <1>1, <1>3, GoOK, ReturnOK DEF claimTurn, Call, Attempt, NoWrite, Places
  <2>2. (Is(t, "none") /\ SetStatus(t, "reserving") /\ UNCHANGED kernel) \/ UNCHANGED db
    BY <1>3 DEF claimTurn, Call, Attempt, NoWrite
  <2> QED
    BY <1>1, <1>2, <2>1, <2>2, SetStatusStep DEF ChannelInv, Is
<1>4. CASE markUsableOutput(c, t)
  <2>1. CallsOK'
    BY <1>1, <1>4, GoOK, ReturnOK DEF markUsableOutput, Call, Attempt, NoWrite, Places
  <2>2. (markTurnUsableOutput(t) /\ UNCHANGED <<channel, stale>>) \/ UNCHANGED db
    BY <1>4 DEF markUsableOutput, Call, Attempt, NoWrite
  <2>3. ASSUME markTurnUsableOutput(t), UNCHANGED <<channel, stale>>
        PROVE  TablesOK' /\ KeepsFinished
    BY <1>1, <2>3, KernelFrame DEF markTurnUsableOutput, TablesOK, TypeOK
  <2> QED
    BY <1>2, <2>1, <2>2, <2>3 DEF ChannelInv
<1>5. CASE refundTurn(c, t) \/ refundDeliveryFailure(c, t) \/ claimStale(c, t)
  <2>1. CallsOK'
    BY <1>1, <1>5, GoOK, ReturnOK
       DEF refundTurn, refundDeliveryFailure, claimStale, Call, Attempt, Places
  <2>2. \/ claimRefundTx(t, BeforeSettlement)
        \/ claimRefundTx(t, BeforeSettlement \cup {"delivery_pending"})
        \/ claimRefundTx(t, Working)
        \/ UNCHANGED db
    BY <1>5 DEF refundTurn, refundDeliveryFailure, claimStale, Call, Attempt
  <2>3. /\ BeforeSettlement \subseteq Working
        /\ BeforeSettlement \cup {"delivery_pending"} \subseteq Working
    BY DEF BeforeSettlement, Working
  <2> QED
    BY <1>1, <1>2, <2>1, <2>2, <2>3, ClaimStep DEF ChannelInv
<1> QED
  BY <1>3, <1>4, <1>5

\* Every later transaction of a handler.
LEMMA ContinueStep ==
  ASSUME ChannelInv, NEW c \in Callers, Continue(c)
  PROVE  ChannelInv' /\ KeepsFinished
<1> DEFINE t == call[c].turn
<1>1. TablesOK /\ CallsOK
  BY DEF ChannelInv
<1>2. ASSUME UNCHANGED db PROVE TablesOK' /\ KeepsFinished
  BY <1>1, <1>2, TablesFrame DEF db, TablesOK
<1>3. t \in Turns
  BY <1>1, AtTurn DEF Continue, authorize, markError, claimSettlement, settleAuthorized,
                      failSettlement, reverseAuthorized, markRefundFailed, At, Idle
<1>4. CASE authorize(c)
  <2>1. CallsOK'
    BY <1>1, <1>3, <1>4, GoOK, ReturnOK DEF authorize, Call, Attempt, NoWrite, Places
  <2>2. authorizeTx(t) \/ UNCHANGED db
    BY <1>4 DEF authorize, Call, Attempt, NoWrite
  <2> QED
    BY <1>1, <1>2, <1>3, <2>1, <2>2, AuthorizeStep DEF ChannelInv
<1>5. CASE markError(c)
  <2>1. CallsOK'
    BY <1>1, <1>5, ReturnOK DEF markError, Call, Attempt, NoWrite
  <2>2. (Is(t, "reserving") /\ SetStatus(t, "error") /\ UNCHANGED kernel) \/ UNCHANGED db
    BY <1>5 DEF markError, Call, Attempt, NoWrite
  <2> QED
    BY <1>1, <1>2, <1>3, <2>1, <2>2, SetStatusStep DEF ChannelInv, Is
<1>6. CASE claimSettlement(c)
  <2>1. CallsOK'
    BY <1>1, <1>3, <1>6, GoOK, ReturnOK DEF claimSettlement, Call, Attempt, NoWrite, Places
  <2>2. (Is(t, "reserved") /\ SetStatus(t, "settling") /\ UNCHANGED kernel) \/ UNCHANGED db
    BY <1>6 DEF claimSettlement, Call, Attempt, NoWrite
  <2> QED
    BY <1>1, <1>2, <1>3, <2>1, <2>2, SetStatusStep DEF ChannelInv, Is
<1>7. ASSUME NEW n \in Amounts \cup {0}, settleAuthorized(c, n)
      PROVE  ChannelInv' /\ KeepsFinished
  <2>1. CallsOK'
    BY <1>1, <1>3, <1>7, GoOK, ReturnOK DEF settleAuthorized, Call, Attempt, NoWrite, Places
  <2>2. settleTx(t, n) \/ UNCHANGED db
    BY <1>7 DEF settleAuthorized, Call, Attempt, NoWrite
  <2>3. n \in Nat
    BY AmountsAssumption
  <2> QED
    BY <1>1, <1>2, <1>3, <2>1, <2>2, <2>3, SettleTxStep DEF ChannelInv
<1>8. CASE failSettlement(c)
  <2> DEFINE S == BeforeSettlement \cup {"settling"}
  <2>1. CallsOK'
    BY <1>1, <1>3, <1>8, GoOK, ReturnOK DEF failSettlement, Call, Attempt, NoWrite, Places
  <2>2. claimRefundTx(t, S) \/ UNCHANGED db
    BY <1>8 DEF failSettlement, Call, Attempt, NoWrite
  <2>3. S \subseteq Working
    BY DEF BeforeSettlement, Working
  <2> QED
    BY <1>1, <1>2, <1>3, <2>1, <2>2, <2>3, ClaimStep DEF ChannelInv
<1>9. CASE reverseAuthorized(c)
  <2>1. CallsOK'
    BY <1>1, <1>3, <1>9, GoOK, ReturnOK DEF reverseAuthorized, Call, Attempt, NoWrite, Places
  <2>2. reverseTx(t) \/ UNCHANGED db
    BY <1>9 DEF reverseAuthorized, Call, Attempt, NoWrite
  <2> QED
    BY <1>1, <1>2, <1>3, <2>1, <2>2, ReverseTxStep DEF ChannelInv
<1>10. CASE markRefundFailed(c)
  <2>1. CallsOK'
    BY <1>1, <1>10, ReturnOK DEF markRefundFailed, Call, Attempt, NoWrite
  <2>2. \/ /\ Is(t, "refunding") /\ UNCHANGED kernel
           /\ SetStatus(t, IF channel[t].compensating THEN "refunding" ELSE "error")
        \/ UNCHANGED db
    BY <1>10 DEF markRefundFailed, Call, Attempt, NoWrite
  <2> QED
    BY <1>1, <1>2, <1>3, <2>1, <2>2, MarkFailedStep DEF ChannelInv
<1> QED
  BY <1>4, <1>5, <1>6, <1>7, <1>8, <1>9, <1>10 DEF Continue

\* Every step of the channel runtime, the sweep, the reaper and the timers.
LEMMA ChannelNextInv ==
  ChannelInv /\ [ChannelNext]_channelVars => ChannelInv' /\ KeepsFinished
<1> SUFFICES ASSUME ChannelInv, [ChannelNext]_channelVars PROVE ChannelInv' /\ KeepsFinished
  OBVIOUS
<1>1. TablesOK /\ CallsOK
  BY DEF ChannelInv
<1>2. ASSUME UNCHANGED call PROVE CallsOK'
  BY <1>1, <1>2 DEF CallsOK
<1>3. ASSUME UNCHANGED db PROVE TablesOK' /\ KeepsFinished
  BY <1>1, <1>3, TablesFrame DEF db, TablesOK
<1>4. CASE FundAccount
  BY <1>1, <1>2, <1>4, FundStep DEF FundAccount, ChannelInv
<1>5. ASSUME NEW t \in Turns, NEW c \in Handlers, Request(c, t)
      PROVE  ChannelInv' /\ KeepsFinished
  BY <1>5, RequestStep DEF Request, Callers
<1>6. ASSUME NEW t \in Turns, NEW c \in Callers, Sweep(c, t)
      PROVE  ChannelInv' /\ KeepsFinished
  BY <1>6, RequestStep DEF Sweep
<1>7. ASSUME NEW t \in Turns, markDelivered(t)
      PROVE  ChannelInv' /\ KeepsFinished
  <2>1. UNCHANGED call
    BY <1>7 DEF markDelivered
  <2> QED
    BY <1>1, <1>2, <1>7, <2>1, DeliveredStep DEF ChannelInv
<1>8. ASSUME NEW t \in Turns, GrowStale(t)
      PROVE  ChannelInv' /\ KeepsFinished
  BY <1>1, <1>2, <1>8, TablesFrame DEF GrowStale, kernel, vars, ChannelInv, TablesOK
<1>9. ASSUME NEW t \in Turns, Expire(t)
      PROVE  ChannelInv' /\ KeepsFinished
  BY <1>2, <1>3, <1>9 DEF Expire, ChannelInv
<1>10. ASSUME NEW t \in Turns, ReaperBegins(t)
       PROVE  ChannelInv' /\ KeepsFinished
  <2>1. reversing' \subseteq Turns \X Refunded
    BY <1>1, <1>10 DEF ReaperBegins, beginReversal, Refunded, TablesOK, TypeOK
  <2>2. UNCHANGED <<ledger, authz, run, usage, raced, channel, stale, call>>
    BY <1>10 DEF ReaperBegins, beginReversal
  <2> QED
    BY <1>1, <1>2, <2>1, <2>2, KernelFrame DEF TablesOK, TypeOK, ChannelInv
<1>11. ASSUME NEW t \in Turns, ReaperEnds(t)
       PROVE  ChannelInv' /\ KeepsFinished
  <2>1. UNCHANGED <<channel, stale, call>>
    BY <1>11 DEF ReaperEnds
  <2>2. reverseTurnAuthorization(t, "reaped") \/ endReversal(t, "reaped")
    BY <1>11 DEF ReaperEnds, Attempt
  <2>3. ASSUME endReversal(t, "reaped") PROVE TablesOK' /\ KeepsFinished
    <3>1. reversing' \subseteq Turns \X Refunded /\ UNCHANGED <<ledger, authz, run, usage, raced>>
      BY <1>1, <2>3 DEF endReversal, TablesOK, TypeOK
    <3> QED
      BY <1>1, <2>1, <3>1, KernelFrame DEF TablesOK, TypeOK
  <2> QED
    BY <1>1, <1>2, <2>1, <2>2, <2>3, ReapedStep DEF ChannelInv
<1>12. ASSUME NEW c \in Callers, Continue(c)
       PROVE  ChannelInv' /\ KeepsFinished
  BY <1>12, ContinueStep
<1>13. ASSUME NEW c \in Callers, Crash(c)
       PROVE  ChannelInv' /\ KeepsFinished
  BY <1>1, <1>3, <1>13, ReturnOK DEF Crash, ChannelInv
<1>14. CASE UNCHANGED channelVars
  BY <1>2, <1>3, <1>14 DEF channelVars, ChannelInv
<1> QED
  BY <1>4, <1>5, <1>6, <1>7, <1>8, <1>9, <1>10, <1>11, <1>12, <1>13, <1>14
     DEF ChannelNext, Callers

-----------------------------------------------------------------------------
(* The theorems.                                                           *)

LEMMA ChannelInductive ==
  ChannelSpec => []ChannelInv
<1>1. ChannelInv /\ [ChannelNext]_channelVars => ChannelInv'
  BY ChannelNextInv
<1> QED
  BY ChannelInitInv, <1>1, PTL DEF ChannelSpec

\* settleAuthorized, refundClaimedTurn, markDelivered, the sweep and the reaper
\* leave the ledger, the authorization, the channel row and the usage row of a
\* delivered or refunded turn stating one charge, in whatever order they come.
THEOREM ChargedIfDeliveredThm ==
  ChannelSpec => []ChargedIfDelivered
<1>1. ChannelInv => ChargedIfDelivered
  <2> SUFFICES ASSUME ChannelInv, NEW t \in Turns
               PROVE  DeliveredIsCharged(t) /\ RefundedIsFree(t)
    BY DEF ChargedIfDelivered
  <2>1. /\ LedgerAgrees(t) /\ RowAgrees(t) /\ Max[t] \in Nat \ {0}
        /\ authz \in [Turns -> Authorization]
    BY OfTurn DEF ChannelInv
  <2>2. authz[t].charged \in Nat /\ authz[t].state \in {"none", "reserved"} \cup Terminal
    BY <2>1 DEF Authorization
  <2>3. DeliveredIsCharged(t)
    <3>1. CASE channel[t].status \in {"delivery_pending", "delivered"}
      <4>1. /\ authz[t].state = "settled" /\ authz[t].charged = channel[t].metered
            /\ usage[t] = [status |-> "completed", manna |-> channel[t].metered]
            /\ ~Is(t, "refunded")
        BY <2>1, <3>1 DEF RowAgrees, Billed, Is
      <4>2. alreadyRefundedManna(ledger, t) = Max[t] - authz[t].charged
        BY <2>1, <4>1 DEF LedgerAgrees, Returns, Refunded
      <4>3. NetCharge(t) = authz[t].charged
        BY <2>1, <2>2, <4>1, <4>2 DEF NetCharge
      <4> QED
        BY <4>1, <4>3 DEF DeliveredIsCharged
    <3> QED
      BY <3>1 DEF DeliveredIsCharged
  <2>4. RefundedIsFree(t)
    <3>1. CASE Is(t, "refunded")
      <4>1. /\ authz[t].state # "reserved" /\ usage[t].manna = 0
            /\ usage[t].status \in {"none", "error"}
        BY <2>1, <3>1 DEF RowAgrees
      <4>2. CASE authz[t].state = "none"
        BY <4>1, <4>2 DEF RefundedIsFree, NetCharge
      <4>3. CASE authz[t].state # "none"
        <5>1. authz[t].state \in {"settled"} \cup Refunded
          BY <2>2, <4>1, <4>3 DEF Terminal, Refunded
        <5>2. alreadyRefundedManna(ledger, t) = Max[t]
          BY <2>1, <3>1, <4>3, <5>1 DEF LedgerAgrees, Returns, Refunded
        <5>3. NetCharge(t) = 0
          BY <2>1, <4>3, <5>2 DEF NetCharge
        <5> QED
          BY <4>1, <5>3 DEF RefundedIsFree
      <4> QED
        BY <4>2, <4>3
    <3> QED
      BY <3>1 DEF RefundedIsFree
  <2> QED
    BY <2>3, <2>4
<1> QED
  BY ChannelInductive, <1>1, PTL

\* No late claim, failed refund, sweep or reaper changes a delivered or refunded
\* row, its usage row or what the ledger has returned for it.
THEOREM FinishedIsFinalThm ==
  ChannelSpec => FinishedIsFinal
<1>1. ChannelInv /\ [ChannelNext]_channelVars =>
        [\A t \in Turns :
           channel[t].status \in Finished =>
             /\ channel'[t] = channel[t]
             /\ usage'[t] = usage[t]
             /\ alreadyRefundedManna(ledger', t) = alreadyRefundedManna(ledger, t)]_channelVars
  BY ChannelNextInv DEF KeepsFinished
<1> QED
  BY ChannelInductive, <1>1, PTL DEF ChannelSpec, FinishedIsFinal
=============================================================================
