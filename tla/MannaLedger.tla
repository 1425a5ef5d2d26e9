----------------------------- MODULE MannaLedger -----------------------------
(***************************************************************************)
(* What the manna ledger promises its callers: each operation of           *)
(* packages/core/src/manna.ts takes effect in one atomic step or not at    *)
(* all.  A replay of a key that has been applied, a debit the balance (or  *)
(* a spend cap) refuses and a refund leg that throws write nothing and are *)
(* stuttering steps here.  LedgerTransactions shows that the statement by  *)
(* statement database transactions implement this specification.           *)
(***************************************************************************)
EXTENDS MannaOps

CONSTANT Amounts   \* the amounts callers debit, credit and settle with

ASSUME AmountsAssumption == Amounts \subseteq Nat \ {0}

VARIABLES
  ledger,     \* manna_accounts and manna_transactions
  drawn,      \* subscriptionDrawn as each debit reported it to its caller,
              \* who keeps it and hands it back at settlement or reversal
  restored,   \* subscription manna the legs of each debit have credited back
  legacy      \* debits credited by refund(), which knows no split

vars == <<ledger, drawn, restored, legacy>>

Init ==
  /\ ledger = EmptyLedger
  /\ drawn = [o \in Ops |-> 0]
  /\ restored = [o \in Ops |-> 0]
  /\ legacy = {}

\* debit({accountId, amount, idempotencyKey}).
Debit(a, n, o) ==
  /\ ~Applied(ledger, OpKey(o))
  /\ CanCover(ledger, a, n)
  /\ ledger' = debit(ledger, a, n, o)
  /\ drawn' = [drawn EXCEPT ![o] = subscriptionDrawn(ledger, a, n)]
  /\ UNCHANGED <<restored, legacy>>

\* credit({accountId, amount, idempotencyKey, toSubscriptionBalance}).
Credit(a, n, o, toSubscription) ==
  /\ ~Applied(ledger, OpKey(o))
  /\ ledger' = credit(ledger, a, n, o, toSubscription)
  /\ UNCHANGED <<drawn, restored, legacy>>

\* The subscription manna this step credits to the payer of o.
Restore(o) ==
  restored' = [restored EXCEPT ![o] = @ + ledger'.subscription[PayerOf(ledger, o)]
                                        - ledger.subscription[PayerOf(ledger, o)]]

\* settleReservation({reservationKey, chargeManna, reservedSubscriptionManna}).
Settle(o, charge) ==
  /\ SettleApplies(ledger, o, charge)
  /\ ledger' = settleReservation(ledger, o, charge, drawn[o])
  /\ Restore(o)
  /\ UNCHANGED <<drawn, legacy>>

\* reverseReservation({reservationKey, reservedSubscriptionManna}).
Reverse(o) ==
  /\ ReverseApplies(ledger, o)
  /\ ledger' = reverseReservation(ledger, o, drawn[o])
  /\ Restore(o)
  /\ UNCHANGED <<drawn, legacy>>

\* refund({originalIdempotencyKey}).
Refund(o) ==
  /\ RefundApplies(ledger, o)
  /\ ledger' = refund(ledger, o)
  /\ legacy' = legacy \cup {o}
  /\ UNCHANGED <<drawn, restored>>

Next ==
  \E o \in Ops :
    \/ \E a \in Accounts, n \in Amounts : Debit(a, n, o)
    \/ \E a \in Accounts, n \in Amounts, s \in BOOLEAN : Credit(a, n, o, s)
    \/ \E c \in Amounts \cup {0} : Settle(o, c)
    \/ Reverse(o)
    \/ Refund(o)

Spec == Init /\ [][Next]_vars

-----------------------------------------------------------------------------
(* Properties.                                                             *)

\* The guarded UPDATE keeps both pots of every account at or above zero,
\* whatever sequence of debits and refund legs runs; every row is well formed.
TypeOK ==
  /\ ledger \in Ledger
  /\ drawn \in [Ops -> Nat]
  /\ restored \in [Ops -> Nat]
  /\ legacy \subseteq Ops

\* refundLeg never over-credits: whatever mixture of settlements, reversals
\* and legacy refunds a debit sees, its legs sum to at most what it took, each
\* of them on the payer's account and linked to that debit.
NeverOverRefunded == LegsSound(ledger)

\* Every reversal of a debit can be repeated: after any mixture of legs
\* reverseReservation applies, replays or finds nothing left, and never throws
\* its own replay-validation or over-refund error at a caller that retries.
ReversalRetriable ==
  \A o \in Ops : IsDebit(ledger, o) => ReverseCommits(ledger, o)

\* Settlement is split-exact: of the manna a debit still holds, the part that
\* came from the subscription pot is what a debit of just that much would have
\* drawn, through any sequence of settlements and reversals.
SplitExact ==
  \A o \in Ops \ legacy :
    IsDebit(ledger, o) =>
      drawn[o] - restored[o] =
        Least(drawn[o], Reserved(ledger, o) - alreadyRefundedManna(ledger, o))

\* manna_transactions is append-only: no operation changes or removes a row.
AppendOnly ==
  [][\A k \in Key : Applied(ledger, k) => ledger'.rows[k] = ledger.rows[k]]_vars

\* The pots and the journal never drift apart: money moves only in a step that
\* inserts the row accounting for it, and only by that row's amount.
BalancesFollowRows == [][MovesWithRow(ledger, ledger')]_ledger
=============================================================================
