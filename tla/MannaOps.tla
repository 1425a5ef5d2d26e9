------------------------------ MODULE MannaOps ------------------------------
(***************************************************************************)
(* The manna ledger as a value, and the ledger operations as functions on  *)
(* it (packages/core/src/manna.ts).  A ledger has the two pots of every    *)
(* account and the append-only rows of manna_transactions, addressed by    *)
(* their unique idempotency key.  The modules that have a ledger among     *)
(* their variables apply these operators, alone or several of them in one  *)
(* database transaction.                                                   *)
(*                                                                         *)
(* Amounts are integers in units of the ledger's scale, numeric(20,4): one *)
(* unit is 0.0001 manna, so toFixed(4) has nothing left to round and the   *)
(* 1e-9 tolerances of the comparisons never apply.                         *)
(***************************************************************************)
EXTENDS Integers

CONSTANTS
  Accounts,   \* accounts.id
  Ops,        \* caller-owned idempotency keys of debits and credits
  NoRow,      \* "no transaction under this key"
  NoOp        \* refunds_transaction_id is null

Max0(x) == IF x > 0 THEN x ELSE 0
Least(x, y) == IF x <= y THEN x ELSE y

-----------------------------------------------------------------------------
(* Keys and rows.                                                          *)

\* The key a caller hands to debit or credit.
OpKey(o) == <<"op", o>>

refundIdempotencyKey(o) == <<"refund", o>>

\* A namespace of its own: it never collides with a refund key.
settleReservationIdempotencyKey(o) == <<"authz-settle", o>>

Key == {"op", "refund", "authz-settle"} \X Ops
LegKeys(o) == {refundIdempotencyKey(o), settleReservationIdempotencyKey(o)}

\* Debits are negative, credits and refund legs positive; assertValidAmount
\* and refundLeg's amount <= 0 return keep zero rows out of the table.
Row == [acct : Accounts, amount : Int \ {0}, refunds : Ops \cup {NoOp}]

Ledger == [balance      : [Accounts -> Nat],
           subscription : [Accounts -> Nat],
           rows         : [Key -> Row \cup {NoRow}]]

ASSUME NoOpAssumption == NoOp \notin Ops
ASSUME NoRowAssumption == NoRow \notin Row

EmptyLedger == [balance      |-> [a \in Accounts |-> 0],
                subscription |-> [a \in Accounts |-> 0],
                rows         |-> [k \in Key |-> NoRow]]

\* findTransactionByKey found a row.
Applied(L, k) == L.rows[k] # NoRow

getBalance(L, a) == L.balance[a] + L.subscription[a]

IsDebit(L, o) == Applied(L, OpKey(o)) /\ L.rows[OpKey(o)].amount < 0
PayerOf(L, o) == L.rows[OpKey(o)].acct

\* What the debit under key o took; negative when the row is a credit.
Reserved(L, o) == -L.rows[OpKey(o)].amount

-----------------------------------------------------------------------------
(* Debit and credit.                                                       *)

\* Mutant: the UPDATE without its guard.
UnguardedCover(L, a, n) == TRUE

\* The guarded UPDATE's WHERE clause.
CanCover(L, a, n) == getBalance(L, a) >= n

\* The subscription pot is spent first; the share taken from it is reported.
subscriptionDrawn(L, a, n) == Least(L.subscription[a], n)

debit(L, a, n, o) ==
  [balance      |-> [L.balance EXCEPT ![a] = @ - Max0(n - L.subscription[a])],
   subscription |-> [L.subscription EXCEPT ![a] = Max0(@ - n)],
   rows         |-> [L.rows EXCEPT ![OpKey(o)] =
                       [acct |-> a, amount |-> -n, refunds |-> NoOp]]]

credit(L, a, n, o, toSubscription) ==
  [balance      |-> IF toSubscription THEN L.balance
                    ELSE [L.balance EXCEPT ![a] = @ + n],
   subscription |-> IF toSubscription THEN [L.subscription EXCEPT ![a] = @ + n]
                    ELSE L.subscription,
   rows         |-> [L.rows EXCEPT ![OpKey(o)] =
                       [acct |-> a, amount |-> n, refunds |-> NoOp]]]

-----------------------------------------------------------------------------
(* Refund legs.                                                            *)

LegAmount(L, k) == IF Applied(L, k) THEN L.rows[k].amount ELSE 0

\* The sum of the rows linked to o by refunds_transaction_id.  refund and
\* reverseReservation share one key, settleReservation has the other, and no
\* other code links a row, so there are at most two.
alreadyRefundedManna(L, o) ==
  LegAmount(L, refundIdempotencyKey(o))
    + LegAmount(L, settleReservationIdempotencyKey(o))

\* Mutant: the legs already written are forgotten.
GrossRefundable(L, o) == Max0(Reserved(L, o))

Refundable(L, o) == Max0(Reserved(L, o) - alreadyRefundedManna(L, o))

\* The caller of refundLeg may name the amount n; otherwise it asks for
\* whatever is refundable.
Requested(L, o, named, n) == IF named THEN n ELSE Refundable(L, o)

\* The leg's key has been used: the row must reverse this debit, and be of the
\* named amount, or refundLeg throws.
LegReplays(L, o, k, named, n) ==
  /\ Applied(L, k)
  /\ Applied(L, OpKey(o)) => L.rows[k].refunds = o
  /\ named => L.rows[k].amount = n

\* The key is free, o is a debit and the request does not exceed what is
\* refundable; refundLeg throws on every other request under a free key.
LegOpen(L, o, k, named, n) ==
  /\ ~Applied(L, k)
  /\ IsDebit(L, o)
  /\ Requested(L, o, named, n) <= Refundable(L, o)

\* An open leg of nothing returns without a row.
LegApplies(L, o, k, named, n) ==
  LegOpen(L, o, k, named, n) /\ Requested(L, o, named, n) > 0

\* The caller's transaction goes on; otherwise refundLeg throws.
LegCommits(L, o, k, named, n) ==
  LegReplays(L, o, k, named, n) \/ LegOpen(L, o, k, named, n)

\* The leg is credited: toSubscription of it to the subscription pot.
creditLeg(L, o, k, n, toSubscription) ==
  LET s == Least(Max0(toSubscription), n)
      a == PayerOf(L, o)
  IN [balance      |-> [L.balance EXCEPT ![a] = @ + (n - s)],
      subscription |-> [L.subscription EXCEPT ![a] = @ + s],
      rows         |-> [L.rows EXCEPT ![k] =
                          [acct |-> a, amount |-> n, refunds |-> o]]]

refundLeg(L, o, k, named, n, toSubscription) ==
  IF LegApplies(L, o, k, named, n)
  THEN creditLeg(L, o, k, Requested(L, o, named, n), toSubscription)
  ELSE L

-----------------------------------------------------------------------------
(* Settling and reversing a worst-case reservation whose debit drew share  *)
(* from the subscription pot.                                              *)

\* Mutant: the charge is taken from the durable pot alone.
WholeShareUnused(charge, share) == share

\* The charge consumes the subscription share first, so what it leaves of the
\* share goes back to the subscription pot.
UnusedSubscription(charge, share) == Max0(share - Least(share, charge))

\* A charge beyond the reservation throws.
Chargeable(L, o, charge) ==
  Applied(L, OpKey(o)) /\ charge <= Reserved(L, o)

SettleCommits(L, o, charge) ==
  /\ Chargeable(L, o, charge)
  /\ LegCommits(L, o, settleReservationIdempotencyKey(o), TRUE, Reserved(L, o) - charge)

SettleApplies(L, o, charge) ==
  /\ Chargeable(L, o, charge)
  /\ LegApplies(L, o, settleReservationIdempotencyKey(o), TRUE, Reserved(L, o) - charge)

settleReservation(L, o, charge, share) ==
  refundLeg(L, o, settleReservationIdempotencyKey(o), TRUE,
            Reserved(L, o) - charge, UnusedSubscription(charge, share))

\* Mutant: the amount is named also when nothing is left to reverse.
AlwaysNamedReverseCommits(L, o) ==
  /\ Applied(L, OpKey(o))
  /\ LegCommits(L, o, refundIdempotencyKey(o), TRUE, Refundable(L, o))

\* reverseReservation names the amount unless nothing is left to reverse.
ReverseCommits(L, o) ==
  /\ Applied(L, OpKey(o))
  /\ LegCommits(L, o, refundIdempotencyKey(o), Refundable(L, o) > 0, Refundable(L, o))

ReverseApplies(L, o) ==
  /\ Applied(L, OpKey(o))
  /\ LegApplies(L, o, refundIdempotencyKey(o), Refundable(L, o) > 0, Refundable(L, o))

ReversedSubscription(L, o, share) == Least(share, Refundable(L, o))

reverseReservation(L, o, share) ==
  refundLeg(L, o, refundIdempotencyKey(o), Refundable(L, o) > 0, Refundable(L, o),
            ReversedSubscription(L, o, share))

\* refund: the legacy reversal, which credits the durable pot only.  Without a
\* row under o it returns null.
RefundApplies(L, o) == LegApplies(L, o, refundIdempotencyKey(o), FALSE, 0)

refund(L, o) == refundLeg(L, o, refundIdempotencyKey(o), FALSE, 0, 0)

-----------------------------------------------------------------------------
(* What is true of every ledger these operators produce.                   *)

\* Every leg is a positive row on the payer's account that reverses its own
\* debit, and the legs of a debit never return more than the debit took.
LegsSound(L) ==
  \A o \in Ops :
    /\ \A k \in LegKeys(o) :
         Applied(L, k) => /\ IsDebit(L, o)
                          /\ L.rows[k].amount > 0
                          /\ L.rows[k].refunds = o
                          /\ L.rows[k].acct = PayerOf(L, o)
    /\ IsDebit(L, o) => alreadyRefundedManna(L, o) <= Reserved(L, o)

\* Rows written by debit and credit link to no other row.
OpsSound(L) ==
  \A o \in Ops : Applied(L, OpKey(o)) => L.rows[OpKey(o)].refunds = NoOp

\* A reversal or a legacy refund returns everything its debit still held.
ReversalFinal(L) ==
  \A o \in Ops : Applied(L, refundIdempotencyKey(o)) =>
                   alreadyRefundedManna(L, o) = Reserved(L, o)

SoundLedger(L) ==
  L \in Ledger /\ LegsSound(L) /\ OpsSound(L) /\ ReversalFinal(L)

-----------------------------------------------------------------------------
(* What is true of every write.                                            *)

\* One row is inserted, and its account's total, and no other, moves by that
\* row's amount.
MovesWithRow(L, M) ==
  \E k \in Key :
    /\ ~Applied(L, k) /\ Applied(M, k)
    /\ \A j \in Key \ {k} : M.rows[j] = L.rows[j]
    /\ \A a \in Accounts :
         getBalance(M, a) = getBalance(L, a)
                              + (IF M.rows[k].acct = a THEN M.rows[k].amount ELSE 0)
=============================================================================
