------------------------------ MODULE Billing ------------------------------
(***************************************************************************)
(* routes/billing.ts: the subscription events Stripe sends for one         *)
(* subscription, in any order and more than once; the purchase of manna    *)
(* through Stripe Checkout; and the redemption of one voucher.             *)
(*                                                                         *)
(* A webhook is one transaction under the advisory locks of its billing    *)
(* identities.  What an event says is its rank of                          *)
(* subscriptionCapabilityRank, which tells any two of them apart.          *)
(***************************************************************************)
EXTENDS FiniteSets, Integers

CONSTANTS
  Events,          \* events of the subscription
  Created,         \* event.created, in seconds
  Rank,            \* the rank of the status and the plan it carries
  Invoices,        \* those that are invoice.payment_succeeded
  Checkouts,       \* POST /billing/checkout for manna
  Redeemers,       \* POST /billing/vouchers/redeem
  RedeemerOf,      \* the account of each
  MaxRedemptions,  \* of the voucher
  MaxBillingFaults \* bound: failed calls and crashes

ASSUME BillingAssumption ==
  /\ Created \in [Events -> Nat] /\ Rank \in [Events -> Nat]
  /\ Invoices \subseteq Events
  /\ MaxRedemptions \in Nat /\ MaxBillingFaults \in Nat

\* The keys of the ledger's rows: stripe:<event>, stripe:<session> and
\* voucher:<code>:<account> are never the same.
ASSUME KeysAssumption ==
  /\ IsFiniteSet(Redeemers)
  /\ \A v \in Redeemers : RedeemerOf[v] \notin Events \cup Checkouts
  /\ Events \cap Checkouts = {}

VARIABLES
  plan,       \* billing_subscriptions: last_stripe_event_at and the rank it stores
  applied,    \* events whose transaction has committed
  credited,   \* manna_transactions by their keys stripe:... and voucher:...
  intent,     \* stripe_checkout_intents.state of each checkout
  checkout,   \* where the checkout is: the request, then the buyer
  redeemed,   \* manna_vouchers.redeemed_count
  redeeming,  \* where each redemption's transaction is
  billingFaults

billingVars == <<plan, applied, credited, intent, checkout, redeemed, redeeming,
                 billingFaults>>

NoPlan == [at |-> -1, rank |-> 0]

BillingInit ==
  /\ plan = NoPlan
  /\ applied = {} /\ credited = {}
  /\ intent = [k \in Checkouts |-> "none"]
  /\ checkout = [k \in Checkouts |-> "idle"]
  /\ redeemed = 0
  /\ redeeming = [v \in Redeemers |-> "idle"]
  /\ billingFaults = 0

BillingFault == billingFaults < MaxBillingFaults /\ billingFaults' = billingFaults + 1

-----------------------------------------------------------------------------
(* Subscription events.                                                    *)

\* Mutant: the row an event of the same second wrote stays.
IsNewer(e) == plan.at < Created[e]

\* setWhere of upsertSubscription: within a second the lesser capability wins.
Supersedes(e) ==
  \/ plan.at < Created[e]
  \/ plan.at = Created[e] /\ Rank[e] <= plan.rank

upsertSubscription(e) ==
  plan' = IF Supersedes(e) THEN [at |-> Created[e], rank |-> Rank[e]] ELSE plan

\* An invoice whose credit exists changes nothing: assertCreditBinding.
handleSubscriptionEvent(e) ==
  /\ IF e \in credited
     THEN UNCHANGED <<plan, credited>>
     ELSE /\ upsertSubscription(e)
          /\ credited' = credited \cup ({e} \cap Invoices)
  /\ applied' = applied \cup {e}

\* Delivered, again, late, or before an older one; a failure rolls back.
deliver(e) ==
  /\ handleSubscriptionEvent(e)
  /\ UNCHANGED <<intent, checkout, redeemed, redeeming, billingFaults>>

-----------------------------------------------------------------------------
(* Checkout.                                                               *)

Step(k, from, to) == checkout[k] = from /\ checkout' = [checkout EXCEPT ![k] = to]

\* A statement of the request; with a failure the request is over.
Record(k, from, state, to) ==
  /\ checkout[k] = from
  /\ \/ /\ intent' = [intent EXCEPT ![k] = state]
        /\ Step(k, from, to) /\ UNCHANGED billingFaults
     \/ /\ BillingFault /\ Step(k, from, "over")
        /\ intent' \in {intent, [intent EXCEPT ![k] = state]}
  /\ UNCHANGED <<plan, applied, credited, redeemed, redeeming>>

\* The account is locked and no erasure of it is under way, or the request is
\* refused.
prepareIntent(k) == Record(k, "idle", "preparing", "prepared")
startProvider(k) == Record(k, "prepared", "provider_started", "started")

\* createCheckoutSession: the session may exist although the call fails.
createSession(k) ==
  /\ \/ Step(k, "started", "session") /\ UNCHANGED billingFaults
     \/ Step(k, "started", "over") /\ BillingFault
  /\ UNCHANGED <<plan, applied, credited, intent, redeemed, redeeming>>

\* Mutant: the buyer is sent to Stripe while the session is being recorded.
recordAfterReply(k) ==
  \/ Record(k, "session", "created", "replied")
  \/ /\ Step(k, "session", "replied")
     /\ UNCHANGED <<plan, applied, credited, intent, redeemed, redeeming, billingFaults>>

\* Only a request that has recorded the session answers with its address.
recordSession(k) == Record(k, "session", "created", "replied")

\* The buyer completes the session: with the money, or with a payment method
\* whose money comes later.
pay(k) ==
  /\ Step(k, "replied", "paid") \/ Step(k, "replied", "unpaid")
  /\ UNCHANGED <<plan, applied, credited, intent, redeemed, redeeming, billingFaults>>

\* checkout.session.async_payment_succeeded, which handleStripeEvent ignores.
payLate(k) ==
  /\ Step(k, "unpaid", "late") \/ Step(k, "answered", "late")
  /\ UNCHANGED <<plan, applied, credited, intent, redeemed, redeeming, billingFaults>>

\* checkout.session.completed.  A session without its money is answered, and the
\* event is done; an intent that is not recorded is refused, and Stripe sends
\* the event again.
handleCheckoutCompleted(k) ==
  /\ \/ /\ checkout[k] = "paid" /\ intent[k] = "created"
        /\ credited' = credited \cup {k} /\ UNCHANGED checkout
     \/ Step(k, "unpaid", "answered") /\ UNCHANGED credited
  /\ UNCHANGED <<plan, applied, intent, redeemed, redeeming, billingFaults>>

-----------------------------------------------------------------------------
(* Vouchers.                                                               *)

InTransaction(v) == redeeming[v] \in {"locked", "counted"}
Goes(v, place) == redeeming' = [redeeming EXCEPT ![v] = place]

\* Mutant: no advisory lock.
Unlocked(v) == TRUE

\* pg_advisory_xact_lock of the voucher and the account.
LockIsFree(v) ==
  \A u \in Redeemers \ {v} : InTransaction(u) => RedeemerOf[u] # RedeemerOf[v]

\* The lock is granted, and the ledger read for an earlier redemption.
lockVoucher(v) ==
  /\ redeeming[v] = "idle" /\ LockIsFree(v)
  /\ Goes(v, IF RedeemerOf[v] \in credited THEN "ended" ELSE "locked")
  /\ UNCHANGED <<plan, applied, credited, intent, checkout, redeemed, billingFaults>>

\* The guarded UPDATE, which waits for the row's lock.
countRedemption(v) ==
  /\ redeeming[v] = "locked"
  /\ \A u \in Redeemers : redeeming[u] # "counted"
  /\ Goes(v, IF redeemed < MaxRedemptions THEN "counted" ELSE "ended")
  /\ UNCHANGED <<plan, applied, credited, intent, checkout, redeemed, billingFaults>>

\* The credit, which is a replay under a used key, and the commit.
creditVoucher(v) ==
  /\ redeeming[v] = "counted"
  /\ \/ /\ redeemed' = redeemed + 1
        /\ credited' = credited \cup {RedeemerOf[v]}
        /\ UNCHANGED billingFaults
     \/ BillingFault /\ UNCHANGED <<redeemed, credited>>
  /\ Goes(v, "ended")
  /\ UNCHANGED <<plan, applied, intent, checkout>>

BillingNext ==
  \/ \E e \in Events : deliver(e)
  \/ \E k \in Checkouts :
       \/ prepareIntent(k) \/ startProvider(k) \/ createSession(k) \/ recordSession(k)
       \/ pay(k) \/ payLate(k) \/ handleCheckoutCompleted(k)
  \/ \E v \in Redeemers : lockVoucher(v) \/ countRedemption(v) \/ creditVoucher(v)

\* Stripe repeats an event until it is accepted.
BillingSpec == BillingInit /\ [][BillingNext]_billingVars
               /\ \A k \in Checkouts : WF_billingVars(handleCheckoutCompleted(k))

-----------------------------------------------------------------------------
(* Properties.                                                             *)

\* billing.ts:554-557: "Stripe delivers out of order, so a stale
\* customer.subscription.updated could resurrect a canceled row".  The plan is
\* what the set of events that arrived says, in whatever order and however
\* often they came: the latest second, and within it the least capability.
PlanFollowsEvents ==
  IF applied = {} THEN plan = NoPlan
  ELSE \E e \in applied :
         /\ plan = [at |-> Created[e], rank |-> Rank[e]]
         /\ \A f \in applied :
              \/ Created[f] < Created[e]
              \/ Created[f] = Created[e] /\ Rank[f] >= Rank[e]

\* billing.ts, redeem: "a burned slot".  Every count of the voucher is the
\* credit of another account, and there are no more than it allows.
SlotsAreCredits ==
  /\ redeemed = Cardinality({RedeemerOf[v] : v \in Redeemers} \cap credited)
  /\ redeemed <= MaxRedemptions

\* Whoever paid when the session completed is credited, although the request that
\* made the session may have failed or died at any point; nobody else is: neither
\* one whose money is still to come nor one whose money came later ("late"), since
\* only the completed session's own payment_status is looked at.
EveryPaymentIsCredited ==
  \A k \in Checkouts : /\ checkout[k] = "paid" ~> k \in credited
                       /\ [](k \in credited => checkout[k] = "paid")
=============================================================================
