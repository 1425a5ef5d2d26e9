---------------------------- MODULE ChannelTurns ----------------------------
(***************************************************************************)
(* Metered turns of the channel runtime, Discord and Telegram              *)
(* (apps/api/src/services/channel-metering.ts), on top of the              *)
(* authorization kernel.  The runtime reserves a turn, settles or refunds  *)
(* it when the provider is done, and reports that the reply was delivered  *)
(* or could not be.  Its requests are repeated and overtake one another,   *)
(* so any handler may work on any turn at any time; a handler is a         *)
(* sequence of transactions.  The stale sweep has a timer of its own in    *)
(* every API process, and the reaper of turn reservations comes by as it   *)
(* does for chat turns.                                                    *)
(***************************************************************************)
EXTENDS TurnAuthorization, DatabaseCalls

CONSTANTS
  Handlers,   \* requests of the runtime, and sweeps that overlap the timer's,
              \* which the API works on at once
  Sweeper     \* the timer that calls refundStale

ASSUME SweeperAssumption == Sweeper \notin Handlers

VARIABLES
  channel,    \* channel_turns: status, meteredManna, and whether error_code
              \* is 'channel_delivery_compensation_pending'
  stale,      \* rows not updated for 45 minutes
  expired,    \* authorizations older than TURN_RESERVATION_TTL_MS
  call        \* what each handler and the sweeper are about to do

kernel == vars
db == <<ledger, authz, run, usage, reversing, raced, channel, stale>>
channelVars == <<db, expired, call, faults>>

Working == {"reserving", "reserved", "settling", "delivery_pending", "refunding", "error"}
Finished == {"delivered", "refunded"}

ChannelInit ==
  /\ Init
  /\ channel = [t \in Turns |-> [status |-> "none", metered |-> 0, compensating |-> FALSE]]
  /\ stale = {} /\ expired = {}
  /\ call = [c \in Handlers \cup {Sweeper} |-> [pc |-> "idle"]]
  /\ faults = 0

Is(t, status) == channel[t].status = status

\* Every update of the row refreshes updated_at.
Write(t, row) ==
  /\ channel' = [channel EXCEPT ![t] = row]
  /\ stale' = stale \ {t}

SetStatus(t, status) == Write(t, [channel[t] EXCEPT !.status = status])

Idle(c) == call[c].pc = "idle"
At(c, pc) == call[c].pc = pc
Go(c, pc, t) == call' = [call EXCEPT ![c] = [pc |-> pc, turn |-> t]]
Return(c) == call' = [call EXCEPT ![c] = [pc |-> "idle"]]

Call(tx, done, thrown) == Attempt(tx, UNCHANGED db, done, thrown)
NoWrite(next) == UNCHANGED <<db, faults>> /\ next

-----------------------------------------------------------------------------
(* reserve.                                                                *)

\* Insert, or find the row of an earlier request; only a row that is still
\* 'reserving' lets the request go on.
claimTurn(c, t) ==
  /\ Idle(c)
  /\ \/ /\ Is(t, "none")
        /\ Call(SetStatus(t, "reserving") /\ UNCHANGED kernel, Go(c, "authorize", t), Return(c))
     \/ Is(t, "reserving") /\ NoWrite(Go(c, "authorize", t))

\* Debit, authorization, status and provider ticket in one transaction.  A
\* replay finds the ticket used and is rolled back.
authorizeTx(t) ==
  /\ Is(t, "reserving")
  /\ authz[t].state = "none" /\ run[t] = "none" /\ usage[t].status = "none"
  /\ ~Applied(ledger, OpKey(t)) /\ CanCover(ledger, Payer[t], Max[t])
  /\ ledger' = debit(ledger, Payer[t], Max[t], t)
  /\ authz' = [authz EXCEPT ![t] =
                 [state |-> "reserved", charged |-> 0,
                  share |-> subscriptionDrawn(ledger, Payer[t], Max[t])]]
  /\ run' = [run EXCEPT ![t] = "started"]
  /\ usage' = [usage EXCEPT ![t] = [status |-> "provider_admitted", manna |-> 0]]
  /\ SetStatus(t, "reserved")
  /\ UNCHANGED <<reversing, raced>>

\* An unavailable connection, a cap or the balance may refuse it.
authorize(c) ==
  LET t == call[c].turn IN
  /\ At(c, "authorize")
  /\ \/ Call(authorizeTx(t), Return(c), Go(c, "markError", t))
     \/ NoWrite(Go(c, "markError", t))

markError(c) ==
  LET t == call[c].turn IN
  /\ At(c, "markError")
  /\ IF Is(t, "reserving")
     THEN Call(SetStatus(t, "error") /\ UNCHANGED kernel, Return(c), Return(c))
     ELSE NoWrite(Return(c))

-----------------------------------------------------------------------------
(* settle.                                                                 *)

\* The output mark; without a ticket, or on an unmarked turn that is not
\* reserved any more, it throws.
markUsableOutput(c, t) ==
  /\ Idle(c)
  /\ \/ Call(markTurnUsableOutput(t) /\ UNCHANGED <<channel, stale>>,
             Go(c, "claimSettlement", t), Return(c))
     \/ run[t] = "output" /\ NoWrite(Go(c, "claimSettlement", t))

claimSettlement(c) ==
  LET t == call[c].turn IN
  /\ At(c, "claimSettlement")
  /\ IF Is(t, "reserved")
     THEN Call(SetStatus(t, "settling") /\ UNCHANGED kernel, Go(c, "settle", t), Return(c))
     ELSE NoWrite(Return(c))

Settleable(t) ==
  IsReserved(t) /\ Is(t, "settling") /\ usage[t].status = "provider_admitted"

settleTx(t, charge) ==
  /\ Settleable(t)
  /\ Settled(t, charge)
  /\ usage' = [usage EXCEPT ![t] = [status |-> "completed", manna |-> charge]]
  /\ Write(t, [status |-> "delivery_pending", metered |-> charge, compensating |-> FALSE])
  /\ UNCHANGED <<run, reversing, raced>>

\* The charge is metered and clamped to the reservation, or all of it.
settleAuthorized(c, charge) ==
  LET t == call[c].turn IN
  /\ At(c, "settle") /\ charge <= Max[t]
  /\ IF Settleable(t)
     THEN Call(settleTx(t, charge), Return(c), Go(c, "failSettlement", t))
     ELSE NoWrite(Go(c, "failSettlement", t))

-----------------------------------------------------------------------------
(* Claims of a refund.                                                     *)

\* A turn that was settled is compensated, and keeps that in its error code.
Claimed(t) ==
  [channel[t] EXCEPT !.status = "refunding",
                     !.compensating = @ \/ Is(t, "delivery_pending")]

claimRefundTx(t, claimable) ==
  /\ channel[t].status \in claimable
  /\ Write(t, Claimed(t))
  /\ UNCHANGED kernel

BeforeSettlement == {"reserving", "reserved", "error"}

\* The handler that claimed the settlement, and only it, may turn it into a
\* refund.
failSettlement(c) ==
  LET t == call[c].turn
      claimable == BeforeSettlement \cup {"settling"}
  IN
  /\ At(c, "failSettlement")
  /\ IF channel[t].status \in claimable
     THEN Call(claimRefundTx(t, claimable), Go(c, "reverse", t), Return(c))
     ELSE NoWrite(Return(c))

\* The runtime gives up, or settles with another model than was reserved.
refundTurn(c, t) ==
  /\ Idle(c)
  /\ Call(claimRefundTx(t, BeforeSettlement), Go(c, "reverse", t), Return(c))

\* The reply could not be delivered.
refundDeliveryFailure(c, t) ==
  /\ Idle(c)
  /\ Call(claimRefundTx(t, BeforeSettlement \cup {"delivery_pending"}),
          Go(c, "reverse", t), Return(c))

\* Mutant: the sweep leaves turns in 'error' alone.
claimStaleSkipsError(c, t) ==
  /\ Idle(c) /\ t \in stale
  /\ Call(claimRefundTx(t, Working \ {"error"}), Go(c, "reverse", t), Return(c))

\* The sweep claims a row nobody has touched for 45 minutes.
claimStale(c, t) ==
  /\ Idle(c) /\ t \in stale
  /\ Call(claimRefundTx(t, Working), Go(c, "reverse", t), Return(c))

-----------------------------------------------------------------------------
(* refundClaimedTurn.                                                      *)

\* Mutant: a settled turn is reversed whatever the channel row says.
AlwaysCompensates(t) == authz[t].state = "settled"

\* A settled authorization stays settled; its charge is returned only while
\* the row is claimed for compensation.
DeliveryCompensation(t) ==
  authz[t].state = "settled" /\ Is(t, "refunding") /\ channel[t].compensating

\* The ledger leg and the authorization of a refund.
ReverseMoney(t) ==
  IF IsReserved(t) \/ DeliveryCompensation(t)
  THEN /\ ReverseCommits(ledger, t)
       /\ ledger' = reverseReservation(ledger, t, authz[t].share)
       /\ authz' = IF IsReserved(t) THEN [authz EXCEPT ![t].state = "reversed"] ELSE authz
  ELSE UNCHANGED <<ledger, authz>>

\* The channel row, and the usage row with it, are closed only if the row is
\* still claimed.
reverseTx(t) ==
  /\ authz[t].state = "settled" => DeliveryCompensation(t)
  /\ ReverseMoney(t)
  /\ IF Is(t, "refunding")
     THEN /\ Write(t, [channel[t] EXCEPT !.status = "refunded", !.metered = 0,
                                         !.compensating = FALSE])
          /\ usage' = IF usage[t].status = "none" THEN usage
                      ELSE [usage EXCEPT ![t] = [status |-> "error", manna |-> 0]]
     ELSE UNCHANGED <<channel, stale, usage>>
  /\ UNCHANGED <<run, reversing, raced>>

reverseAuthorized(c) ==
  LET t == call[c].turn IN
  /\ At(c, "reverse")
  /\ \/ Call(reverseTx(t), Return(c), Go(c, "markRefundFailed", t))
     \/ /\ authz[t].state = "settled" /\ ~DeliveryCompensation(t)
        /\ NoWrite(Go(c, "markRefundFailed", t))

\* Mutant: the update has no status condition.
markRefundFailedAnyStatus(c) ==
  LET t == call[c].turn IN
  /\ At(c, "markRefundFailed")
  /\ Call(SetStatus(t, IF channel[t].compensating THEN "refunding" ELSE "error")
            /\ UNCHANGED kernel,
          Return(c), Return(c))

markRefundFailed(c) ==
  LET t == call[c].turn IN
  /\ At(c, "markRefundFailed")
  /\ IF Is(t, "refunding")
     THEN Call(SetStatus(t, IF channel[t].compensating THEN "refunding" ELSE "error")
                 /\ UNCHANGED kernel,
               Return(c), Return(c))
     ELSE NoWrite(Return(c))

-----------------------------------------------------------------------------
(* markDelivered.                                                          *)

\* One transaction.  A compensation that is claimed and has not reached the
\* ledger loses to the proof of delivery.
markDelivered(t) ==
  /\ \/ Is(t, "delivery_pending")
     \/ /\ Is(t, "refunding") /\ channel[t].compensating
        /\ ~Applied(ledger, refundIdempotencyKey(t))
  /\ Write(t, [channel[t] EXCEPT !.status = "delivered", !.compensating = FALSE])
  /\ UNCHANGED <<kernel, expired, call, faults>>

-----------------------------------------------------------------------------
(* The environment.                                                        *)

\* The process that runs the handler dies.
Crash(c) ==
  /\ ~Idle(c)
  /\ Fault /\ Return(c) /\ UNCHANGED <<db, expired>>

GrowStale(t) ==
  /\ channel[t].status \in Working /\ t \notin stale
  /\ stale' = stale \cup {t}
  /\ UNCHANGED <<kernel, channel, expired, call, faults>>

Expire(t) ==
  /\ authz[t].state # "none" /\ t \notin expired
  /\ expired' = expired \cup {t}
  /\ UNCHANGED <<db, call, faults>>

\* The reaper of turn reservations.  A marked channel turn has no partial
\* settlement: the attempt throws and the row is left to the stale sweep.
ReaperBegins(t) ==
  /\ t \in expired /\ IsReserved(t)
  /\ beginReversal(t, "reaped")
  /\ UNCHANGED <<channel, stale, expired, call, faults>>

ReaperEnds(t) ==
  /\ \/ Attempt(reverseTurnAuthorization(t, "reaped"), endReversal(t, "reaped"), TRUE, TRUE)
     \/ ~IsReserved(t) /\ endReversal(t, "reaped") /\ UNCHANGED faults
  /\ UNCHANGED <<channel, stale, expired, call>>

FundAccount ==
  /\ \E a \in Accounts, n \in Amounts, o \in Ops, s \in BOOLEAN : Fund(a, n, o, s)
  /\ UNCHANGED <<channel, stale, expired, call, faults>>

-----------------------------------------------------------------------------

Request(c, t) ==
  /\ claimTurn(c, t) \/ markUsableOutput(c, t) \/ refundTurn(c, t) \/ refundDeliveryFailure(c, t)
  /\ UNCHANGED expired

Continue(c) ==
  /\ \/ authorize(c) \/ markError(c) \/ claimSettlement(c)
     \/ \E n \in Amounts \cup {0} : settleAuthorized(c, n)
     \/ failSettlement(c) \/ reverseAuthorized(c) \/ markRefundFailed(c)
  /\ UNCHANGED expired

Sweep(c, t) == claimStale(c, t) /\ UNCHANGED expired

ChannelNext ==
  \/ FundAccount
  \/ \E t \in Turns :
       \/ \E c \in Handlers : Request(c, t)
       \/ \E c \in Handlers \cup {Sweeper} : Sweep(c, t)
       \/ markDelivered(t) \/ GrowStale(t) \/ Expire(t)
       \/ ReaperBegins(t) \/ ReaperEnds(t)
  \/ \E c \in Handlers \cup {Sweeper} : Continue(c) \/ Crash(c)

\* A handler that runs goes on unless its process dies, time passes, and the
\* sweep's timer keeps firing.  The runtime promises nothing.
ChannelFairness ==
  /\ \A c \in Handlers \cup {Sweeper} : WF_channelVars(Continue(c))
  /\ \A t \in Turns : WF_channelVars(Sweep(Sweeper, t)) /\ WF_channelVars(GrowStale(t))

ChannelSpec == ChannelInit /\ [][ChannelNext]_channelVars /\ ChannelFairness

-----------------------------------------------------------------------------
(* Properties.                                                             *)

\* What the turn costs its payer now.
NetCharge(t) ==
  IF authz[t].state = "none" THEN 0 ELSE Max[t] - alreadyRefundedManna(ledger, t)

DeliveredIsCharged(t) ==
  channel[t].status \in {"delivery_pending", "delivered"} =>
    /\ authz[t].state = "settled"
    /\ NetCharge(t) = channel[t].metered
    /\ authz[t].charged = channel[t].metered
    /\ usage[t] = [status |-> "completed", manna |-> channel[t].metered]

RefundedIsFree(t) ==
  Is(t, "refunded") =>
    /\ NetCharge(t) = 0
    /\ usage[t].status \in {"none", "error"} /\ usage[t].manna = 0

\* A reply that was delivered, or may still be, is paid for exactly, and a
\* refunded one costs nothing: ledger, authorization, channel row and usage row
\* agree, however the proof of delivery, the delivery failure, the sweep and the
\* reaper race, and whether the refund came before the settlement or after it.
ChargedIfDelivered == \A t \in Turns : DeliveredIsCharged(t) /\ RefundedIsFree(t)

\* Delivered and refunded are final: no late handler, sweep, failed refund or
\* reaper changes the row, its usage or the turn's money.
FinishedIsFinal ==
  [][\A t \in Turns :
       channel[t].status \in Finished =>
         /\ channel'[t] = channel[t]
         /\ usage'[t] = usage[t]
         /\ alreadyRefundedManna(ledger', t) = alreadyRefundedManna(ledger, t)]_channelVars

\* Every turn the runtime ever announced is delivered or refunded in the end,
\* although the runtime may never call again and any call may fail.
EveryChannelTurnEnds ==
  \A t \in Turns : ~Is(t, "none") ~> channel[t].status \in Finished
=============================================================================
