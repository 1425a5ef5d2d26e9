------------------------------ MODULE ChatTurns ------------------------------
(***************************************************************************)
(* Interactive chat turns and the reaper of their reservations             *)
(* (runClaimedTurn of apps/api/src/services/turns.ts for a turn without a  *)
(* source, and turn-reservation-reaper.ts), on top of the authorization    *)
(* kernel.  A turn is a sequence of awaited database transactions and      *)
(* gateway events; anything may happen between two of them.  A database    *)
(* call may throw although nothing was committed, or, with LostAcks,       *)
(* although everything was; the process may crash at any point.            *)
(*                                                                         *)
(* The turn's clock is abstracted to one bit, older than the reaper's TTL; *)
(* a slow but live turn may be that old.  Spend caps, account deletion and *)
(* account erasure refuse a reservation or a ticket nondeterministically.  *)
(***************************************************************************)
EXTENDS TurnAuthorization, DatabaseCalls

VARIABLES
  me,          \* the local state of each turn's process
  expired,     \* turns created more than TURN_RESERVATION_TTL_MS ago
  reaper       \* the reaper: where it is, the row it is at, what is left

kernel == vars
ownChatVars == <<me, expired, reaper>>
chatVars == <<kernel, faults, ownChatVars>>

NoChats ==
  /\ me = [t \in Turns |->
             [pc |-> "idle",
              marked |-> FALSE,      \* usableOutputMarked
              recorded |-> FALSE,    \* usageEventRecorded
              pending |-> FALSE,     \* partialSettlementPending
              terminal |-> FALSE,    \* terminalEvent # null
              refunded |-> FALSE,    \* what reverseTurn returned
              back |-> "none",       \* where reverseTurn returns to
              delivered |-> FALSE]]  \* the client has usable output
  /\ expired = {}
  /\ reaper = [pc |-> "idle", todo |-> {}]

ChatInit == Init /\ faults = 0 /\ NoChats

-----------------------------------------------------------------------------
(* A database call.                                                        *)

Call(tx, done, thrown) == Attempt(tx, UNCHANGED kernel, done, thrown)

\* The call returns, or throws, without having written anything.
NoWrite(next) == UNCHANGED <<kernel, faults>> /\ next

At(t, pc) == me[t].pc = pc
Streaming(t) == At(t, "stream") /\ ~me[t].terminal
Goto(t, pc) == me' = [me EXCEPT ![t].pc = pc]

\* reverseTurn is called and returns to where.
ReverseTurn(t, where) ==
  me' = [me EXCEPT ![t].pc = IF me[t].marked THEN "partial" ELSE "reverse",
                   ![t].back = where,
                   ![t].terminal = TRUE]

\* ... and returns.
ReturnFromReverse(t, fullyRefunded) ==
  me' = [me EXCEPT ![t].pc = IF me[t].back = "throw" THEN "done" ELSE "usage",
                   ![t].refunded = fullyRefunded]

-----------------------------------------------------------------------------
(* Before the stream.                                                      *)

ReserveTurn(t) ==
  /\ At(t, "idle")
  /\ \/ Call(reserveAuthorization(t), Goto(t, "claim"), Goto(t, "done"))
     \/ NoWrite(Goto(t, "done"))

\* A ticket that is refused leaves the reservation to its owner or the reaper;
\* a claim that throws gives it back.
ClaimTicket(t) ==
  /\ At(t, "claim")
  /\ \/ Call(claimTurnProviderStart(t), Goto(t, "prepare"), ReverseTurn(t, "throw"))
     \/ NoWrite(Goto(t, "done"))

\* Primer, user message, beginStream; a throw reverses the reservation.
Prepare(t) ==
  /\ At(t, "prepare")
  /\ Call(UNCHANGED kernel, Goto(t, "stream"), ReverseTurn(t, "throw"))

-----------------------------------------------------------------------------
(* The stream.                                                             *)

\* Mutant: the token is emitted before its mark is durable.
EmitThenMark(t) ==
  /\ Streaming(t) /\ ~me[t].marked
  /\ \/ Call(markTurnUsableOutput(t),
             me' = [me EXCEPT ![t].marked = TRUE, ![t].delivered = TRUE],
             me' = [me EXCEPT ![t].pc = "reverse", ![t].back = "internal",
                              ![t].terminal = TRUE, ![t].delivered = TRUE])
     \/ ~IsReserved(t) /\ NoWrite(ReverseTurn(t, "internal"))

\* The first usable token is marked before it is emitted; the trigger refuses
\* the mark of a turn that is not reserved any more.
FirstToken(t) ==
  /\ Streaming(t) /\ ~me[t].marked
  /\ \/ Call(markTurnUsableOutput(t),
             me' = [me EXCEPT ![t].marked = TRUE, ![t].delivered = TRUE],
             ReverseTurn(t, "internal"))
     \/ ~IsReserved(t) /\ NoWrite(ReverseTurn(t, "internal"))

\* turn.completed: the charge is metered and clamped to the ceiling, or the
\* ceiling itself when nothing could be metered.  The reply is published after
\* the terminal transaction; if that one does not commit the turn is reversed.
TurnCompleted(t, charge) ==
  /\ Streaming(t) /\ charge <= Max[t]
  /\ \/ Call(settleTerminal(t, charge),
             me' = [me EXCEPT ![t].terminal = TRUE, ![t].recorded = TRUE,
                              ![t].delivered = TRUE],
             ReverseTurn(t, "report"))
     \/ ~IsReserved(t) /\ NoWrite(ReverseTurn(t, "report"))

\* An error event, a stream that ends without a terminal event, a Claude CLI
\* completion without usage.
TurnFailed(t) ==
  /\ Streaming(t)
  /\ NoWrite(ReverseTurn(t, "report"))

\* The gateway client throws, also after the terminal event.
StreamThrows(t) ==
  /\ At(t, "stream")
  /\ NoWrite(ReverseTurn(t, "internal"))

StreamEnds(t) ==
  /\ At(t, "stream") /\ me[t].terminal
  /\ NoWrite(Goto(t, "done"))

-----------------------------------------------------------------------------
(* reverseTurn.                                                            *)

\* settlePartialOutputAuthorization throws on a usage row that says otherwise.
ConflictingUsage(t) ==
  /\ IsReserved(t)
  /\ usage[t].status # "provider_admitted"
  /\ usage[t] # [status |-> "error", manna |-> Max[t]]

\* settleMarkedPartialOutput, tried before the reversal ("partial") and again
\* when the reversal asks for it ("repartial").
SettlePartial(t) ==
  LET settled == me' = [me EXCEPT ![t].pc = "usage", ![t].refunded = TRUE,
                                  ![t].recorded = TRUE]
      failed(pends) ==
        me' = [me EXCEPT ![t].pc = IF At(t, "partial") THEN "reverse" ELSE "usage",
                         ![t].refunded = FALSE,
                         ![t].pending = @ \/ pends]
  IN /\ me[t].pc \in {"partial", "repartial"}
     /\ \/ Call(settlePartialOutputAuthorization(t), settled, failed(TRUE))
        \/ authz[t].state = "settled" /\ NoWrite(settled)
        \/ authz[t].state \in {"reversed", "reaped"} /\ NoWrite(failed(FALSE))
        \/ ConflictingUsage(t) /\ NoWrite(failed(TRUE))

\* The reversal's snapshot.
BeginReverse(t) ==
  /\ At(t, "reverse")
  /\ \/ beginReversal(t, "reversed") /\ Goto(t, "reverseLock") /\ UNCHANGED faults
     \/ run[t] = "output" /\ IsReserved(t) /\ NoWrite(Goto(t, "repartial"))
     \/ run[t] = "output" /\ ~IsReserved(t) /\ NoWrite(ReturnFromReverse(t, TRUE))
     \/ Fault /\ UNCHANGED kernel /\ ReturnFromReverse(t, FALSE)

\* A turn somebody else has ended counts as at rest.
FinishReverse(t) ==
  /\ At(t, "reverseLock")
  /\ \/ Attempt(reverseTurnAuthorization(t, "reversed"), endReversal(t, "reversed"),
                ReturnFromReverse(t, TRUE), ReturnFromReverse(t, FALSE))
     \/ /\ ~IsReserved(t) /\ endReversal(t, "reversed")
        /\ ReturnFromReverse(t, TRUE) /\ UNCHANGED faults

\* Mutant: every failed turn is recorded as charged its ceiling.
ErrorIsCharged(t) == Max[t]

\* What the error row states as charged.
ErrorCharge(t) ==
  IF me[t].back = "report" /\ ~me[t].refunded THEN Max[t] ELSE 0

\* recordUsageEvent, not strict: whatever happens, it is not tried again.  An
\* error event leaves the loop reading, an exception leaves the turn.
RecordError(t) ==
  LET go == me' = [me EXCEPT ![t].pc = IF me[t].back = "report" THEN "stream" ELSE "done",
                             ![t].recorded = @ \/ ~me[t].pending]
  IN /\ At(t, "usage")
     /\ IF me[t].recorded \/ me[t].pending THEN NoWrite(go)
        ELSE \/ Call(recordUsageEvent(t, ErrorCharge(t)), go, go)
             \/ usage[t].status \in {"completed", "error"} /\ NoWrite(go)

\* The API process dies; nothing of the turn's memory survives.
Crash(t) ==
  /\ me[t].pc \notin {"idle", "done"}
  /\ Fault
  /\ IF At(t, "reverseLock") THEN endReversal(t, "reversed") ELSE UNCHANGED kernel
  /\ Goto(t, "done")

-----------------------------------------------------------------------------
(* The reaper.                                                             *)

Expire(t) ==
  /\ authz[t].state # "none" /\ t \notin expired
  /\ expired' = expired \cup {t}
  /\ UNCHANGED <<kernel, me, reaper, faults>>

\* The sweep's query.
Scan ==
  /\ reaper.pc = "idle" /\ reaper.todo = {}
  /\ \E t \in expired : IsReserved(t)
  /\ reaper' = [reaper EXCEPT !.todo = {t \in expired : IsReserved(t)}]
  /\ UNCHANGED <<kernel, me, expired, faults>>

ReapRow(t) ==
  /\ reaper.pc = "idle" /\ t \in reaper.todo
  /\ reaper' = [pc |-> "partial", todo |-> reaper.todo, row |-> t]
  /\ UNCHANGED <<kernel, me, expired, faults>>

ReaperGoto(pc) == reaper' = [reaper EXCEPT !.pc = pc]

\* The row is done with, also when its transaction threw.
NextRow == reaper' = [pc |-> "idle", todo |-> reaper.todo \ {reaper.row}]

ReapPartial ==
  LET t == reaper.row IN
  /\ reaper.pc \in {"partial", "raced"}
  /\ \/ Call(settlePartialOutputAuthorization(t), NextRow, NextRow)
     \/ run[t] # "output" /\ NoWrite(ReaperGoto("reverse"))
     \/ run[t] = "output" /\ authz[t].state = "settled" /\ NoWrite(NextRow)
     \/ /\ run[t] = "output" /\ authz[t].state \in {"reversed", "reaped"}
        /\ NoWrite(IF reaper.pc = "partial" THEN ReaperGoto("reverse") ELSE NextRow)
     \/ run[t] = "output" /\ ConflictingUsage(t) /\ NoWrite(NextRow)
  /\ UNCHANGED <<me, expired>>

ReapBeginReverse ==
  LET t == reaper.row IN
  /\ reaper.pc = "reverse"
  /\ \/ beginReversal(t, "reaped") /\ ReaperGoto("lock") /\ UNCHANGED faults
     \/ run[t] = "output" /\ NoWrite(IF IsReserved(t) THEN ReaperGoto("raced") ELSE NextRow)
     \/ Fault /\ UNCHANGED kernel /\ NextRow
  /\ UNCHANGED <<me, expired>>

ReapFinishReverse ==
  LET t == reaper.row IN
  /\ reaper.pc = "lock"
  /\ \/ Attempt(reverseTurnAuthorization(t, "reaped"), endReversal(t, "reaped"),
                NextRow, NextRow)
     \/ ~IsReserved(t) /\ endReversal(t, "reaped") /\ NextRow /\ UNCHANGED faults
  /\ UNCHANGED <<me, expired>>

-----------------------------------------------------------------------------

FundAccount ==
  /\ \E a \in Accounts, n \in Amounts, o \in Ops, s \in BOOLEAN : Fund(a, n, o, s)
  /\ UNCHANGED <<me, expired, reaper, faults>>

TurnStep(t) ==
  /\ \/ ReserveTurn(t) \/ ClaimTicket(t) \/ Prepare(t)
     \/ FirstToken(t) \/ TurnFailed(t) \/ StreamThrows(t) \/ StreamEnds(t)
     \/ \E c \in Amounts \cup {0} : TurnCompleted(t, c)
     \/ SettlePartial(t) \/ BeginReverse(t) \/ FinishReverse(t) \/ RecordError(t)
     \/ Crash(t)
  /\ UNCHANGED <<expired, reaper>>

Reap ==
  \/ Scan \/ ReapPartial \/ ReapBeginReverse \/ ReapFinishReverse
  \/ \E t \in Turns : ReapRow(t)

ChatNext ==
  \/ FundAccount
  \/ Reap
  \/ \E t \in Turns : TurnStep(t) \/ Expire(t)

\* Time passes, and the reaper's timer keeps firing.  Nothing is assumed of a
\* turn's own process: its provider may hang for ever.
ChatFairness == WF_chatVars(Reap) /\ \A t \in Turns : WF_chatVars(Expire(t))

ChatSpec == ChatInit /\ [][ChatNext]_chatVars /\ ChatFairness

-----------------------------------------------------------------------------
(* Properties.                                                             *)

\* A client never has usable output of a turn that was refunded, whatever
\* fails or crashes and whenever the reaper comes by: the mark is durable
\* before the first token leaves, and from then on only settlement is left.
\* The exception is a mark made while a reversal waits for the row's lock.
DeliveredIsPaid ==
  \A t \in Turns \ raced :
    me[t].delivered => authz[t].state \in {"reserved", "settled"}

\* A turn that saw no failure ends with its money and its usage row at rest and
\* in agreement, whatever the gateway sent and whenever the reaper came by.
NetCharge(t) == Max[t] - alreadyRefundedManna(ledger, t)
UndisturbedTurnIsExact ==
  \A t \in Turns :
    faults = 0 /\ At(t, "done") /\ run[t] # "none" =>
      /\ authz[t].state \in Terminal
      /\ usage[t].status \in {"completed", "error"}
      /\ usage[t].manna = NetCharge(t)

\* recordUsageEvent: "Usage is an actual-billing surface ... this column
\* follows what settlement really charged after cap failures/refunds".
UsageIsActualBilling ==
  \A t \in Turns :
    authz[t].state \in Terminal /\ usage[t].status \in {"completed", "error"} =>
      usage[t].manna = NetCharge(t)

\* What the reaper promises to end: a reservation, whether its turn runs, has
\* crashed, hangs or cannot reach the database.
ReservationIsOpen == \E t \in Turns : IsReserved(t)
=============================================================================
