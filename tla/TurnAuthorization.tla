-------------------------- MODULE TurnAuthorization --------------------------
(***************************************************************************)
(* The economic authorization of provider turns                            *)
(* (apps/api/src/services/turn-authorization.ts and the transactions of    *)
(* turns.ts that use it): a turn reserves the most it can cost, consumes   *)
(* its one provider-start ticket, marks its first usable output, and ends  *)
(* settled, reversed or reaped.  Every action is one database transaction; *)
(* any caller (a turn, a recovery, the reaper) may run any of them at any  *)
(* time, and one that throws or returns early changes nothing.             *)
(*                                                                         *)
(* One transaction is split in two.  reverseTurnAuthorization reads the    *)
(* state and the output mark with SELECT ... LEFT JOIN turn_provider_runs  *)
(* ... FOR UPDATE OF a.  The statement's snapshot is taken before the wait *)
(* for the authorization row's lock.  When the wait ends PostgreSQL rereads*)
(* the locked row, but the joined row stays the one of the snapshot: the   *)
(* state is current, usable_output_at may be stale.                        *)
(***************************************************************************)
EXTENDS MannaOps

CONSTANTS
  Turns,     \* turn ids; a turn's reservation is the debit under its own key
  Payer,     \* the account that pays for each turn
  Max,       \* authorizedMaxManna of each turn: the ceiling of its model
  Amounts    \* the amounts accounts are funded with and turns are charged

ASSUME AmountsAssumption == Amounts \subseteq Nat \ {0}
ASSUME TurnsAssumption ==
  Turns \subseteq Ops /\ Payer \in [Turns -> Accounts] /\ Max \in [Turns -> Amounts]

VARIABLES
  ledger,      \* manna_accounts and manna_transactions
  authz,       \* turn_authorizations
  run,         \* turn_provider_runs: the ticket and its usable_output_at
  usage,       \* usage_events
  reversing,   \* reversals whose snapshot has seen no output and that wait
               \* for the lock: the turn and the terminal state they write
  raced        \* history: turns whose output was marked under such a wait

vars == <<ledger, authz, run, usage, reversing, raced>>

Terminal == {"settled", "reversed", "reaped"}
Authorization == [state : {"none", "reserved"} \cup Terminal, share : Nat, charged : Nat]
Refunded == {"reversed", "reaped"}
Usage == [status : {"none", "provider_admitted", "completed", "error"}, manna : Nat]

NoTurns ==
  /\ authz = [t \in Turns |-> [state |-> "none", share |-> 0, charged |-> 0]]
  /\ run = [t \in Turns |-> "none"]
  /\ usage = [t \in Turns |-> [status |-> "none", manna |-> 0]]
  /\ reversing = {}
  /\ raced = {}

Init == ledger = EmptyLedger /\ NoTurns

IsReserved(t) == authz[t].state = "reserved"

\* A reversal of t waits for the lock.
Waiting(t) == \E s \in Refunded : <<t, s>> \in reversing

-----------------------------------------------------------------------------
(* Reserving.                                                              *)

\* A purchase or a subscription grant.
Fund(a, n, o, toSubscription) ==
  /\ o \notin Turns
  /\ ~Applied(ledger, OpKey(o))
  /\ ledger' = credit(ledger, a, n, o, toSubscription)
  /\ UNCHANGED <<authz, run, usage, reversing, raced>>

\* debit and insertTurnAuthorization in one transaction; the row keeps the
\* split the debit reported.  A replay finds its own live reservation or is
\* refused, and writes nothing.
reserveAuthorization(t) ==
  /\ ~Applied(ledger, OpKey(t)) /\ authz[t].state = "none"
  /\ CanCover(ledger, Payer[t], Max[t])
  /\ ledger' = debit(ledger, Payer[t], Max[t], t)
  /\ authz' = [authz EXCEPT ![t] =
                 [state |-> "reserved",
                  share |-> subscriptionDrawn(ledger, Payer[t], Max[t]),
                  charged |-> 0]]
  /\ UNCHANGED <<run, usage, reversing, raced>>

-----------------------------------------------------------------------------
(* The provider ticket and the output checkpoint.                          *)

\* A usage row that already exists throws and takes the ticket back.
claimTurnProviderStart(t) ==
  /\ IsReserved(t) /\ run[t] = "none" /\ usage[t].status = "none"
  /\ run' = [run EXCEPT ![t] = "started"]
  /\ usage' = [usage EXCEPT ![t] = [status |-> "provider_admitted", manna |-> 0]]
  /\ UNCHANGED <<ledger, authz, reversing, raced>>

\* turn_provider_run_guard demands that the parent is still reserved.
markTurnUsableOutput(t) ==
  /\ run[t] = "started" /\ IsReserved(t)
  /\ run' = [run EXCEPT ![t] = "output"]
  /\ raced' = IF Waiting(t) THEN raced \cup {t} ELSE raced
  /\ UNCHANGED <<ledger, authz, usage, reversing>>

-----------------------------------------------------------------------------
(* Settling.                                                               *)

\* Mutant: markTurnSettled without its state = 'reserved' condition.
SettledAnyState(t, charge) ==
  /\ authz[t].state # "none"
  /\ SettleCommits(ledger, t, charge)
  /\ ledger' = settleReservation(ledger, t, charge, authz[t].share)
  /\ authz' = [authz EXCEPT ![t].state = "settled", ![t].charged = charge]

\* markTurnSettled and settleReservation.
Settled(t, charge) ==
  /\ IsReserved(t)
  /\ SettleCommits(ledger, t, charge)
  /\ ledger' = settleReservation(ledger, t, charge, authz[t].share)
  /\ authz' = [authz EXCEPT ![t].state = "settled", ![t].charged = charge]

\* Mutant: onConflictDoNothing, whatever the row says.
UsageUnchecked(t, writable, row) ==
  usage' = IF usage[t].status \in writable THEN [usage EXCEPT ![t] = row] ELSE usage

\* The usage row is written, or one that says the same exists already;
\* otherwise the transaction aborts.
UsageTruth(t, writable, row) ==
  /\ usage[t].status \in writable \/ usage[t] = row
  /\ usage' = [usage EXCEPT ![t] = row]

\* The terminal transaction of a completed turn.
settleTerminal(t, charge) ==
  /\ Settled(t, charge)
  /\ UsageTruth(t, {"none", "provider_admitted"}, [status |-> "completed", manna |-> charge])
  /\ UNCHANGED <<run, reversing, raced>>

\* full-reserve-v1: a turn that failed after usable output keeps everything.
settlePartialOutputAuthorization(t) ==
  /\ run[t] = "output"
  /\ Settled(t, Max[t])
  /\ UsageTruth(t, {"provider_admitted"}, [status |-> "error", manna |-> Max[t]])
  /\ UNCHANGED <<run, reversing, raced>>

-----------------------------------------------------------------------------
(* Reversing.                                                              *)

\* Mutant: the reversal does not look for the mark.
beginReversalBlind(t, terminal) ==
  /\ authz[t].state # "none"
  /\ reversing' = reversing \cup {<<t, terminal>>}
  /\ UNCHANGED <<ledger, authz, run, usage, raced>>

\* The snapshot.  One that sees the mark ends the reversal.
beginReversal(t, terminal) ==
  /\ authz[t].state # "none" /\ run[t] # "output"
  /\ reversing' = reversing \cup {<<t, terminal>>}
  /\ UNCHANGED <<ledger, authz, run, usage, raced>>

\* Mutant: the reversal forgets the split of the reservation.
reverseWithoutShare(t, terminal) ==
  /\ <<t, terminal>> \in reversing
  /\ IsReserved(t)
  /\ ReverseCommits(ledger, t)
  /\ ledger' = reverseReservation(ledger, t, 0)
  /\ authz' = [authz EXCEPT ![t].state = terminal]
  /\ reversing' = reversing \ {<<t, terminal>>}
  /\ UNCHANGED <<run, usage, raced>>

\* The lock is granted: the state is read again, the mark is not.
reverseTurnAuthorization(t, terminal) ==
  /\ <<t, terminal>> \in reversing
  /\ IsReserved(t)
  /\ ReverseCommits(ledger, t)
  /\ ledger' = reverseReservation(ledger, t, authz[t].share)
  /\ authz' = [authz EXCEPT ![t].state = terminal]
  /\ reversing' = reversing \ {<<t, terminal>>}
  /\ UNCHANGED <<run, usage, raced>>

\* The reversal finds the turn terminal, or is rolled back.
endReversal(t, terminal) ==
  /\ <<t, terminal>> \in reversing
  /\ reversing' = reversing \ {<<t, terminal>>}
  /\ UNCHANGED <<ledger, authz, run, usage, raced>>

\* reverseTurnAuthorization as one step, for a caller whose wait nobody can use.
reverseAtOnce(t, terminal) ==
  /\ IsReserved(t) /\ run[t] # "output" /\ ReverseCommits(ledger, t)
  /\ ledger' = reverseReservation(ledger, t, authz[t].share)
  /\ authz' = [authz EXCEPT ![t].state = terminal]
  /\ UNCHANGED <<run, usage, reversing, raced>>

\* Mutant: the error row overwrites whatever is there.
recordUsageUpsert(t, manna) ==
  /\ usage' = [usage EXCEPT ![t] = [status |-> "error", manna |-> manna]]
  /\ UNCHANGED <<ledger, authz, run, reversing, raced>>

\* recordUsageEvent with an error, and the row of a refused reservation: the
\* admitted row is consumed, or a row inserted where there is none.
recordUsageEvent(t, manna) ==
  /\ usage[t].status \in {"none", "provider_admitted"}
  /\ usage' = [usage EXCEPT ![t] = [status |-> "error", manna |-> manna]]
  /\ UNCHANGED <<ledger, authz, run, reversing, raced>>

-----------------------------------------------------------------------------

Next ==
  \/ \E a \in Accounts, n \in Amounts, o \in Ops, s \in BOOLEAN : Fund(a, n, o, s)
  \/ \E t \in Turns :
       \/ reserveAuthorization(t)
       \/ claimTurnProviderStart(t)
       \/ markTurnUsableOutput(t)
       \/ \E c \in Amounts \cup {0} : settleTerminal(t, c)
       \/ settlePartialOutputAuthorization(t)
       \/ \E s \in Refunded :
            beginReversal(t, s) \/ reverseTurnAuthorization(t, s) \/ endReversal(t, s)
       \/ \E n \in {0, Max[t]} : recordUsageEvent(t, n)

Spec == Init /\ [][Next]_vars

-----------------------------------------------------------------------------
(* Properties.                                                             *)

\* Balances never go negative and every row of the four tables is well formed:
\* an authorization is in one of its states, a charge is never negative.
TypeOK ==
  /\ ledger \in Ledger
  /\ authz \in [Turns -> Authorization]
  /\ run \in [Turns -> {"none", "started", "output"}]
  /\ usage \in [Turns -> Usage]
  /\ reversing \subseteq Turns \X Refunded
  /\ raced \subseteq Turns

\* What each state says has happened to the reservation's money.
Returned(t) ==
  CASE authz[t].state = "settled"               -> Max[t] - authz[t].charged
    [] authz[t].state \in {"reversed", "reaped"} -> Max[t]
    [] OTHER                                     -> 0

\* The authorization row never lies about the money, whichever of settlement,
\* recovery and reaper wins a race: a reserved turn holds its whole ceiling, a
\* settled one what it was charged and not more, and one reversed or reaped
\* has returned everything, to the account that paid.
MoneyMatchesState ==
  \A t \in Turns :
    IF authz[t].state = "none" THEN ~Applied(ledger, OpKey(t))
    ELSE /\ IsDebit(ledger, t)
         /\ PayerOf(ledger, t) = Payer[t]
         /\ Reserved(ledger, t) = Max[t]
         /\ authz[t].charged <= Max[t]
         /\ alreadyRefundedManna(ledger, t) = Returned(t)

\* A settled turn has exactly one terminal usage row, and the row states the
\* charge: strict mode aborts a settlement that would contradict it.
SettledUsageExact ==
  \A t \in Turns :
    authz[t].state = "settled" =>
      usage[t].status \in {"completed", "error"} /\ usage[t].manna = authz[t].charged

\* "A durable usable prefix must settle, never refund": a turn whose output is
\* marked keeps its reservation until it is settled, whoever tries to reverse
\* it later; only a mark made while a reversal waits for the lock may be lost.
OutputIsPaid ==
  \A t \in Turns \ raced :
    run[t] = "output" => authz[t].state \in {"reserved", "settled"}

\* The same, without the exception for a mark made while a reversal waits.
MarkedOutputIsNeverRefunded ==
  \A t \in Turns : run[t] = "output" => authz[t].state \in {"reserved", "settled"}

\* What is terminal stays: no late settlement, reversal or usage record of a
\* caller that lost the race overwrites an outcome or a terminal usage row,
\* and no ticket or output mark is taken back.
TerminalIsFinal ==
  [][\A t \in Turns :
       /\ authz[t].state \in Terminal => authz'[t] = authz[t]
       /\ usage[t].status \in {"completed", "error"} => usage'[t] = usage[t]
       /\ run[t] = "output" => run'[t] = "output"]_vars

\* The kernel uses the ledger as MannaLedger promises it: each transaction is
\* at most one ledger operation, and the split a turn hands back is its own.
Drawn == [o \in Ops |-> IF o \in Turns THEN authz[o].share ELSE 0]
RestoredShare(t) ==
  CASE authz[t].state = "settled" -> UnusedSubscription(authz[t].charged, authz[t].share)
    [] authz[t].state \in {"reversed", "reaped"} -> authz[t].share
    [] OTHER -> 0
Restored == [o \in Ops |-> IF o \in Turns THEN RestoredShare(o) ELSE 0]
Money == INSTANCE MannaLedger WITH drawn <- Drawn, restored <- Restored, legacy <- {}
ImplementsLedger == Money!Spec
=============================================================================
