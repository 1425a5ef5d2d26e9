------------------------- MODULE LedgerTransactions -------------------------
(***************************************************************************)
(* The ledger operations of packages/core/src/manna.ts as concurrent       *)
(* PostgreSQL transactions, one action per statement, at READ COMMITTED: a *)
(* statement reads what has been committed, a write is visible to others   *)
(* when its transaction commits, and row, advisory and unique-index locks  *)
(* are held until then.  A transaction may be lost at any statement (crash *)
(* of the API process, dropped connection) and leaves no trace.            *)
(*                                                                         *)
(* manna_transactions.created_at defaults to now(), which PostgreSQL fixes *)
(* when the transaction begins; the caps are checked against the clock of  *)
(* the API process when the check runs.                                    *)
(***************************************************************************)
EXTENDS MannaOps, FiniteSetsExt

CONSTANTS
  Clients,       \* database sessions of the API processes
  Nobody,        \* a lock is free
  Intent,        \* what each caller-owned key stands for: a replay of a key
                 \* carries the parameters of its first use
  NoScope,       \* the debit has no rolling cap
  Charges,       \* charges the reservations are settled at
  DailyCap, RollingCap,
  DayLength,     \* clock ticks per UTC day
  Window,        \* clock ticks of the rolling window
  MaxClock       \* bound: the last tick

Scopes == {Intent[o].scope : o \in Ops} \ {NoScope}

ASSUME IntentAssumption ==
  \A o \in Ops : Intent[o] \in [debit : BOOLEAN, acct : Accounts, amount : Nat \ {0},
                                toSubscription : BOOLEAN, scope : Scopes \cup {NoScope}]

ASSUME SessionsAssumption ==
  Nobody \notin Clients /\ Charges \subseteq Nat /\ MaxClock \in Nat

ASSUME CapsAssumption ==
  /\ IsFiniteSet(Ops) /\ DailyCap \in Nat /\ RollingCap \in Nat
  /\ DayLength \in Nat \ {0} /\ Window \in Nat

VARIABLES
  ledger, drawn, restored, legacy,   \* what is committed, as in MannaLedger
  created,    \* created_at of the row under each caller-owned key
  clock,
  locks,      \* the holder of every lock
  tx          \* each session's open transaction

ledgerVars == <<ledger, drawn, restored, legacy, created>>
vars == <<ledger, drawn, restored, legacy, created, clock, locks, tx>>

LegKinds == {"settle", "reverse", "refund"}

\* pg_advisory_xact_lock with seed 42 and 43, the manna_accounts row, the
\* original's manna_transactions row, an uncommitted entry of the unique index.
Locks == ({"day", "account"} \X Accounts) \cup ({"scope"} \X Scopes)
           \cup ({"row"} \X Ops) \cup ({"key"} \X Key)

Closed == [pc |-> "closed"]

Init ==
  /\ ledger = EmptyLedger
  /\ drawn = [o \in Ops |-> 0]
  /\ restored = [o \in Ops |-> 0]
  /\ legacy = {}
  /\ created = [o \in Ops |-> 0]
  /\ clock = 0
  /\ locks = [l \in Locks |-> Nobody]
  /\ tx = [c \in Clients |-> Closed]

-----------------------------------------------------------------------------
(* Helpers.                                                                *)

At(c, pc) == tx[c].pc = pc
Go(c, pc) == tx' = [tx EXCEPT ![c].pc = pc]

Acquire(c, l) ==
  /\ locks[l] \in {Nobody, c}
  /\ locks' = [locks EXCEPT ![l] = c]

\* Mutant: pg_advisory_lock, which outlives the transaction.
EndKeepsAdvisoryLocks(c) ==
  /\ tx' = [tx EXCEPT ![c] = Closed]
  /\ locks' = [l \in Locks |-> IF locks[l] = c /\ l[1] \notin {"day", "scope"}
                              THEN Nobody ELSE locks[l]]

\* COMMIT or ROLLBACK: every lock goes, and the session is free.
End(c) ==
  /\ tx' = [tx EXCEPT ![c] = Closed]
  /\ locks' = [l \in Locks |-> IF locks[l] = c THEN Nobody ELSE locks[l]]

DayOf(t) == t \div DayLength
startOfUtcDay(t) == DayOf(t) * DayLength

\* The net spend of a set of debits: linked refunds reduce their own debit.
NetSpend(debits) ==
  MapThenSumSet(LAMBDA o : Refundable(ledger, o), debits)

netSpendSince(a, since) ==
  NetSpend({o \in Ops : IsDebit(ledger, o) /\ PayerOf(ledger, o) = a /\ created[o] >= since})

\* The key's prefix attributes a debit to its scope.
scopedNetSpendSince(s, since) ==
  NetSpend({o \in Ops : IsDebit(ledger, o) /\ Intent[o].scope = s /\ created[o] >= since})

\* The key the transaction inserts a row under.
InsertKey(c) ==
  CASE tx[c].kind = "op"                   -> OpKey(tx[c].o)
    [] tx[c].kind = "settle"               -> settleReservationIdempotencyKey(tx[c].o)
    [] tx[c].kind \in {"reverse", "refund"} -> refundIdempotencyKey(tx[c].o)

\* The account whose pots it moves.
Target(c) ==
  IF tx[c].kind = "op" THEN Intent[tx[c].o].acct ELSE PayerOf(ledger, tx[c].o)

-----------------------------------------------------------------------------
(* BEGIN and the first read.  A key already applied is a replay and the    *)
(* transaction ends there; so does a leg of a debit that does not exist.   *)

BeginOp(c, o) ==
  /\ At(c, "closed")
  /\ ~Applied(ledger, OpKey(o))
  /\ tx' = [tx EXCEPT ![c] = [pc |-> IF Intent[o].debit THEN "dayLock" ELSE "update",
                              kind |-> "op", o |-> o, began |-> clock, before |-> 0]]
  /\ UNCHANGED <<ledgerVars, clock, locks>>

BeginLeg(c, o, kind, charge) ==
  /\ At(c, "closed")
  /\ Applied(ledger, OpKey(o))
  /\ kind = "settle" => Chargeable(ledger, o, charge)
  /\ tx' = [tx EXCEPT ![c] = [pc |-> "lockOriginal", kind |-> kind, o |-> o,
                              charge |-> charge, amount |-> 0, share |-> 0]]
  /\ UNCHANGED <<ledgerVars, clock, locks>>

-----------------------------------------------------------------------------
(* debit: locks and caps.                                                  *)

\* Mutant: the spend is summed without the account's advisory lock.
NoDayLock(c) ==
  /\ At(c, "dayLock")
  /\ Go(c, IF Intent[tx[c].o].scope = NoScope THEN "recheck" ELSE "scopeLock")
  /\ UNCHANGED <<ledgerVars, clock, locks>>

DayLock(c) ==
  /\ At(c, "dayLock")
  /\ Acquire(c, <<"day", Intent[tx[c].o].acct>>)
  /\ Go(c, IF Intent[tx[c].o].scope = NoScope THEN "recheck" ELSE "scopeLock")
  /\ UNCHANGED <<ledgerVars, clock>>

ScopeLock(c) ==
  /\ At(c, "scopeLock")
  /\ Acquire(c, <<"scope", Intent[tx[c].o].scope>>)
  /\ Go(c, "recheck")
  /\ UNCHANGED <<ledgerVars, clock>>

\* The idempotency re-check inside the locks: a replay ends here.
Recheck(c) ==
  /\ At(c, "recheck")
  /\ IF Applied(ledger, OpKey(tx[c].o)) THEN End(c) ELSE Go(c, "dailyCap") /\ UNCHANGED locks
  /\ UNCHANGED <<ledgerVars, clock>>

\* DailyCapExceededError rolls back.
CheckDailyCap(c) ==
  LET i == Intent[tx[c].o] IN
  /\ At(c, "dailyCap")
  /\ IF netSpendSince(i.acct, startOfUtcDay(clock)) + i.amount > DailyCap
     THEN End(c)
     ELSE /\ Go(c, IF i.scope = NoScope THEN "lockAccount" ELSE "rollingCap")
          /\ UNCHANGED locks
  /\ UNCHANGED <<ledgerVars, clock>>

\* RollingSpendCapExceededError rolls back.
CheckRollingCap(c) ==
  LET i == Intent[tx[c].o] IN
  /\ At(c, "rollingCap")
  /\ IF scopedNetSpendSince(i.scope, clock - Window) + i.amount > RollingCap
     THEN End(c)
     ELSE Go(c, "lockAccount") /\ UNCHANGED locks
  /\ UNCHANGED <<ledgerVars, clock>>

\* SELECT ... FOR UPDATE on the account reads subscriptionBefore.
LockAccount(c) ==
  /\ At(c, "lockAccount")
  /\ Acquire(c, <<"account", Target(c)>>)
  /\ tx' = [tx EXCEPT ![c].pc = "update",
                      ![c].before = ledger.subscription[Target(c)]]
  /\ UNCHANGED <<ledgerVars, clock>>

-----------------------------------------------------------------------------
(* refundLeg: the original is locked before anything is decided.           *)

\* Mutant: the original is read without FOR UPDATE.
ReadOriginalUnlocked(c) ==
  /\ At(c, "lockOriginal")
  /\ Go(c, "readLegs")
  /\ UNCHANGED <<ledgerVars, clock, locks>>

LockOriginal(c) ==
  /\ At(c, "lockOriginal")
  /\ Acquire(c, <<"row", tx[c].o>>)
  /\ Go(c, "readLegs")
  /\ UNCHANGED <<ledgerVars, clock>>

\* The amount of the leg is fixed here, from the legs that are committed.  A
\* replay, an empty leg and a refused one end the transaction.
ReadLegs(c) ==
  LET o == tx[c].o
      applies == CASE tx[c].kind = "settle"  -> SettleApplies(ledger, o, tx[c].charge)
                   [] tx[c].kind = "reverse" -> ReverseApplies(ledger, o)
                   [] tx[c].kind = "refund"  -> RefundApplies(ledger, o)
      amount == IF tx[c].kind = "settle" THEN Reserved(ledger, o) - tx[c].charge
                ELSE Refundable(ledger, o)
      share == CASE tx[c].kind = "settle"  -> UnusedSubscription(tx[c].charge, drawn[o])
                 [] tx[c].kind = "reverse" -> ReversedSubscription(ledger, o, drawn[o])
                 [] tx[c].kind = "refund"  -> 0
  IN /\ At(c, "readLegs")
     /\ IF applies
        THEN /\ tx' = [tx EXCEPT ![c].pc = "update", ![c].amount = amount, ![c].share = share]
             /\ UNCHANGED locks
        ELSE End(c)
     /\ UNCHANGED <<ledgerVars, clock>>

-----------------------------------------------------------------------------
(* UPDATE manna_accounts, INSERT INTO manna_transactions, COMMIT.          *)

\* UPDATE locks the account row; a debit it cannot cover throws
\* InsufficientMannaError.
UpdateAccount(c) ==
  /\ At(c, "update")
  /\ locks[<<"account", Target(c)>>] \in {Nobody, c}
  /\ IF tx[c].kind = "op" /\ Intent[tx[c].o].debit
          /\ ~CanCover(ledger, Target(c), Intent[tx[c].o].amount)
     THEN End(c)
     ELSE Acquire(c, <<"account", Target(c)>>) /\ Go(c, "insert")
  /\ UNCHANGED <<ledgerVars, clock>>

\* INSERT waits for another transaction's uncommitted entry under the key; if
\* that one commits, the unique violation rolls this one back to a replay.
InsertRow(c) ==
  /\ At(c, "insert")
  /\ locks[<<"key", InsertKey(c)>>] \in {Nobody, c}
  /\ IF Applied(ledger, InsertKey(c))
     THEN End(c)
     ELSE Acquire(c, <<"key", InsertKey(c)>>) /\ Go(c, "commit")
  /\ UNCHANGED <<ledgerVars, clock>>

CommitDebit(c) ==
  LET o == tx[c].o
      i == Intent[o]
  IN /\ At(c, "commit") /\ tx[c].kind = "op" /\ i.debit
     /\ ledger' = debit(ledger, i.acct, i.amount, o)
     /\ drawn' = [drawn EXCEPT ![o] = Least(tx[c].before, i.amount)]
     /\ created' = [created EXCEPT ![o] = tx[c].began]
     /\ End(c)
     /\ UNCHANGED <<restored, legacy, clock>>

CommitCredit(c) ==
  LET o == tx[c].o
      i == Intent[o]
  IN /\ At(c, "commit") /\ tx[c].kind = "op" /\ ~i.debit
     /\ ledger' = credit(ledger, i.acct, i.amount, o, i.toSubscription)
     /\ created' = [created EXCEPT ![o] = tx[c].began]
     /\ End(c)
     /\ UNCHANGED <<drawn, restored, legacy, clock>>

CommitLeg(c) ==
  LET o == tx[c].o IN
  /\ At(c, "commit") /\ tx[c].kind \in LegKinds
  /\ ledger' = creditLeg(ledger, o, InsertKey(c), tx[c].amount, tx[c].share)
  /\ restored' = [restored EXCEPT ![o] = @ + Least(Max0(tx[c].share), tx[c].amount)]
  /\ legacy' = IF tx[c].kind = "refund" THEN legacy \cup {o} ELSE legacy
  /\ End(c)
  /\ UNCHANGED <<drawn, created, clock>>

-----------------------------------------------------------------------------

\* The connection or the process is lost before COMMIT.
Lose(c) ==
  /\ ~At(c, "closed")
  /\ End(c)
  /\ UNCHANGED <<ledgerVars, clock>>

Tick ==
  /\ clock < MaxClock
  /\ clock' = clock + 1
  /\ UNCHANGED <<ledgerVars, locks, tx>>

\* The next statement of an open transaction.
Step(c) ==
  \/ DayLock(c) \/ ScopeLock(c) \/ Recheck(c) \/ CheckDailyCap(c) \/ CheckRollingCap(c)
  \/ LockAccount(c) \/ LockOriginal(c) \/ ReadLegs(c)
  \/ UpdateAccount(c) \/ InsertRow(c)
  \/ CommitDebit(c) \/ CommitCredit(c) \/ CommitLeg(c)

Begin(c) ==
  \E o \in Ops :
    \/ BeginOp(c, o)
    \/ \E charge \in Charges : BeginLeg(c, o, "settle", charge)
    \/ \E kind \in {"reverse", "refund"} : BeginLeg(c, o, kind, 0)

Next == Tick \/ \E c \in Clients : Begin(c) \/ Step(c) \/ Lose(c)

Spec == Init /\ [][Next]_vars

-----------------------------------------------------------------------------
(* Properties.                                                             *)

\* Both pots stay at or above zero under every interleaving of the statements,
\* and each lock has at most one holder.
TypeOK ==
  /\ ledger \in Ledger
  /\ created \in [Ops -> 0..MaxClock]
  /\ clock \in 0..MaxClock
  /\ locks \in [Locks -> Clients \cup {Nobody}]
  /\ \A c \in Clients : ~At(c, "closed") => tx[c].o \in Ops

\* Interleaved statements implement the atomic ledger: every commit is one
\* operation of MannaLedger, or changes nothing.
Atomic == INSTANCE MannaLedger
            WITH Amounts <- {Intent[o].amount : o \in Ops} \cup (Charges \ {0})
ImplementsLedger == Atomic!Spec

\* The advisory locks make the cap checks race-free: what an account has spent
\* since midnight never exceeds the daily cap, what a scope has spent in its
\* rolling window never exceeds the rolling cap.
CapsHold ==
  /\ \A a \in Accounts : netSpendSince(a, startOfUtcDay(clock)) <= DailyCap
  /\ \A s \in Scopes : scopedNetSpendSince(s, clock - Window) <= RollingCap

\* debit's dailyCap is documented as a "per-UTC-day spend ceiling": what the
\* account spent on any one day stays within it.
EveryDayWithinCap ==
  \A a \in Accounts, d \in 0..DayOf(MaxClock) :
    NetSpend({o \in Ops : IsDebit(ledger, o) /\ PayerOf(ledger, o) = a
                            /\ DayOf(created[o]) = d}) <= DailyCap

\* The locks that the next statement of c waits for.
Wanted(c) ==
  CASE At(c, "dayLock")                 -> {<<"day", Intent[tx[c].o].acct>>}
    [] At(c, "scopeLock")               -> {<<"scope", Intent[tx[c].o].scope>>}
    [] At(c, "lockOriginal")            -> {<<"row", tx[c].o>>}
    [] tx[c].pc \in {"lockAccount", "update"} -> {<<"account", Target(c)>>}
    [] At(c, "insert")                  -> {<<"key", InsertKey(c)>>}
    [] OTHER                            -> {}

WaitsFor(c, d) == \E l \in Wanted(c) : locks[l] = d

\* The order in which debit and refundLeg take the locks of an account, of a
\* scope that several accounts' debits share, of an original and of a key admits
\* no deadlock: in no set of transactions does each wait for another of the set.
NoDeadlock ==
  \A S \in (SUBSET Clients) \ {{}} :
    \E c \in S : \A d \in S \ {c} : ~WaitsFor(c, d)
=============================================================================
