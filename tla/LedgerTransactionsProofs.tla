----------------------- MODULE LedgerTransactionsProofs -----------------------
(***************************************************************************)
(* The interleaved statements of manna.ts implement the atomic ledger and  *)
(* hold both caps, for any sessions, keys, accounts and finite set of      *)
(* operations.                                                             *)
(*                                                                         *)
(* What a transaction has read stays true until it commits, because of the *)
(* locks it holds: the account's row guards the pots, the original's row   *)
(* its legs, and the entry of the unique index its key.                    *)
(***************************************************************************)
EXTENDS LedgerTransactions, MannaOpsProofs, FiniteSetTheorems, WellFoundedInduction

-----------------------------------------------------------------------------
(* The invariant.                                                          *)

OpTx == [pc : {"dayLock", "scopeLock", "recheck", "dailyCap", "rollingCap", "lockAccount",
               "update", "insert", "commit"},
         kind : {"op"}, o : Ops, began : 0..MaxClock, before : Nat]
LegTx == [pc : {"lockOriginal", "readLegs", "update", "insert", "commit"},
          kind : LegKinds, o : Ops, charge : Nat, amount : Int, share : Int]

Tables ==
  /\ ledger \in Ledger
  /\ drawn \in [Ops -> Nat] /\ restored \in [Ops -> Int]
  /\ created \in [Ops -> 0..MaxClock]
  /\ clock \in 0..MaxClock
  /\ locks \in [Locks -> Clients \cup {Nobody}]
  /\ tx \in [Clients -> {Closed} \cup OpTx \cup LegTx]

\* The open transaction x of c, of an operation: from its account lock on the
\* share it has read is the pot's, from its UPDATE on the balance covers it, and
\* at COMMIT its key is still free.
OpOK(c, x) ==
  LET i == Intent[x.o]
      has == locks[<<"account", i.acct>>] = c
  IN /\ x.pc \in {"insert", "commit"} => has /\ (i.debit => CanCover(ledger, i.acct, i.amount))
     /\ i.debit /\ x.pc \in {"update", "insert", "commit"} =>
          has /\ x.before = ledger.subscription[i.acct]
     /\ x.pc = "commit" =>
          locks[<<"key", OpKey(x.o)>>] = c /\ ~Applied(ledger, OpKey(x.o))

\* The leg that ReadLegs has decided on is still the one to write.
LegStands(x) ==
  /\ x.kind = "settle" =>
       /\ SettleApplies(ledger, x.o, x.charge)
       /\ x.amount = Reserved(ledger, x.o) - x.charge
       /\ x.share = UnusedSubscription(x.charge, drawn[x.o])
  /\ x.kind = "reverse" =>
       /\ ReverseApplies(ledger, x.o)
       /\ x.amount = Refundable(ledger, x.o)
       /\ x.share = ReversedSubscription(ledger, x.o, drawn[x.o])
  /\ x.kind = "refund" =>
       RefundApplies(ledger, x.o) /\ x.amount = Refundable(ledger, x.o) /\ x.share = 0

\* ... and of a leg.
LegOK(c, x) ==
  /\ Applied(ledger, OpKey(x.o)) /\ (x.kind = "settle" => x.charge \in Charges)
  /\ x.pc # "lockOriginal" => locks[<<"row", x.o>>] = c
  /\ x.pc \in {"update", "insert", "commit"} => LegStands(x)
  /\ x.pc \in {"insert", "commit"} => locks[<<"account", PayerOf(ledger, x.o)>>] = c

SessionOK(c) ==
  /\ tx[c] \in OpTx => OpOK(c, tx[c])
  /\ tx[c] \in LegTx => LegOK(c, tx[c])

TxInv == Tables /\ \A c \in Clients : SessionOK(c)

-----------------------------------------------------------------------------
(* Facts about locks and keys.                                             *)

LEMMA LockTypes ==
  /\ \A a \in Accounts : <<"account", a>> \in Locks /\ <<"day", a>> \in Locks
  /\ \A o \in Ops : <<"row", o>> \in Locks
  /\ \A k \in Key : <<"key", k>> \in Locks
  /\ \A s \in Scopes : <<"scope", s>> \in Locks
BY DEF Locks

LEMMA IntentTypes ==
  ASSUME NEW o \in Ops
  PROVE  /\ Intent[o].acct \in Accounts /\ Intent[o].amount \in Nat \ {0}
         /\ Intent[o].debit \in BOOLEAN /\ Intent[o].toSubscription \in BOOLEAN
         /\ Intent[o].scope # NoScope => Intent[o].scope \in Scopes
BY IntentAssumption DEF Scopes

\* The kinds of transactions are told apart by their places and kinds.
LEMMA KindsDiffer ==
  ASSUME NEW x
  PROVE  /\ x \in OpTx => x.kind = "op" /\ x # Closed /\ x.pc # "closed"
         /\ x \in LegTx => x.kind \in LegKinds /\ x # Closed /\ x.pc # "closed"
         /\ Closed.pc = "closed"
BY DEF OpTx, LegTx, LegKinds, Closed

\* The open transaction of a session at one of its statements.
LEMMA OpenTx ==
  ASSUME Tables, NEW c \in Clients, ~At(c, "closed")
  PROVE  tx[c] \in OpTx \/ tx[c] \in LegTx
BY KindsDiffer DEF Tables, At

\* A session's step takes no lock of another.
LEMMA LocksKept ==
  ASSUME Tables, NEW d \in Clients, NEW l, Acquire(d, l) \/ End(d) \/ UNCHANGED locks
  PROVE  /\ \A c \in Clients \ {d} : \A m \in Locks : locks[m] = c => locks'[m] = c
         /\ locks' \in [Locks -> Clients \cup {Nobody}]
BY SessionsAssumption DEF Tables, Acquire, End

\* What a session has read and locked is untouched while the tables stay.
LEMMA QuietFrame ==
  ASSUME Tables, NEW c \in Clients, SessionOK(c), tx'[c] = tx[c],
         \A m \in Locks : locks[m] = c => locks'[m] = c,
         UNCHANGED <<ledger, drawn>>
  PROVE  SessionOK(c)'
<1>1. ASSUME tx[c] \in OpTx PROVE OpOK(c, tx[c])'
  <2>1. tx[c].o \in Ops
    BY <1>1 DEF OpTx
  <2>2. /\ <<"account", Intent[tx[c].o].acct>> \in Locks
        /\ <<"key", OpKey(tx[c].o)>> \in Locks
    BY <2>1, LockTypes, IntentTypes, KeyTypes
  <2> QED
    BY <1>1, <2>2 DEF SessionOK, OpOK
<1>2. ASSUME tx[c] \in LegTx PROVE LegOK(c, tx[c])'
  <2>1. tx[c].o \in Ops
    BY <1>2 DEF LegTx
  <2>2. LegOK(c, tx[c])
    BY <1>2 DEF SessionOK
  <2>3. PayerOf(ledger, tx[c].o) \in Accounts
    BY <2>1, <2>2, KeyTypes, RowTypes DEF LegOK, Tables, PayerOf
  <2>4. <<"account", PayerOf(ledger, tx[c].o)>> \in Locks /\ <<"row", tx[c].o>> \in Locks
    BY <2>1, <2>3, LockTypes
  <2> QED
    BY <2>2, <2>4 DEF LegOK, LegStands
<1> QED
  BY <1>1, <1>2 DEF SessionOK

-----------------------------------------------------------------------------
(* How a session moves.                                                    *)

Sessions == {Closed} \cup OpTx \cup LegTx

\* Only the session d moves.
Moves(d) ==
  tx' \in [Clients -> Sessions] /\ \A c \in Clients \ {d} : tx'[c] = tx[c]

LEMMA SetTx ==
  ASSUME Tables, NEW d \in Clients, NEW x \in Sessions, tx' = [tx EXCEPT ![d] = x]
  PROVE  Moves(d) /\ tx'[d] = x
<1>1. tx \in [Clients -> Sessions]
  BY DEF Tables, Sessions
<1> QED
  BY <1>1 DEF Moves

\* The next place of an operation.
LEMMA GoOp ==
  ASSUME Tables, NEW d \in Clients, tx[d] \in OpTx,
         NEW q \in {"scopeLock", "recheck", "dailyCap", "rollingCap", "lockAccount", "insert",
                    "commit"},
         Go(d, q)
  PROVE  /\ Moves(d) /\ tx'[d] \in OpTx /\ tx'[d] \notin LegTx
         /\ tx'[d].pc = q /\ tx'[d].o = tx[d].o /\ tx'[d].before = tx[d].before
<1> DEFINE x == [tx[d] EXCEPT !.pc = q]
<1>1. x \in OpTx /\ x.pc = q /\ x.o = tx[d].o /\ x.before = tx[d].before
  BY DEF OpTx
<1>2. tx' = [tx EXCEPT ![d] = x]
  BY DEF Go, Tables
<1>3. x \in Sessions
  BY <1>1 DEF Sessions
<1> HIDE DEF x
<1>4. Moves(d) /\ tx'[d] = x
  BY <1>2, <1>3, SetTx
<1>5. x \notin LegTx
  BY <1>1 DEF OpTx, LegTx, LegKinds
<1> QED
  BY <1>1, <1>4, <1>5

\* The next place of a leg.
LEMMA GoLeg ==
  ASSUME Tables, NEW d \in Clients, tx[d] \in LegTx,
         NEW q \in {"readLegs", "insert", "commit"}, Go(d, q)
  PROVE  /\ Moves(d) /\ tx'[d] \in LegTx /\ tx'[d] \notin OpTx
         /\ tx'[d].pc = q /\ tx'[d].o = tx[d].o /\ tx'[d].kind = tx[d].kind
         /\ tx'[d].charge = tx[d].charge /\ tx'[d].amount = tx[d].amount
         /\ tx'[d].share = tx[d].share
<1> DEFINE x == [tx[d] EXCEPT !.pc = q]
<1>1. /\ x \in LegTx /\ x.pc = q /\ x.o = tx[d].o /\ x.kind = tx[d].kind
      /\ x.charge = tx[d].charge /\ x.amount = tx[d].amount /\ x.share = tx[d].share
  BY DEF LegTx
<1>2. tx' = [tx EXCEPT ![d] = x]
  BY DEF Go, Tables
<1>3. x \in Sessions
  BY <1>1 DEF Sessions
<1> HIDE DEF x
<1>4. Moves(d) /\ tx'[d] = x
  BY <1>2, <1>3, SetTx
<1>5. x \notin OpTx
  BY <1>1 DEF OpTx, LegTx, LegKinds
<1> QED
  BY <1>1, <1>4, <1>5

\* A transaction that ends leaves its session free.
LEMMA Ended ==
  ASSUME Tables, NEW d \in Clients, End(d)
  PROVE  Moves(d) /\ SessionOK(d)'
<1>1. Closed \in Sessions /\ tx' = [tx EXCEPT ![d] = Closed]
  BY DEF Sessions, End
<1>2. Moves(d) /\ tx'[d] = Closed
  BY <1>1, SetTx
<1>3. Closed \notin OpTx /\ Closed \notin LegTx
  BY DEF OpTx, LegTx, Closed
<1> QED
  BY <1>2, <1>3 DEF SessionOK

\* A statement that writes no table preserves the invariant if its own session
\* is in order.
LEMMA QuietStep ==
  ASSUME TxInv, NEW d \in Clients, UNCHANGED <<ledgerVars, clock>>, Moves(d), SessionOK(d)',
         NEW l, Acquire(d, l) \/ End(d) \/ UNCHANGED locks
  PROVE  TxInv'
<1>1. /\ \A c \in Clients \ {d} : \A m \in Locks : locks[m] = c => locks'[m] = c
      /\ locks' \in [Locks -> Clients \cup {Nobody}]
  BY LocksKept DEF TxInv
<1>2. Tables'
  BY <1>1 DEF Tables, TxInv, Moves, Sessions, ledgerVars
<1>3. ASSUME NEW c \in Clients \ {d}  PROVE SessionOK(c)'
  BY <1>1, <1>3, QuietFrame DEF TxInv, Moves, ledgerVars
<1> QED
  BY <1>2, <1>3 DEF TxInv

LEMMA EndStep ==
  ASSUME TxInv, NEW d \in Clients, UNCHANGED <<ledgerVars, clock>>, End(d)
  PROVE  TxInv'
<1>1. Moves(d) /\ SessionOK(d)'
  BY Ended DEF TxInv
<1> QED
  BY <1>1, QuietStep

-----------------------------------------------------------------------------
(* The statements before COMMIT.                                           *)

LEMMA BeginOpStep ==
  ASSUME TxInv, NEW d \in Clients, NEW o \in Ops, BeginOp(d, o)
  PROVE  TxInv'
<1> DEFINE x == [pc |-> IF Intent[o].debit THEN "dayLock" ELSE "update",
                 kind |-> "op", o |-> o, began |-> clock, before |-> 0]
<1>1. x \in OpTx
  BY DEF OpTx, TxInv, Tables
<1>2. /\ x.pc = "dayLock" \/ (x.pc = "update" /\ ~Intent[o].debit)
      /\ x.o = o
  OBVIOUS
<1>3. tx' = [tx EXCEPT ![d] = x] /\ UNCHANGED <<ledgerVars, clock, locks>>
  BY DEF BeginOp
<1> HIDE DEF x
<1>4. Moves(d) /\ tx'[d] = x
  BY <1>1, <1>3, SetTx DEF TxInv, Sessions
<1>5. x \notin LegTx
  BY <1>1 DEF OpTx, LegTx, LegKinds
<1>6. SessionOK(d)'
  BY <1>1, <1>2, <1>4, <1>5 DEF SessionOK, OpOK
<1> QED
  BY <1>3, <1>4, <1>6, QuietStep

LEMMA BeginLegStep ==
  ASSUME TxInv, NEW d \in Clients, NEW o \in Ops, NEW kind \in LegKinds, NEW charge \in Nat,
         kind = "settle" => charge \in Charges, BeginLeg(d, o, kind, charge)
  PROVE  TxInv'
<1> DEFINE x == [pc |-> "lockOriginal", kind |-> kind, o |-> o,
                 charge |-> charge, amount |-> 0, share |-> 0]
<1>1. x \in LegTx
  BY DEF LegTx
<1>2. x.pc = "lockOriginal" /\ x.o = o /\ x.kind = kind /\ x.charge = charge
  OBVIOUS
<1>3. /\ tx' = [tx EXCEPT ![d] = x] /\ UNCHANGED <<ledgerVars, clock, locks>>
      /\ Applied(ledger, OpKey(o))
  BY DEF BeginLeg
<1> HIDE DEF x
<1>4. Moves(d) /\ tx'[d] = x
  BY <1>1, <1>3, SetTx DEF TxInv, Sessions
<1>5. x \notin OpTx
  BY <1>1 DEF OpTx, LegTx, LegKinds
<1>6. LegOK(d, tx[d])'
  BY <1>2, <1>3, <1>4 DEF LegOK, ledgerVars
<1>7. SessionOK(d)'
  BY <1>4, <1>5, <1>6 DEF SessionOK
<1> QED
  BY <1>3, <1>4, <1>7, QuietStep

\* The statements of a debit up to its caps.
LEMMA CapStep ==
  ASSUME TxInv, NEW d \in Clients,
         DayLock(d) \/ ScopeLock(d) \/ Recheck(d) \/ CheckDailyCap(d) \/ CheckRollingCap(d)
  PROVE  TxInv'
<1>1. /\ tx[d].pc \in {"dayLock", "scopeLock", "recheck", "dailyCap", "rollingCap"}
      /\ UNCHANGED <<ledgerVars, clock>>
  BY DEF DayLock, ScopeLock, Recheck, CheckDailyCap, CheckRollingCap, At
<1>2. tx[d] \in OpTx
  <2>1. tx[d] \in OpTx \/ tx[d] \in LegTx
    BY <1>1, OpenTx DEF TxInv, At
  <2> QED
    BY <1>1, <2>1 DEF LegTx
<1>3. CASE End(d)
  BY <1>1, <1>3, EndStep
<1>4. CASE ~End(d)
  <2>1. PICK q \in {"scopeLock", "recheck", "dailyCap", "rollingCap", "lockAccount"} : Go(d, q)
    BY <1>4 DEF DayLock, ScopeLock, Recheck, CheckDailyCap, CheckRollingCap
  <2>2. /\ Moves(d) /\ tx'[d] \in OpTx /\ tx'[d] \notin LegTx /\ tx'[d].pc = q
    BY <1>2, <2>1, GoOp DEF TxInv
  <2>3. SessionOK(d)'
    BY <2>2 DEF SessionOK, OpOK
  <2>4. \E l : Acquire(d, l) \/ End(d) \/ UNCHANGED locks
    BY <1>4 DEF DayLock, ScopeLock, Recheck, CheckDailyCap, CheckRollingCap
  <2> QED
    BY <1>1, <2>2, <2>3, <2>4, QuietStep
<1> QED
  BY <1>3, <1>4

\* SELECT ... FOR UPDATE on the account.
LEMMA LockAccountStep ==
  ASSUME TxInv, NEW d \in Clients, LockAccount(d)
  PROVE  TxInv'
<1> DEFINE o == tx[d].o
           a == Intent[o].acct
           b == ledger.subscription[a]
           x == [tx[d] EXCEPT !.pc = "update", !.before = b]
           l == <<"account", a>>
<1>1. At(d, "lockAccount") /\ UNCHANGED <<ledgerVars, clock>>
  BY DEF LockAccount
<1>2. tx[d] \in OpTx /\ tx[d].kind = "op"
  <2>1. tx[d] \in OpTx \/ tx[d] \in LegTx
    BY <1>1, OpenTx DEF TxInv, At
  <2> QED
    BY <1>1, <2>1 DEF OpTx, LegTx, At
<1>3. o \in Ops /\ a \in Accounts /\ l \in Locks
  BY <1>2, IntentTypes, LockTypes DEF OpTx
<1>4. b \in Nat
  BY <1>3 DEF TxInv, Tables, Ledger
<1>5. Target(d) = a
  BY <1>2 DEF Target
<1>6. Acquire(d, l)
  BY <1>5 DEF LockAccount
<1>7. tx' = [tx EXCEPT ![d] = x]
  BY <1>5 DEF LockAccount, TxInv, Tables
<1> HIDE DEF b
<1>8. x \in OpTx /\ x.pc = "update" /\ x.o = o /\ x.before = b
  BY <1>2, <1>4 DEF OpTx
<1> HIDE DEF x
<1>9. Moves(d) /\ tx'[d] = x
  BY <1>7, <1>8, SetTx DEF TxInv, Sessions
<1>10. x \notin LegTx
  BY <1>8 DEF OpTx, LegTx, LegKinds
<1>11. locks'[l] = d
  BY <1>3, <1>6 DEF Acquire, TxInv, Tables
<1>12. tx'[d] \notin LegTx /\ tx'[d].pc = "update" /\ tx'[d].o = o /\ tx'[d].before = b
  BY <1>8, <1>9, <1>10
<1>13. ledger'.subscription[Intent[tx'[d].o].acct] = b /\ locks'[<<"account", Intent[tx'[d].o].acct>>] = d
  BY <1>1, <1>11, <1>12 DEF ledgerVars, b
<1>14. OpOK(d, tx[d])'
  BY <1>12, <1>13 DEF OpOK
<1>15. SessionOK(d)'
  BY <1>12, <1>14 DEF SessionOK
<1> QED
  BY <1>1, <1>6, <1>9, <1>15, QuietStep

\* SELECT ... FOR UPDATE on the original.
LEMMA LockOriginalStep ==
  ASSUME TxInv, NEW d \in Clients, LockOriginal(d)
  PROVE  TxInv'
<1> DEFINE l == <<"row", tx[d].o>>
<1>1. /\ At(d, "lockOriginal") /\ UNCHANGED <<ledgerVars, clock>>
      /\ Acquire(d, l) /\ Go(d, "readLegs")
  BY DEF LockOriginal
<1>2. tx[d] \in LegTx
  <2>1. tx[d] \in OpTx \/ tx[d] \in LegTx
    BY <1>1, OpenTx DEF TxInv, At
  <2> QED
    BY <1>1, <2>1 DEF OpTx, At
<1>3. l \in Locks
  BY <1>2, LockTypes DEF LegTx
<1>4. locks'[l] = d
  BY <1>1, <1>3 DEF Acquire, TxInv, Tables
<1>5. /\ Moves(d) /\ tx'[d] \in LegTx /\ tx'[d] \notin OpTx /\ tx'[d].pc = "readLegs"
      /\ tx'[d].o = tx[d].o /\ tx'[d].kind = tx[d].kind /\ tx'[d].charge = tx[d].charge
  BY <1>1, <1>2, GoLeg DEF TxInv
<1>6. LegOK(d, tx[d])
  BY <1>2 DEF TxInv, SessionOK
<1>7. LegOK(d, tx[d])'
  BY <1>1, <1>4, <1>5, <1>6 DEF LegOK, ledgerVars
<1>8. SessionOK(d)'
  BY <1>5, <1>7 DEF SessionOK
<1> QED
  BY <1>1, <1>5, <1>8, QuietStep

\* What the amounts of a leg are.
LEMMA LegTypes ==
  ASSUME NEW L \in Ledger, NEW o \in Ops, Applied(L, OpKey(o))
  PROVE  Reserved(L, o) \in Int /\ Refundable(L, o) \in Nat /\ PayerOf(L, o) \in Accounts
BY KeyTypes, RowTypes, RefundedType DEF Reserved, Refundable, Max0, PayerOf

\* The leg is decided on.
LEMMA ReadLegsStep ==
  ASSUME TxInv, NEW d \in Clients, ReadLegs(d)
  PROVE  /\ TxInv'
         /\ \/ End(d)
            \/ Moves(d) /\ tx'[d] \notin OpTx /\ tx'[d].pc = "update" /\ UNCHANGED locks
<1> DEFINE o == tx[d].o
           kind == tx[d].kind
           charge == tx[d].charge
           n == IF kind = "settle" THEN Reserved(ledger, o) - charge ELSE Refundable(ledger, o)
           s == CASE kind = "settle"  -> UnusedSubscription(charge, drawn[o])
                  [] kind = "reverse" -> ReversedSubscription(ledger, o, drawn[o])
                  [] kind = "refund"  -> 0
           x == [tx[d] EXCEPT !.pc = "update", !.amount = n, !.share = s]
<1>1. At(d, "readLegs") /\ UNCHANGED <<ledgerVars, clock>>
  BY DEF ReadLegs
<1>2. tx[d] \in LegTx /\ o \in Ops /\ kind \in LegKinds /\ charge \in Nat
  <2>1. tx[d] \in OpTx \/ tx[d] \in LegTx
    BY <1>1, OpenTx DEF TxInv, At
  <2> QED
    BY <1>1, <2>1 DEF OpTx, LegTx, At
<1>3. LegOK(d, tx[d])
  BY <1>2 DEF TxInv, SessionOK
<1>4. CASE End(d)
  BY <1>1, <1>4, EndStep
<1>5. ASSUME ~End(d)
      PROVE  TxInv' /\ Moves(d) /\ tx'[d] \notin OpTx /\ tx'[d].pc = "update" /\ UNCHANGED locks
  <2>1. /\ CASE kind = "settle"  -> SettleApplies(ledger, o, charge)
             [] kind = "reverse" -> ReverseApplies(ledger, o)
             [] kind = "refund"  -> RefundApplies(ledger, o)
        /\ tx' = [tx EXCEPT ![d].pc = "update", ![d].amount = n, ![d].share = s]
        /\ UNCHANGED locks
    BY <1>5 DEF ReadLegs
  <2>2. Reserved(ledger, o) \in Int /\ Refundable(ledger, o) \in Nat /\ drawn[o] \in Nat
    BY <1>2, <1>3, LegTypes DEF LegOK, TxInv, Tables
  <2>3. n \in Int /\ s \in Int
    <3>1. UnusedSubscription(charge, drawn[o]) \in Int
      BY <1>2, <2>2 DEF UnusedSubscription, Max0, Least
    <3>2. ReversedSubscription(ledger, o, drawn[o]) \in Int
      BY <2>2 DEF ReversedSubscription, Least
    <3>3. CASE kind = "settle"
      <4>1. n = Reserved(ledger, o) - charge /\ s = UnusedSubscription(charge, drawn[o])
        BY <3>3
      <4> HIDE DEF n, s
      <4> QED
        BY <1>2, <2>2, <3>1, <4>1
    <3>4. CASE kind = "reverse"
      <4>1. n = Refundable(ledger, o) /\ s = ReversedSubscription(ledger, o, drawn[o])
        BY <3>4
      <4> HIDE DEF n, s
      <4> QED
        BY <2>2, <3>2, <4>1
    <3>5. CASE kind = "refund"
      <4>1. n = Refundable(ledger, o) /\ s = 0
        BY <3>5
      <4> HIDE DEF n, s
      <4> QED
        BY <2>2, <4>1
    <3> QED
      BY <1>2, <3>3, <3>4, <3>5 DEF LegKinds
  <2>4. /\ kind = "settle" => /\ SettleApplies(ledger, o, charge)
                              /\ n = Reserved(ledger, o) - charge
                              /\ s = UnusedSubscription(charge, drawn[o])
        /\ kind = "reverse" => /\ ReverseApplies(ledger, o)
                               /\ n = Refundable(ledger, o)
                               /\ s = ReversedSubscription(ledger, o, drawn[o])
        /\ kind = "refund" => RefundApplies(ledger, o) /\ n = Refundable(ledger, o) /\ s = 0
    BY <2>1
  <2> HIDE DEF n, s
  <2>5. tx' = [tx EXCEPT ![d] = x]
    BY <2>1 DEF TxInv, Tables
  <2>6. /\ x \in LegTx /\ x.pc = "update" /\ x.o = o /\ x.kind = kind /\ x.charge = charge
        /\ x.amount = n /\ x.share = s
    BY <1>2, <2>3 DEF LegTx
  <2> HIDE DEF x
  <2>7. Moves(d) /\ tx'[d] = x
    BY <2>5, <2>6, SetTx DEF TxInv, Sessions
  <2>8. x \notin OpTx
    BY <2>6 DEF OpTx, LegTx, LegKinds
  <2>9. /\ tx'[d] \notin OpTx /\ tx'[d].pc = "update" /\ tx'[d].o = o /\ tx'[d].kind = kind
        /\ tx'[d].charge = charge /\ tx'[d].amount = n /\ tx'[d].share = s
    BY <2>6, <2>7, <2>8
  <2>10. LegStands(tx[d])'
    BY <1>1, <2>4, <2>9 DEF LegStands, ledgerVars
  <2>11. LegOK(d, tx[d])'
    BY <1>1, <1>3, <2>1, <2>9, <2>10 DEF LegOK, ledgerVars, At
  <2>12. SessionOK(d)'
    BY <2>9, <2>11 DEF SessionOK
  <2> QED
    BY <1>1, <2>1, <2>7, <2>9, <2>12, QuietStep
<1> QED
  BY <1>4, <1>5

\* UPDATE manna_accounts.
LEMMA UpdateStep ==
  ASSUME TxInv, NEW d \in Clients, UpdateAccount(d)
  PROVE  TxInv'
<1> DEFINE o == tx[d].o
           l == <<"account", Target(d)>>
<1>1. At(d, "update") /\ UNCHANGED <<ledgerVars, clock>>
  BY DEF UpdateAccount
<1>2. CASE End(d)
  BY <1>1, <1>2, EndStep
<1>3. CASE ~End(d)
  <2>1. /\ Acquire(d, l) /\ Go(d, "insert")
        /\ ~ (/\ tx[d].kind = "op" /\ Intent[o].debit
              /\ ~CanCover(ledger, Target(d), Intent[o].amount))
    BY <1>3 DEF UpdateAccount
  <2>2. ASSUME tx[d] \in OpTx  PROVE TxInv'
    <3>1. tx[d].kind = "op" /\ o \in Ops /\ OpOK(d, tx[d])
      BY <2>2 DEF OpTx, TxInv, SessionOK
    <3>2. Target(d) = Intent[o].acct /\ l \in Locks
      BY <3>1, IntentTypes, LockTypes DEF Target
    <3>3. locks'[l] = d
      BY <2>1, <3>2 DEF Acquire, TxInv, Tables
    <3>4. /\ Moves(d) /\ tx'[d] \notin LegTx /\ tx'[d].pc = "insert" /\ tx'[d].o = o
          /\ tx'[d].before = tx[d].before
      BY <2>1, <2>2, GoOp DEF TxInv
    <3>5. OpOK(d, tx[d])'
      BY <1>1, <2>1, <3>1, <3>2, <3>3, <3>4 DEF OpOK, ledgerVars, At
    <3>6. SessionOK(d)'
      BY <3>4, <3>5 DEF SessionOK
    <3> QED
      BY <1>1, <2>1, <3>4, <3>6, QuietStep
  <2>3. ASSUME tx[d] \in LegTx  PROVE TxInv'
    <3>1. tx[d].kind \in LegKinds /\ o \in Ops /\ LegOK(d, tx[d])
      BY <2>3 DEF LegTx, TxInv, SessionOK
    <3>2. Target(d) = PayerOf(ledger, o) /\ PayerOf(ledger, o) \in Accounts
      BY <3>1, LegTypes DEF Target, LegKinds, LegOK, TxInv, Tables
    <3>3. l \in Locks /\ <<"row", o>> \in Locks
      BY <3>1, <3>2, LockTypes
    <3>4. locks'[l] = d /\ locks'[<<"row", o>>] = d
      BY <1>1, <2>1, <3>1, <3>3 DEF Acquire, TxInv, Tables, LegOK, At
    <3>5. /\ Moves(d) /\ tx'[d] \notin OpTx /\ tx'[d].pc = "insert" /\ tx'[d].o = o
          /\ tx'[d].kind = tx[d].kind /\ tx'[d].charge = tx[d].charge
          /\ tx'[d].amount = tx[d].amount /\ tx'[d].share = tx[d].share
      BY <2>1, <2>3, GoLeg DEF TxInv
    <3>6. LegStands(tx[d])
      BY <1>1, <3>1 DEF LegOK, At
    <3>7. LegStands(tx[d])'
      BY <1>1, <3>5, <3>6 DEF LegStands, ledgerVars
    <3>8. LegOK(d, tx[d])'
      BY <1>1, <3>1, <3>2, <3>4, <3>5, <3>7 DEF LegOK, ledgerVars
    <3>9. SessionOK(d)'
      BY <3>5, <3>8 DEF SessionOK
    <3> QED
      BY <1>1, <2>1, <3>5, <3>9, QuietStep
  <2> QED
    BY <1>1, <2>2, <2>3, OpenTx DEF TxInv, At
<1> QED
  BY <1>2, <1>3

\* INSERT INTO manna_transactions.
LEMMA InsertStep ==
  ASSUME TxInv, NEW d \in Clients, InsertRow(d)
  PROVE  TxInv'
<1> DEFINE o == tx[d].o
           k == InsertKey(d)
           l == <<"key", k>>
<1>1. At(d, "insert") /\ UNCHANGED <<ledgerVars, clock>>
  BY DEF InsertRow
<1>2. CASE End(d)
  BY <1>1, <1>2, EndStep
<1>3. CASE ~End(d)
  <2>1. Acquire(d, l) /\ Go(d, "commit") /\ ~Applied(ledger, k)
    BY <1>3 DEF InsertRow
  <2>2. ASSUME tx[d] \in OpTx  PROVE TxInv'
    <3>1. tx[d].kind = "op" /\ o \in Ops /\ OpOK(d, tx[d])
      BY <2>2 DEF OpTx, TxInv, SessionOK
    <3>2. k = OpKey(o) /\ l \in Locks /\ <<"account", Intent[o].acct>> \in Locks
      BY <3>1, KeyTypes, IntentTypes, LockTypes DEF InsertKey
    <3>3. locks'[l] = d /\ locks'[<<"account", Intent[o].acct>>] = d
      BY <1>1, <2>1, <3>1, <3>2 DEF Acquire, TxInv, Tables, OpOK, At
    <3>4. /\ Moves(d) /\ tx'[d] \notin LegTx /\ tx'[d].pc = "commit" /\ tx'[d].o = o
          /\ tx'[d].before = tx[d].before
      BY <2>1, <2>2, GoOp DEF TxInv
    <3>5. OpOK(d, tx[d])'
      BY <1>1, <2>1, <3>1, <3>2, <3>3, <3>4 DEF OpOK, ledgerVars, At
    <3>6. SessionOK(d)'
      BY <3>4, <3>5 DEF SessionOK
    <3> QED
      BY <1>1, <2>1, <3>4, <3>6, QuietStep
  <2>3. ASSUME tx[d] \in LegTx  PROVE TxInv'
    <3>1. tx[d].kind \in LegKinds /\ o \in Ops /\ LegOK(d, tx[d])
      BY <2>3 DEF LegTx, TxInv, SessionOK
    <3>2. PayerOf(ledger, o) \in Accounts
      BY <3>1, LegTypes DEF LegOK, TxInv, Tables
    <3>3. <<"account", PayerOf(ledger, o)>> \in Locks /\ <<"row", o>> \in Locks
      BY <3>1, <3>2, LockTypes
    <3>4. locks'[<<"account", PayerOf(ledger, o)>>] = d /\ locks'[<<"row", o>>] = d
      BY <1>1, <2>1, <3>1, <3>3 DEF Acquire, TxInv, Tables, LegOK, At
    <3>5. /\ Moves(d) /\ tx'[d] \notin OpTx /\ tx'[d].pc = "commit" /\ tx'[d].o = o
          /\ tx'[d].kind = tx[d].kind /\ tx'[d].charge = tx[d].charge
          /\ tx'[d].amount = tx[d].amount /\ tx'[d].share = tx[d].share
      BY <2>1, <2>3, GoLeg DEF TxInv
    <3>6. LegStands(tx[d])
      BY <1>1, <3>1 DEF LegOK, At
    <3>7. LegStands(tx[d])'
      BY <1>1, <3>5, <3>6 DEF LegStands, ledgerVars
    <3>8. LegOK(d, tx[d])'
      BY <1>1, <3>1, <3>4, <3>5, <3>7 DEF LegOK, ledgerVars
    <3>9. SessionOK(d)'
      BY <3>5, <3>8 DEF SessionOK
    <3> QED
      BY <1>1, <2>1, <3>5, <3>9, QuietStep
  <2> QED
    BY <1>1, <2>2, <2>3, OpenTx DEF TxInv, At
<1> QED
  BY <1>2, <1>3

-----------------------------------------------------------------------------
(* COMMIT.                                                                 *)

\* The operators about a debit read its own row and its two legs.
LEMMA SameRows ==
  ASSUME NEW L, NEW M, NEW o \in Ops,
         \A k \in {OpKey(o)} \cup LegKeys(o) : M.rows[k] = L.rows[k]
  PROVE  /\ Applied(M, OpKey(o)) = Applied(L, OpKey(o))
         /\ PayerOf(M, o) = PayerOf(L, o) /\ Reserved(M, o) = Reserved(L, o)
         /\ Refundable(M, o) = Refundable(L, o)
         /\ \A c : SettleApplies(M, o, c) = SettleApplies(L, o, c)
         /\ ReverseApplies(M, o) = ReverseApplies(L, o)
         /\ RefundApplies(M, o) = RefundApplies(L, o)
<1>1. /\ OpKey(o) \in {OpKey(o)} \cup LegKeys(o)
      /\ refundIdempotencyKey(o) \in {OpKey(o)} \cup LegKeys(o)
      /\ settleReservationIdempotencyKey(o) \in {OpKey(o)} \cup LegKeys(o)
  BY DEF LegKeys
<1>2. \A k \in {OpKey(o)} \cup LegKeys(o) :
        Applied(M, k) = Applied(L, k) /\ LegAmount(M, k) = LegAmount(L, k)
  BY DEF Applied, LegAmount
<1>3. /\ PayerOf(M, o) = PayerOf(L, o) /\ Reserved(M, o) = Reserved(L, o)
      /\ IsDebit(M, o) = IsDebit(L, o)
  BY <1>1, <1>2 DEF PayerOf, Reserved, IsDebit
<1>4. Refundable(M, o) = Refundable(L, o)
  BY <1>1, <1>2, <1>3 DEF Refundable, alreadyRefundedManna
<1>5. \A k \in {OpKey(o)} \cup LegKeys(o) : \A b, n :
        LegApplies(M, o, k, b, n) = LegApplies(L, o, k, b, n)
  BY <1>2, <1>3, <1>4 DEF LegApplies, LegOpen, Requested
<1> QED
  BY <1>1, <1>2, <1>3, <1>4, <1>5
     DEF SettleApplies, Chargeable, ReverseApplies, RefundApplies

\* A commit that inserts one row under k and moves the pots of one account,
\* both locked, leaves what every other session has read and locked as it is.
LEMMA CommitFrame ==
  ASSUME TxInv, NEW d \in Clients, NEW c \in Clients \ {d}, tx'[c] = tx[c], End(d),
         NEW k \in Key, NEW r \in Row, NEW ds \in Int, NEW db \in Int,
         Inserted(ledger, ledger', k, r, ds, db), ~Applied(ledger, k),
         locks[<<"account", r.acct>>] = d,
         \A o \in Ops : k = OpKey(o) => locks[<<"key", k>>] = d,
         \A o \in Ops : k \in LegKeys(o) => locks[<<"row", o>>] = d,
         \A o \in Ops : Applied(ledger, OpKey(o)) => drawn'[o] = drawn[o]
  PROVE  SessionOK(c)'
<1>1. \A m \in Locks : locks[m] = c => locks'[m] = c
  BY LocksKept DEF TxInv
<1>2. ASSUME tx[c] \in OpTx  PROVE OpOK(c, tx[c])'
  <2> DEFINE x == tx[c]
             a == Intent[x.o].acct
             n == Intent[x.o].amount
  <2>1. x.o \in Ops /\ OpOK(c, x)
    BY <1>2 DEF OpTx, TxInv, SessionOK
  <2>2. a \in Accounts /\ <<"account", a>> \in Locks /\ OpKey(x.o) \in Key
        /\ <<"key", OpKey(x.o)>> \in Locks
    BY <2>1, IntentTypes, LockTypes, KeyTypes
  <2>3. ASSUME locks[<<"account", a>>] = c
        PROVE  /\ locks'[<<"account", a>>] = c
               /\ ledger'.subscription[a] = ledger.subscription[a]
               /\ CanCover(ledger, a, n) => CanCover(ledger', a, n)
    <3>1. a # r.acct
      BY <2>3
    <3> QED
      BY <1>1, <2>2, <2>3, <3>1 DEF Inserted, CanCover, getBalance
  <2>4. ASSUME locks[<<"key", OpKey(x.o)>>] = c, ~Applied(ledger, OpKey(x.o))
        PROVE  /\ locks'[<<"key", OpKey(x.o)>>] = c
               /\ ~Applied(ledger', OpKey(x.o))
    <3>1. k # OpKey(x.o)
      BY <2>1, <2>4
    <3> QED
      BY <1>1, <2>2, <2>4, <3>1 DEF Inserted, Applied
  <2> QED
    BY <2>1, <2>3, <2>4 DEF OpOK
<1>3. ASSUME tx[c] \in LegTx  PROVE LegOK(c, tx[c])'
  <2> DEFINE x == tx[c]
             o == x.o
             a == PayerOf(ledger, o)
  <2>1. o \in Ops /\ LegOK(c, x)
    BY <1>3 DEF LegTx, TxInv, SessionOK
  <2>2. Applied(ledger, OpKey(o)) /\ a \in Accounts /\ drawn'[o] = drawn[o]
    BY <2>1, LegTypes DEF LegOK, TxInv, Tables
  <2>3. /\ <<"account", a>> \in Locks /\ <<"row", o>> \in Locks
        /\ OpKey(o) \in Key /\ LegKeys(o) \subseteq Key
    BY <2>1, <2>2, LockTypes, KeyTypes DEF LegKeys
  <2>4. ledger'.rows[OpKey(o)] = ledger.rows[OpKey(o)]
    BY <2>2, <2>3 DEF Inserted
  <2>5. Applied(ledger', OpKey(o)) /\ PayerOf(ledger', o) = a
    BY <2>2, <2>4 DEF Applied, PayerOf
  <2>6. ASSUME locks[<<"row", o>>] = c, LegStands(x)  PROVE LegStands(x)'
    <3>1. k \notin LegKeys(o)
      BY <2>1, <2>6
    <3>2. \A j \in {OpKey(o)} \cup LegKeys(o) : ledger'.rows[j] = ledger.rows[j]
      BY <2>3, <2>4, <3>1 DEF Inserted
    <3> QED
      BY <2>1, <2>2, <2>6, <3>2, SameRows DEF LegStands, ReversedSubscription
  <2> QED
    BY <1>1, <2>1, <2>2, <2>3, <2>5, <2>6 DEF LegOK
<1> QED
  BY <1>2, <1>3 DEF SessionOK

\* The statement's transaction inserts row r under the free key k.
Writes(k, r) ==
  ~Applied(ledger, k) /\ \E ds, db \in Int : Inserted(ledger, ledger', k, r, ds, db)

\* The tables after a commit, and every session.
LEMMA CommitStep ==
  ASSUME TxInv, NEW d \in Clients, End(d), UNCHANGED clock,
         NEW k \in Key, NEW r \in Row, NEW ds \in Int, NEW db \in Int,
         Inserted(ledger, ledger', k, r, ds, db), ~Applied(ledger, k),
         locks[<<"account", r.acct>>] = d,
         \A o \in Ops : k = OpKey(o) => locks[<<"key", k>>] = d,
         \A o \in Ops : k \in LegKeys(o) => locks[<<"row", o>>] = d,
         \A o \in Ops : Applied(ledger, OpKey(o)) => drawn'[o] = drawn[o],
         drawn' \in [Ops -> Nat], restored' \in [Ops -> Int],
         created' \in [Ops -> 0..MaxClock]
  PROVE  TxInv'
<1>1. Moves(d) /\ SessionOK(d)'
  BY Ended DEF TxInv
<1>2. locks' \in [Locks -> Clients \cup {Nobody}]
  BY LocksKept DEF TxInv
<1>3. ledger' \in Ledger
  BY DEF Inserted
<1>4. Tables'
  BY <1>1, <1>2, <1>3 DEF Tables, TxInv, Moves, Sessions
<1>5. ASSUME NEW c \in Clients \ {d}  PROVE SessionOK(c)'
  <2>1. tx'[c] = tx[c]
    BY <1>1 DEF Moves
  <2> QED
    BY <2>1, CommitFrame
<1> QED
  BY <1>1, <1>4, <1>5 DEF TxInv

\* The operators of MannaLedger's own copy of MannaOps are this module's.
LEMMA SameAtomic ==
  ASSUME NEW L, NEW a, NEW n, NEW o, NEW s
  PROVE  /\ Atomic!Applied(L, Atomic!OpKey(o)) = Applied(L, OpKey(o))
         /\ Atomic!CanCover(L, a, n) = CanCover(L, a, n)
         /\ Atomic!subscriptionDrawn(L, a, n) = subscriptionDrawn(L, a, n)
         /\ Atomic!debit(L, a, n, o) = debit(L, a, n, o)
         /\ Atomic!credit(L, a, n, o, s) = credit(L, a, n, o, s)
         /\ Atomic!PayerOf(L, o) = PayerOf(L, o)
         /\ Atomic!EmptyLedger = EmptyLedger
BY DEF Atomic!Applied, Atomic!OpKey, Atomic!CanCover, Atomic!getBalance, Atomic!Least,
       Atomic!subscriptionDrawn, Atomic!debit, Atomic!Max0, Atomic!credit, Atomic!PayerOf,
       Atomic!EmptyLedger, Atomic!Key,
       Applied, OpKey, CanCover, getBalance, Least, subscriptionDrawn, debit, Max0, credit,
       PayerOf, EmptyLedger, Key

\* The same for the operators about refund legs.
LEMMA SameAtomicLegs ==
  ASSUME NEW L, NEW o, NEW c, NEW s
  PROVE  /\ Atomic!SettleApplies(L, o, c) = SettleApplies(L, o, c)
         /\ Atomic!settleReservation(L, o, c, s) = settleReservation(L, o, c, s)
         /\ Atomic!ReverseApplies(L, o) = ReverseApplies(L, o)
         /\ Atomic!reverseReservation(L, o, s) = reverseReservation(L, o, s)
         /\ Atomic!RefundApplies(L, o) = RefundApplies(L, o)
         /\ Atomic!refund(L, o) = refund(L, o)
<1>1. \A k : Atomic!Applied(L, k) = Applied(L, k)
  BY DEF Atomic!Applied, Applied
<1>2. /\ Atomic!OpKey(o) = OpKey(o)
      /\ Atomic!refundIdempotencyKey(o) = refundIdempotencyKey(o)
      /\ Atomic!settleReservationIdempotencyKey(o) = settleReservationIdempotencyKey(o)
  BY DEF Atomic!OpKey, Atomic!refundIdempotencyKey, Atomic!settleReservationIdempotencyKey,
         OpKey, refundIdempotencyKey, settleReservationIdempotencyKey
<1>3. /\ Atomic!IsDebit(L, o) = IsDebit(L, o) /\ Atomic!Reserved(L, o) = Reserved(L, o)
      /\ Atomic!PayerOf(L, o) = PayerOf(L, o)
  BY <1>1, <1>2 DEF Atomic!IsDebit, Atomic!Reserved, Atomic!PayerOf, IsDebit, Reserved, PayerOf
<1>4. \A x, y : Atomic!Max0(x) = Max0(x) /\ Atomic!Least(x, y) = Least(x, y)
  BY DEF Atomic!Max0, Atomic!Least, Max0, Least
<1>5. Atomic!Refundable(L, o) = Refundable(L, o)
  BY <1>1, <1>2, <1>3, <1>4
     DEF Atomic!Refundable, Atomic!alreadyRefundedManna, Atomic!LegAmount,
         Refundable, alreadyRefundedManna, LegAmount
<1>6. \A b, n : Atomic!Requested(L, o, b, n) = Requested(L, o, b, n)
  BY <1>5 DEF Atomic!Requested, Requested
<1>7. \A k, b, n : Atomic!LegApplies(L, o, k, b, n) = LegApplies(L, o, k, b, n)
  BY <1>1, <1>3, <1>5, <1>6 DEF Atomic!LegApplies, Atomic!LegOpen, LegApplies, LegOpen
<1>8. \A k, n, t : Atomic!creditLeg(L, o, k, n, t) = creditLeg(L, o, k, n, t)
  BY <1>3, <1>4 DEF Atomic!creditLeg, creditLeg
<1>9. \A k, b, n, t : Atomic!refundLeg(L, o, k, b, n, t) = refundLeg(L, o, k, b, n, t)
  BY <1>6, <1>7, <1>8 DEF Atomic!refundLeg, refundLeg
<1>10. \A x, y : Atomic!UnusedSubscription(x, y) = UnusedSubscription(x, y)
  BY <1>4 DEF Atomic!UnusedSubscription, UnusedSubscription
<1>11. Atomic!ReversedSubscription(L, o, s) = ReversedSubscription(L, o, s)
  BY <1>4, <1>5 DEF Atomic!ReversedSubscription, ReversedSubscription
<1>12. /\ Atomic!SettleApplies(L, o, c) = SettleApplies(L, o, c)
       /\ Atomic!settleReservation(L, o, c, s) = settleReservation(L, o, c, s)
  BY <1>1, <1>2, <1>3, <1>7, <1>9, <1>10
     DEF Atomic!SettleApplies, Atomic!Chargeable, Atomic!settleReservation,
         SettleApplies, Chargeable, settleReservation
<1>13. /\ Atomic!ReverseApplies(L, o) = ReverseApplies(L, o)
       /\ Atomic!reverseReservation(L, o, s) = reverseReservation(L, o, s)
  BY <1>1, <1>2, <1>5, <1>7, <1>9, <1>11
     DEF Atomic!ReverseApplies, Atomic!reverseReservation, ReverseApplies, reverseReservation
<1>14. /\ Atomic!RefundApplies(L, o) = RefundApplies(L, o)
       /\ Atomic!refund(L, o) = refund(L, o)
  BY <1>2, <1>7, <1>9 DEF Atomic!RefundApplies, Atomic!refund, RefundApplies, refund
<1> QED
  BY <1>12, <1>13, <1>14

\* The commit of a debit is the ledger's debit: what it read under the account's
\* lock is what the UPDATE took.
LEMMA CommitDebitStep ==
  ASSUME TxInv, NEW d \in Clients, CommitDebit(d)
  PROVE  /\ TxInv' /\ Atomic!Next
         /\ Writes(OpKey(tx[d].o), [acct |-> Intent[tx[d].o].acct,
                                    amount |-> -Intent[tx[d].o].amount, refunds |-> NoOp])
<1> DEFINE o == tx[d].o
           a == Intent[o].acct
           n == Intent[o].amount
           k == OpKey(o)
           r == [acct |-> a, amount |-> -n, refunds |-> NoOp]
           s == subscriptionDrawn(ledger, a, n)
           ds == -s
           db == -(n - s)
<1>1. /\ At(d, "commit") /\ tx[d].kind = "op" /\ Intent[o].debit
      /\ ledger' = debit(ledger, a, n, o)
      /\ drawn' = [drawn EXCEPT ![o] = Least(tx[d].before, n)]
      /\ created' = [created EXCEPT ![o] = tx[d].began]
      /\ End(d) /\ UNCHANGED <<restored, legacy, clock>>
  BY DEF CommitDebit
<1>2. tx[d] \in OpTx
  <2>1. tx[d] \in OpTx \/ tx[d] \in LegTx
    BY <1>1, OpenTx DEF TxInv, At
  <2> QED
    BY <1>1, <2>1 DEF LegTx, LegKinds
<1>3. o \in Ops /\ tx[d].began \in 0..MaxClock
  BY <1>2 DEF OpTx
<1>4. /\ locks[<<"account", a>>] = d /\ CanCover(ledger, a, n)
      /\ tx[d].before = ledger.subscription[a]
      /\ locks[<<"key", k>>] = d /\ ~Applied(ledger, k)
  BY <1>1, <1>2 DEF TxInv, SessionOK, OpOK, At
<1>5. a \in Accounts /\ n \in Nat \ {0} /\ k \in Key /\ ledger \in Ledger
  BY <1>3, IntentTypes, KeyTypes DEF TxInv, Tables
<1>6. /\ Inserted(ledger, ledger', k, r, ds, db) /\ s \in 0..n
  BY <1>1, <1>3, <1>4, <1>5, DebitInserts
<1>7. drawn' = [drawn EXCEPT ![o] = s]
  BY <1>1, <1>4 DEF subscriptionDrawn
<1>8. r \in Row /\ r.acct = a
  BY <1>5 DEF Row
<1>9. \A p \in Ops : k \notin LegKeys(p)
  BY KeysDiffer DEF LegKeys
<1>10. /\ drawn' \in [Ops -> Nat] /\ restored' \in [Ops -> Int]
       /\ created' \in [Ops -> 0..MaxClock]
       /\ \A p \in Ops : Applied(ledger, OpKey(p)) => drawn'[p] = drawn[p]
  <2> HIDE DEF s
  <2> QED
    BY <1>1, <1>3, <1>4, <1>5, <1>6, <1>7 DEF TxInv, Tables
<1>11. ds \in Int /\ db \in Int
  <2> HIDE DEF s
  <2> QED
    BY <1>5, <1>6
<1>12. TxInv'
  <2> HIDE DEF ds, db, s, r, k, a, n
  <2> QED
    BY <1>1, <1>3, <1>4, <1>5, <1>6, <1>8, <1>9, <1>10, <1>11, CommitStep
<1>13. Atomic!Debit(a, n, o)
  <2>1. /\ Atomic!Applied(ledger, Atomic!OpKey(o)) = Applied(ledger, k)
        /\ Atomic!CanCover(ledger, a, n) = CanCover(ledger, a, n)
        /\ Atomic!subscriptionDrawn(ledger, a, n) = s
        /\ Atomic!debit(ledger, a, n, o) = debit(ledger, a, n, o)
    BY SameAtomic
  <2> HIDE DEF s, k, a, n, o
  <2>2. /\ ~Atomic!Applied(ledger, Atomic!OpKey(o)) /\ Atomic!CanCover(ledger, a, n)
        /\ ledger' = Atomic!debit(ledger, a, n, o)
    BY <1>1, <1>4, <2>1
  <2>3. drawn' = [drawn EXCEPT ![o] = Atomic!subscriptionDrawn(ledger, a, n)]
    BY <1>7, <2>1, Zenon
  <2> QED
    BY <1>1, <2>2, <2>3 DEF Atomic!Debit
<1>14. Writes(k, r)
  <2> HIDE DEF ds, db, s, r, k, a, n
  <2> QED
    BY <1>4, <1>6, <1>11 DEF Writes
<1> QED
  BY <1>3, <1>5, <1>12, <1>13, <1>14 DEF Atomic!Next

\* The commit of a credit is the ledger's credit.
LEMMA CommitCreditStep ==
  ASSUME TxInv, NEW d \in Clients, CommitCredit(d)
  PROVE  /\ TxInv' /\ Atomic!Next
         /\ Writes(OpKey(tx[d].o), [acct |-> Intent[tx[d].o].acct,
                                    amount |-> Intent[tx[d].o].amount, refunds |-> NoOp])
<1> DEFINE o == tx[d].o
           a == Intent[o].acct
           n == Intent[o].amount
           b == Intent[o].toSubscription
           k == OpKey(o)
           r == [acct |-> a, amount |-> n, refunds |-> NoOp]
<1>1. /\ At(d, "commit") /\ tx[d].kind = "op" /\ ~Intent[o].debit
      /\ ledger' = credit(ledger, a, n, o, b)
      /\ created' = [created EXCEPT ![o] = tx[d].began]
      /\ End(d) /\ UNCHANGED <<drawn, restored, legacy, clock>>
  BY DEF CommitCredit
<1>2. tx[d] \in OpTx
  <2>1. tx[d] \in OpTx \/ tx[d] \in LegTx
    BY <1>1, OpenTx DEF TxInv, At
  <2> QED
    BY <1>1, <2>1 DEF LegTx, LegKinds
<1>3. o \in Ops /\ tx[d].began \in 0..MaxClock
  BY <1>2 DEF OpTx
<1>4. /\ locks[<<"account", a>>] = d
      /\ locks[<<"key", k>>] = d /\ ~Applied(ledger, k)
  BY <1>1, <1>2 DEF TxInv, SessionOK, OpOK, At
<1>5. /\ a \in Accounts /\ n \in Nat \ {0} /\ b \in BOOLEAN /\ k \in Key /\ ledger \in Ledger
  BY <1>3, IntentTypes, KeyTypes DEF TxInv, Tables
<1>6. PICK ds, db \in Int : Inserted(ledger, ledger', k, r, ds, db)
  BY <1>1, <1>3, <1>5, CreditInserts
<1>7. r \in Row /\ r.acct = a
  BY <1>5 DEF Row
<1>8. \A p \in Ops : k \notin LegKeys(p)
  BY KeysDiffer DEF LegKeys
<1>9. /\ drawn' \in [Ops -> Nat] /\ restored' \in [Ops -> Int]
      /\ created' \in [Ops -> 0..MaxClock]
      /\ \A p \in Ops : Applied(ledger, OpKey(p)) => drawn'[p] = drawn[p]
  BY <1>1, <1>3 DEF TxInv, Tables
<1>10. TxInv'
  <2> HIDE DEF r, k, a, n
  <2> QED
    BY <1>1, <1>4, <1>5, <1>6, <1>7, <1>8, <1>9, CommitStep
<1>11. Atomic!Credit(a, n, o, b)
  BY <1>1, <1>4, SameAtomic DEF Atomic!Credit
<1>12. Writes(k, r)
  <2> HIDE DEF r, k, a, n
  <2> QED
    BY <1>4, <1>6 DEF Writes
<1> QED
  BY <1>3, <1>5, <1>10, <1>11, <1>12 DEF Atomic!Next

\* The commit of a leg is the ledger's settlement, reversal or refund, although
\* its amount was fixed by an earlier statement.
LEMMA CommitLegStep ==
  ASSUME TxInv, NEW d \in Clients, CommitLeg(d)
  PROVE  /\ TxInv' /\ Atomic!Next
         /\ Writes(InsertKey(d), [acct |-> PayerOf(ledger, tx[d].o), amount |-> tx[d].amount,
                                  refunds |-> tx[d].o])
<1> DEFINE o == tx[d].o
           kind == tx[d].kind
           charge == tx[d].charge
           n == tx[d].amount
           s == tx[d].share
           a == PayerOf(ledger, o)
           k == InsertKey(d)
           r == [acct |-> a, amount |-> n, refunds |-> o]
           e == LegShare(n, s)
<1>1. /\ At(d, "commit") /\ kind \in LegKinds
      /\ ledger' = creditLeg(ledger, o, k, n, s)
      /\ restored' = [restored EXCEPT ![o] = @ + e]
      /\ legacy' = IF kind = "refund" THEN legacy \cup {o} ELSE legacy
      /\ End(d) /\ UNCHANGED <<drawn, created, clock>>
  BY DEF CommitLeg, LegShare
<1>2. tx[d] \in LegTx
  <2>1. tx[d] \in OpTx \/ tx[d] \in LegTx
    BY <1>1, OpenTx DEF TxInv, At
  <2> QED
    BY <1>1, <2>1 DEF OpTx, LegKinds
<1>3. o \in Ops /\ s \in Int /\ charge \in Nat
  BY <1>2 DEF LegTx
<1>4. /\ Applied(ledger, OpKey(o)) /\ (kind = "settle" => charge \in Charges)
      /\ locks[<<"row", o>>] = d /\ LegStands(tx[d]) /\ locks[<<"account", a>>] = d
  BY <1>1, <1>2 DEF TxInv, SessionOK, LegOK, At
<1>5. /\ a \in Accounts /\ ledger \in Ledger /\ k \in Key
      /\ k = IF kind = "settle" THEN settleReservationIdempotencyKey(o)
             ELSE refundIdempotencyKey(o)
  <2>1. k = IF kind = "settle" THEN settleReservationIdempotencyKey(o)
            ELSE refundIdempotencyKey(o)
    BY <1>1 DEF InsertKey, LegKinds
  <2> QED
    BY <1>3, <1>4, <2>1, LegTypes, KeyTypes DEF TxInv, Tables
<1>6. /\ ~Applied(ledger, k) /\ n \in Nat \ {0}
  <2>1. CASE kind = "settle"
    <3>1. SettleApplies(ledger, o, charge) /\ n = Reserved(ledger, o) - charge
      BY <1>4, <2>1 DEF LegStands
    <3>2. Reserved(ledger, o) \in Int
      BY <1>3, <1>4, <1>5, LegTypes
    <3> QED
      BY <1>3, <1>5, <2>1, <3>1, <3>2 DEF SettleApplies, LegApplies, LegOpen, Requested
  <2>2. CASE kind \in {"reverse", "refund"}
    <3>1. /\ ReverseApplies(ledger, o) \/ RefundApplies(ledger, o)
          /\ n = Refundable(ledger, o)
      BY <1>4, <2>2 DEF LegStands
    <3>2. Refundable(ledger, o) \in Nat
      BY <1>3, <1>4, <1>5, LegTypes
    <3> QED
      BY <1>5, <2>2, <3>1, <3>2
         DEF ReverseApplies, RefundApplies, LegApplies, LegOpen, Requested
  <2> QED
    BY <1>1, <2>1, <2>2 DEF LegKinds
<1>7. Inserted(ledger, ledger', k, r, e, n - e) /\ e \in 0..n
  BY <1>1, <1>3, <1>5, <1>6, CreditLegInserts
<1>8. r \in Row /\ r.acct = a
  BY <1>3, <1>5, <1>6 DEF Row
<1>9. /\ \A p \in Ops : k # OpKey(p)
      /\ \A p \in Ops : k \in LegKeys(p) => p = o
  BY <1>5, KeysDiffer DEF LegKeys
<1>10. /\ drawn' \in [Ops -> Nat] /\ restored' \in [Ops -> Int]
       /\ created' \in [Ops -> 0..MaxClock]
  <2> HIDE DEF e, n
  <2> QED
    BY <1>1, <1>3, <1>7 DEF TxInv, Tables
<1>11. e \in Int /\ n - e \in Int
  <2> HIDE DEF e, n
  <2> QED
    BY <1>6, <1>7
<1>12. TxInv'
  <2> HIDE DEF e, n, r, k, a
  <2> QED
    BY <1>1, <1>4, <1>5, <1>6, <1>7, <1>8, <1>9, <1>10, <1>11, CommitStep
<1>13. Atomic!Restore(o)
  <2>1. ledger'.subscription[a] = ledger.subscription[a] + e
    BY <1>7, <1>8 DEF Inserted
  <2>2. ledger.subscription[a] \in Nat /\ restored[o] \in Int
    BY <1>3, <1>5 DEF TxInv, Tables, Ledger
  <2>3. e = ledger'.subscription[a] - ledger.subscription[a]
    <3> HIDE DEF e, n
    <3> QED
      BY <1>11, <2>1, <2>2
  <2>4. restored[o] + e = restored[o] + ledger'.subscription[a] - ledger.subscription[a]
    <3> HIDE DEF e, n
    <3> QED
      BY <1>11, <2>1, <2>2
  <2>5. restored' = [restored EXCEPT ![o] = restored[o] + ledger'.subscription[a]
                                              - ledger.subscription[a]]
    BY <1>1, <2>4
  <2> QED
    BY <2>5, SameAtomic DEF Atomic!Restore
<1>14. ASSUME kind = "settle"  PROVE Atomic!Next
  <2>1. /\ SettleApplies(ledger, o, charge) /\ n = Reserved(ledger, o) - charge
        /\ s = UnusedSubscription(charge, drawn[o])
        /\ k = settleReservationIdempotencyKey(o)
    BY <1>4, <1>5, <1>14 DEF LegStands
  <2>2. ledger' = settleReservation(ledger, o, charge, drawn[o])
    <3>1. LegApplies(ledger, o, k, TRUE, n)
      BY <2>1 DEF SettleApplies
    <3>2. ledger' = refundLeg(ledger, o, k, TRUE, n, s)
      BY <1>1, <3>1 DEF refundLeg, Requested
    <3> QED
      BY <2>1, <3>2 DEF settleReservation
  <2>3. Atomic!Settle(o, charge)
    BY <1>1, <1>13, <1>14, <2>1, <2>2, SameAtomicLegs DEF Atomic!Settle
  <2>4. charge \in ({Intent[p].amount : p \in Ops} \cup (Charges \ {0})) \cup {0}
    BY <1>4, <1>14
  <2> QED
    BY <1>3, <2>3, <2>4 DEF Atomic!Next
<1>15. ASSUME kind = "reverse"  PROVE Atomic!Next
  <2>1. /\ ReverseApplies(ledger, o) /\ n = Refundable(ledger, o)
        /\ s = ReversedSubscription(ledger, o, drawn[o])
        /\ k = refundIdempotencyKey(o)
    BY <1>4, <1>5, <1>15 DEF LegStands
  <2>2. ledger' = reverseReservation(ledger, o, drawn[o])
    <3>1. LegApplies(ledger, o, k, Refundable(ledger, o) > 0, n)
      BY <2>1 DEF ReverseApplies
    <3>2. ledger' = refundLeg(ledger, o, k, Refundable(ledger, o) > 0, n, s)
      BY <1>1, <2>1, <3>1 DEF refundLeg, Requested
    <3> QED
      BY <2>1, <3>2 DEF reverseReservation
  <2>3. Atomic!Reverse(o)
    BY <1>1, <1>13, <1>15, <2>1, <2>2, SameAtomicLegs DEF Atomic!Reverse
  <2> QED
    BY <1>3, <2>3 DEF Atomic!Next
<1>16. ASSUME kind = "refund"  PROVE Atomic!Next
  <2>1. /\ RefundApplies(ledger, o) /\ n = Refundable(ledger, o) /\ s = 0
        /\ k = refundIdempotencyKey(o)
    BY <1>4, <1>5, <1>16 DEF LegStands
  <2>2. ledger' = refund(ledger, o)
    BY <1>1, <2>1 DEF refund, refundLeg, Requested, RefundApplies
  <2>3. e = 0
    BY <1>6, <2>1 DEF LegShare, Least, Max0
  <2>4. UNCHANGED restored
    <3>1. restored[o] \in Int /\ restored \in [Ops -> Int]
      BY <1>3 DEF TxInv, Tables
    <3>2. restored' = [restored EXCEPT ![o] = restored[o]]
      <4>1. restored[o] + e = restored[o]
        <5> HIDE DEF e
        <5> QED
          BY <2>3, <3>1
      <4> QED
        BY <1>1, <4>1, Zenon
    <3> QED
      BY <3>1, <3>2
  <2>5. Atomic!Refund(o)
    BY <1>1, <1>16, <2>1, <2>2, <2>4, SameAtomicLegs DEF Atomic!Refund
  <2> QED
    BY <1>3, <2>5 DEF Atomic!Next
<1>17. Writes(k, r)
  <2> HIDE DEF e, n, r, k, a
  <2> QED
    BY <1>6, <1>7, <1>11 DEF Writes
<1>18. Atomic!Next
  BY <1>1, <1>14, <1>15, <1>16 DEF LegKinds
<1> QED
  BY <1>12, <1>17, <1>18

-----------------------------------------------------------------------------
(* The theorems.                                                           *)

LEMMA EmptyTables ==
  Init => TxInv
<1> SUFFICES ASSUME Init PROVE TxInv
  OBVIOUS
<1>1. ledger \in Ledger
  BY DEF Init, EmptyLedger, Ledger
<1>2. Tables
  BY <1>1, SessionsAssumption DEF Init, Tables
<1>3. \A c \in Clients : tx[c] = Closed
  BY DEF Init
<1> QED
  BY <1>2, <1>3, KindsDiffer DEF TxInv, SessionOK

\* The clock moves between statements.
LEMMA TickStep ==
  ASSUME TxInv, Tick
  PROVE  TxInv'
<1>1. UNCHANGED <<ledger, drawn, restored, created, locks, tx>> /\ clock' \in 0..MaxClock
  BY SessionsAssumption DEF Tick, ledgerVars, TxInv, Tables
<1>2. Tables'
  BY <1>1 DEF TxInv, Tables
<1>3. ASSUME NEW c \in Clients  PROVE SessionOK(c)'
  BY <1>1, <1>3, QuietFrame DEF TxInv
<1> QED
  BY <1>2, <1>3 DEF TxInv

\* Every statement preserves the invariant, and is an operation of the ledger
\* or writes nothing.
LEMMA StatementStep ==
  ASSUME TxInv, [Next]_vars
  PROVE  TxInv' /\ [Atomic!Next]_(Atomic!vars)
<1>q. ASSUME UNCHANGED <<ledgerVars>>  PROVE UNCHANGED Atomic!vars
  BY <1>q DEF ledgerVars, Atomic!vars
<1>1. CASE Tick
  <2>1. UNCHANGED ledgerVars
    BY <1>1 DEF Tick
  <2> QED
    BY <1>1, <1>q, <2>1, TickStep
<1>2. ASSUME NEW d \in Clients, Begin(d)
      PROVE  TxInv' /\ UNCHANGED Atomic!vars
  <2>1. PICK o \in Ops : \/ BeginOp(d, o)
                         \/ \E charge \in Charges : BeginLeg(d, o, "settle", charge)
                         \/ \E kind \in {"reverse", "refund"} : BeginLeg(d, o, kind, 0)
    BY <1>2 DEF Begin
  <2>2. TxInv'
    BY <2>1, SessionsAssumption, BeginOpStep, BeginLegStep DEF LegKinds
  <2>3. UNCHANGED ledgerVars
    BY <2>1 DEF BeginOp, BeginLeg
  <2> QED
    BY <1>q, <2>2, <2>3
<1>3. ASSUME NEW d \in Clients, Step(d)
      PROVE  TxInv' /\ [Atomic!Next]_(Atomic!vars)
  <2>1. CASE CommitDebit(d) \/ CommitCredit(d) \/ CommitLeg(d)
    BY <2>1, CommitDebitStep, CommitCreditStep, CommitLegStep
  <2>2. CASE \/ DayLock(d) \/ ScopeLock(d) \/ Recheck(d) \/ CheckDailyCap(d)
             \/ CheckRollingCap(d) \/ LockAccount(d) \/ LockOriginal(d) \/ ReadLegs(d)
             \/ UpdateAccount(d) \/ InsertRow(d)
    <3>1. TxInv'
      BY <2>2, CapStep, LockAccountStep, LockOriginalStep, ReadLegsStep, UpdateStep, InsertStep
    <3>2. UNCHANGED ledgerVars
      BY <2>2 DEF DayLock, ScopeLock, Recheck, CheckDailyCap, CheckRollingCap, LockAccount,
                  LockOriginal, ReadLegs, UpdateAccount, InsertRow
    <3> QED
      BY <1>q, <3>1, <3>2
  <2> QED
    BY <1>3, <2>1, <2>2 DEF Step
<1>4. ASSUME NEW d \in Clients, Lose(d)
      PROVE  TxInv' /\ UNCHANGED Atomic!vars
  BY <1>4, <1>q, EndStep DEF Lose
<1>5. CASE UNCHANGED vars
  <2>1. UNCHANGED ledgerVars /\ UNCHANGED <<clock, locks, tx>>
    BY <1>5 DEF vars, ledgerVars
  <2>2. Tables'
    BY <2>1 DEF TxInv, Tables, ledgerVars
  <2>3. ASSUME NEW c \in Clients  PROVE SessionOK(c)'
    BY <2>1, QuietFrame DEF TxInv, ledgerVars
  <2> QED
    BY <1>q, <2>1, <2>2, <2>3 DEF TxInv
<1> QED
  BY <1>1, <1>2, <1>3, <1>4, <1>5 DEF Next

\* Every statement of every open transaction keeps the invariant: what a session
\* has read and locked is still so when it commits.
THEOREM WhatIsLockedStands ==
  Spec => []TxInv
BY EmptyTables, StatementStep, PTL DEF Spec

\* Both pots stay at or above zero and each lock has at most one holder under
\* every interleaving of the statements of manna.ts, for any sessions and keys.
THEOREM InterleavedTypeCorrect ==
  Spec => []TypeOK
<1>1. ASSUME TxInv  PROVE TypeOK
  <2>1. \A c \in Clients : ~At(c, "closed") => tx[c].o \in Ops
    BY <1>1, OpenTx DEF TxInv, OpTx, LegTx
  <2> QED
    BY <1>1, <2>1 DEF TxInv, Tables, TypeOK
<1> QED
  BY <1>1, WhatIsLockedStands, PTL

\* The interleaved transactions of manna.ts, those that roll back included,
\* implement the atomic ledger: every COMMIT of debit, credit, settleReservation,
\* reverseReservation and refund is one operation of MannaLedger on the ledger it
\* commits to, and every other statement leaves that ledger alone.
THEOREM TransactionsImplementLedger ==
  Spec => ImplementsLedger
<1>1. Init => Atomic!Init
  BY SameAtomic DEF Init, Atomic!Init
<1> QED
  BY <1>1, EmptyTables, StatementStep, PTL DEF Spec, ImplementsLedger, Atomic!Spec

-----------------------------------------------------------------------------
(* Sums over a finite set.  The sum of the community modules is a recursive *)
(* function; what it returns for every set is proved here from the least    *)
(* counterexample, which exists because < is well founded on the naturals.  *)

\* A set of naturals has a least member.
LEMMA LeastMember ==
  ASSUME NEW N \in SUBSET Nat, N # {}
  PROVE  \E n \in N : \A m \in N : n <= m
<1>1. PICK n \in N : \A m \in N : ~ (<<m, n>> \in OpToRel(<, Nat))
  BY NatLessThanWellFounded, WFMin, Zenon
<1>2. \A m \in N : ~(m < n)
  BY <1>1 DEF OpToRel
<1> QED
  BY <1>2

\* The member of a set that the sum takes next.
Taken(s) == CHOOSE x \in s : TRUE

\* h sums g over every subset of S.
AddsUp(h, g, S) ==
  /\ h[{}] = 0
  /\ \A s \in SUBSET S : s # {} => h[s] = g[Taken(s)] + h[s \ {Taken(s)}]
Totals(h, g, S) == h \in [SUBSET S -> Nat] /\ AddsUp(h, g, S)

\* A subset without its next member is smaller.
LEMMA TakenSmaller ==
  ASSUME NEW S, IsFiniteSet(S), NEW s \in SUBSET S, s # {}
  PROVE  /\ Taken(s) \in s /\ Taken(s) \in S /\ s \ {Taken(s)} \in SUBSET S
         /\ Cardinality(s) \in Nat
         /\ Cardinality(s \ {Taken(s)}) = Cardinality(s) - 1
         /\ Cardinality(s \ {Taken(s)}) \in Nat
<1>1. Taken(s) \in s
  BY DEF Taken
<1>2. IsFiniteSet(s)
  BY FS_Subset
<1> HIDE DEF Taken
<1>3. IsFiniteSet(s \ {Taken(s)})
  BY <1>2, FS_RemoveElement
<1>4. Cardinality(s \ {Taken(s)}) = Cardinality(s) - 1
  BY <1>1, <1>2, FS_RemoveElement
<1> QED
  BY <1>1, <1>2, <1>3, <1>4, FS_CardinalityType

\* There is such a function.
LEMMA TotalsExist ==
  ASSUME NEW S, IsFiniteSet(S), NEW g \in [S -> Nat]
  PROVE  \E h : Totals(h, g, S)
<1> DEFINE Small(n) == {s \in SUBSET S : Cardinality(s) <= n}
           Sums(h, n) == /\ h \in [Small(n) -> Nat]
                         /\ h[{}] = 0
                         /\ \A s \in Small(n) :
                              s # {} => h[s] = g[Taken(s)] + h[s \ {Taken(s)}]
           N == {n \in Nat : ~ \E h : Sums(h, n)}
<1>1. \A s \in SUBSET S : IsFiniteSet(s) /\ Cardinality(s) \in Nat
  BY FS_Subset, FS_CardinalityType
<1>2. {} \in SUBSET S /\ Cardinality({}) = 0
  BY FS_EmptySet
<1>3. N = {}
  <2>1. SUFFICES ASSUME N # {} PROVE FALSE
    OBVIOUS
  <2>2. PICK n \in N : \A m \in N : n <= m
    BY <2>1, LeastMember
  <2>3. CASE n = 0
    <3>1. Small(0) = {{}}
      BY <1>1, <1>2, FS_EmptySet
    <3>2. Sums([s \in Small(0) |-> 0], 0)
      BY <3>1
    <3> QED
      BY <2>2, <2>3, <3>2
  <2>4. CASE n # 0
    <3>1. n \in Nat /\ n - 1 \in Nat /\ n - 1 \notin N
      <4>1. n \in Nat
        BY <2>2
      <4> HIDE DEF N
      <4> QED
        BY <2>2, <2>4, <4>1
    <3>2. PICK h : Sums(h, n - 1)
      BY <3>1
    <3> DEFINE k == [s \in Small(n) |-> IF s = {} THEN 0
                                        ELSE g[Taken(s)] + h[s \ {Taken(s)}]]
    <3>3. ASSUME NEW s \in Small(n), s # {}
          PROVE  Taken(s) \in S /\ s \ {Taken(s)} \in Small(n - 1)
      BY <3>1, <3>3, TakenSmaller
    <3>4. Small(n - 1) \subseteq Small(n) /\ {} \in Small(n - 1)
      BY <1>1, <1>2, <3>1
    <3>5. k \in [Small(n) -> Nat] /\ k[{}] = 0
      BY <3>2, <3>3, <3>4
    <3>6. ASSUME NEW s \in Small(n - 1)  PROVE k[s] = h[s]
      BY <3>2, <3>4
    <3>7. Sums(k, n)
      BY <3>3, <3>5, <3>6
    <3> QED
      BY <2>2, <3>7
  <2> QED
    BY <2>3, <2>4
<1>4. Cardinality(S) \in Nat /\ Cardinality(S) \notin N
  BY <1>3, FS_CardinalityType
<1>5. PICK h : Sums(h, Cardinality(S))
  BY <1>4
<1>6. Small(Cardinality(S)) = SUBSET S
  BY FS_Subset
<1> QED
  BY <1>5, <1>6 DEF Totals, AddsUp

\* There is only one.
LEMMA TotalsUnique ==
  ASSUME NEW S, IsFiniteSet(S), NEW g \in [S -> Nat],
         NEW h, AddsUp(h, g, S), NEW k, AddsUp(k, g, S), NEW s \in SUBSET S
  PROVE  h[s] = k[s]
<1> DEFINE N == {n \in Nat : \E u \in SUBSET S : Cardinality(u) = n /\ h[u] # k[u]}
<1>1. SUFFICES ASSUME h[s] # k[s] PROVE FALSE
  OBVIOUS
<1>2. N # {}
  BY <1>1, FS_Subset, FS_CardinalityType
<1>3. PICK n \in N : \A m \in N : n <= m
  BY <1>2, LeastMember
<1>4. PICK u \in SUBSET S : Cardinality(u) = n /\ h[u] # k[u]
  BY <1>3
<1>5. u # {} /\ n \in Nat
  BY <1>3, <1>4 DEF Totals, AddsUp
<1> HIDE DEF N
<1>6. /\ u \ {Taken(u)} \in SUBSET S
      /\ Cardinality(u \ {Taken(u)}) = n - 1 /\ n - 1 \in Nat
  <2>1. /\ u \ {Taken(u)} \in SUBSET S
        /\ Cardinality(u \ {Taken(u)}) = Cardinality(u) - 1
        /\ Cardinality(u \ {Taken(u)}) \in Nat
    BY <1>5, TakenSmaller, Zenon
  <2> QED
    BY <1>4, <2>1
<1>7. n - 1 \notin N
  BY <1>3, <1>5, <1>6
<1>8. h[u \ {Taken(u)}] = k[u \ {Taken(u)}]
  BY <1>6, <1>7 DEF N
<1> QED
  BY <1>4, <1>5, <1>8 DEF Totals, AddsUp

\* The order in which the members are taken does not matter.
LEMMA TotalsAdd ==
  ASSUME NEW S, IsFiniteSet(S), NEW g \in [S -> Nat], NEW h, Totals(h, g, S),
         NEW s \in SUBSET S, NEW y \in S \ s
  PROVE  h[s \cup {y}] = h[s] + g[y]
<1> DEFINE Fails(u, z) == h[u \cup {z}] # h[u] + g[z]
           N == {n \in Nat : \E u \in SUBSET S : \E z \in S \ u :
                               Cardinality(u) = n /\ Fails(u, z)}
<1>1. SUFFICES ASSUME Fails(s, y) PROVE FALSE
  OBVIOUS
<1>2. N # {}
  BY <1>1, FS_Subset, FS_CardinalityType
<1>3. PICK n \in N : \A m \in N : n <= m
  BY <1>2, LeastMember
<1>a. PICK u \in SUBSET S : \E z \in S \ u : Cardinality(u) = n /\ Fails(u, z)
  BY <1>3
<1>4. PICK z \in S \ u : Cardinality(u) = n /\ Fails(u, z)
  BY <1>a
<1> DEFINE w == u \cup {z}
           x == Taken(w)
<1>5. w \in SUBSET S /\ w # {} /\ z \in w /\ w \ {z} = u /\ z \notin u /\ z \in S
  BY <1>4
<1>6. n \in Nat /\ \A v \in SUBSET S : h[v] \in Nat
  BY <1>3 DEF Totals, AddsUp
<1>7. /\ Cardinality(u) = n /\ h[w] # h[u] + g[z]
  BY <1>4
<1> HIDE DEF w, N, Fails
<1>8. x \in w /\ x \in S
  BY <1>5, TakenSmaller
<1>9. h[w] = g[x] + h[w \ {x}]
  BY <1>5 DEF Totals, AddsUp
<1> HIDE DEF x
<1>10. g[x] \in Nat /\ g[z] \in Nat /\ h[u] \in Nat
  BY <1>5, <1>6, <1>8
<1>11. x # z
  <2>1. SUFFICES ASSUME x = z PROVE FALSE
    OBVIOUS
  <2>2. h[w] = g[z] + h[u]
    BY <1>5, <1>9, <2>1
  <2> QED
    BY <1>7, <1>10, <2>2
<1> DEFINE v == u \ {x}
<1>12. x \in u /\ v \in SUBSET S /\ w \ {x} = v \cup {z} /\ v \cup {x} = u
       /\ z \in S \ v /\ x \in S \ v
  BY <1>5, <1>8, <1>11 DEF w
<1>13. Cardinality(v) = n - 1 /\ n - 1 \in Nat
  <2>1. IsFiniteSet(u)
    BY FS_Subset
  <2>2. Cardinality(v) = Cardinality(u) - 1
    BY <1>12, <2>1, FS_RemoveElement
  <2>3. Cardinality(v) \in Nat
    BY <2>1, FS_RemoveElement, FS_CardinalityType
  <2> QED
    BY <1>6, <1>7, <2>2, <2>3
<1> HIDE DEF v
<1>14. n - 1 \notin N
  BY <1>3, <1>6, <1>13
<1>15. ~Fails(v, z) /\ ~Fails(v, x)
  BY <1>12, <1>13, <1>14 DEF N
<1>16. h[w \ {x}] = h[v] + g[z] /\ h[u] = h[v] + g[x] /\ h[v] \in Nat
  BY <1>6, <1>12, <1>15 DEF Fails
<1> QED
  BY <1>7, <1>9, <1>10, <1>16

\* What NetSpend sums: MapThenSumSet of the refundable parts of debits.
Spend(L, S) == MapThenSumSet(LAMBDA o : Refundable(L, o), S)

\* The recursive function that MapThenSumSet chooses.
IsIteration(h, L, S) ==
  h = [s \in SUBSET S |-> IF s = {} THEN 0
                          ELSE LET x == CHOOSE x \in s : TRUE
                               IN  Refundable(L, x) + h[s \ {x}]]

LEMMA SpendUnfolds ==
  ASSUME NEW L, NEW S
  PROVE  Spend(L, S) = (CHOOSE h : IsIteration(h, L, S))[S]
BY DEF Spend, MapThenSumSet, MapThenFoldSet, IsIteration

LEMMA SpendIsTotal ==
  ASSUME NEW T, IsFiniteSet(T), NEW S \in SUBSET T, NEW L, NEW g \in [T -> Nat],
         \A o \in S : g[o] = Refundable(L, o), NEW h, Totals(h, g, T)
  PROVE  Spend(L, S) = h[S]
<1> DEFINE f == [o \in S |-> g[o]]
           k == [s \in SUBSET S |-> h[s]]
           i == CHOOSE j : IsIteration(j, L, S)
<1>1. IsFiniteSet(S) /\ S \in SUBSET S
  BY FS_Subset
<1>2. ASSUME NEW s \in SUBSET S, s # {}
      PROVE  /\ Taken(s) \in S /\ s \ {Taken(s)} \in SUBSET S /\ s \in SUBSET T
             /\ f[Taken(s)] = Refundable(L, Taken(s)) /\ f[Taken(s)] = g[Taken(s)]
  BY <1>1, <1>2, TakenSmaller
<1>3. AddsUp(k, f, S)
  <2>1. k[{}] = 0
    BY DEF Totals, AddsUp
  <2>2. ASSUME NEW s \in SUBSET S, s # {}
        PROVE  k[s] = f[Taken(s)] + k[s \ {Taken(s)}]
    <3>1. h[s] = g[Taken(s)] + h[s \ {Taken(s)}]
      BY <1>2, <2>2 DEF Totals, AddsUp
    <3> QED
      BY <1>2, <2>2, <3>1
  <2> QED
    BY <2>1, <2>2 DEF AddsUp
<1>4. IsIteration(k, L, S)
  <2>1. ASSUME NEW s \in SUBSET S
        PROVE  k[s] = IF s = {} THEN 0
                      ELSE LET x == CHOOSE x \in s : TRUE
                           IN  Refundable(L, x) + k[s \ {x}]
    <3> HIDE DEF k, f
    <3>1. CASE s = {}
      BY <1>3, <3>1 DEF AddsUp
    <3>2. CASE s # {}
      BY <1>2, <1>3, <3>2 DEF AddsUp, Taken
    <3> QED
      BY <3>1, <3>2
  <2>2. k = [s \in SUBSET S |-> k[s]]
    OBVIOUS
  <2> HIDE DEF k
  <2> QED
    BY <2>1, <2>2 DEF IsIteration
<1> HIDE DEF k
<1>5. IsIteration(i, L, S)
  BY <1>4
<1> HIDE DEF i
<1>6. AddsUp(i, f, S)
  <2>1. \A s \in SUBSET S : i[s] = IF s = {} THEN 0
                                   ELSE Refundable(L, Taken(s)) + i[s \ {Taken(s)}]
    BY <1>5 DEF IsIteration, Taken
  <2> HIDE DEF f
  <2> QED
    BY <1>2, <2>1 DEF AddsUp
<1>7. f \in [S -> Nat]
  OBVIOUS
<1> HIDE DEF f
<1>8. i[S] = k[S]
  BY <1>1, <1>3, <1>6, <1>7, TotalsUnique
<1> QED
  BY <1>1, <1>8, SpendUnfolds DEF k, i

\* The spend of a finite set of debits is a natural number, and a debit more
\* adds what is refundable of it.
LEMMA SpendAdds ==
  ASSUME NEW S, IsFiniteSet(S), NEW L, \A o \in S : Refundable(L, o) \in Nat
  PROVE  /\ Spend(L, S) \in Nat /\ Spend(L, {}) = 0
         /\ \A y \in S : Spend(L, S) = Spend(L, S \ {y}) + Refundable(L, y)
<1> DEFINE g == [o \in S |-> Refundable(L, o)]
<1>1. g \in [S -> Nat] /\ \A o \in S : g[o] = Refundable(L, o)
  OBVIOUS
<1> HIDE DEF g
<1>2. PICK h : Totals(h, g, S)
  BY <1>1, TotalsExist
<1>3. \A s \in SUBSET S : Spend(L, s) = h[s]
  BY <1>1, <1>2, SpendIsTotal
<1>4. Spend(L, S) \in Nat /\ Spend(L, {}) = 0
  BY <1>2, <1>3 DEF Totals, AddsUp
<1>5. ASSUME NEW y \in S  PROVE Spend(L, S) = Spend(L, S \ {y}) + Refundable(L, y)
  <2>1. S \ {y} \in SUBSET S /\ y \in S \ (S \ {y}) /\ (S \ {y}) \cup {y} = S
    OBVIOUS
  <2>2. h[(S \ {y}) \cup {y}] = h[S \ {y}] + g[y]
    BY <1>1, <1>2, <2>1, TotalsAdd
  <2> QED
    BY <1>1, <1>3, <2>1, <2>2
<1> QED
  BY <1>4, <1>5

\* The spend grows with the set of debits and with what each of them holds.
LEMMA SpendMonotone ==
  ASSUME NEW T, IsFiniteSet(T), NEW S \in SUBSET T, NEW L, NEW M,
         \A o \in S : Refundable(M, o) \in Nat /\ Refundable(M, o) <= Refundable(L, o),
         \A o \in T : Refundable(L, o) \in Nat
  PROVE  Spend(M, S) <= Spend(L, T)
<1> DEFINE N == {n \in Nat : \E s \in SUBSET T : /\ Cardinality(s) = n
                                                 /\ ~(Spend(M, s \cap S) <= Spend(L, s))}
<1>1. SUFFICES ASSUME ~(Spend(M, S) <= Spend(L, T)) PROVE FALSE
  OBVIOUS
<1>2. N # {}
  <2>1. T \in SUBSET T /\ T \cap S = S /\ Cardinality(T) \in Nat
    BY FS_CardinalityType
  <2> QED
    BY <1>1, <2>1
<1>3. PICK n \in N : \A m \in N : n <= m
  BY <1>2, LeastMember
<1>4. PICK s \in SUBSET T : Cardinality(s) = n /\ ~(Spend(M, s \cap S) <= Spend(L, s))
  BY <1>3
<1>5. n \in Nat
  BY <1>3
<1> HIDE DEF N
<1>6. IsFiniteSet(s) /\ IsFiniteSet(s \cap S)
  BY FS_Subset
<1>7. CASE s = {}
  <2>1. s \cap S = {} /\ \A o \in s : Refundable(M, o) \in Nat
    BY <1>7
  <2>2. Spend(M, {}) = 0 /\ Spend(L, {}) = 0
    BY <1>6, <1>7, <2>1, SpendAdds
  <2> QED
    BY <1>4, <1>7, <2>1, <2>2
<1>8. CASE s # {}
  <2>1. PICK y \in s : TRUE
    BY <1>8
  <2> DEFINE u == s \ {y}
  <2>2. u \in SUBSET T /\ Cardinality(u) = n - 1 /\ n - 1 \in Nat /\ y \in T /\ IsFiniteSet(u)
    <3>1. IsFiniteSet(u) /\ Cardinality(u) = Cardinality(s) - 1
      BY <1>6, <2>1, FS_RemoveElement
    <3>2. Cardinality(u) \in Nat
      BY <3>1, FS_CardinalityType
    <3> QED
      BY <1>4, <1>5, <2>1, <3>1, <3>2
  <2>3. n - 1 \notin N
    BY <1>3, <1>5, <2>2
  <2> HIDE DEF u
  <2>4. Spend(M, u \cap S) <= Spend(L, u)
    BY <2>2, <2>3 DEF N
  <2>5. Spend(L, s) = Spend(L, u) + Refundable(L, y) /\ Refundable(L, y) \in Nat
    BY <1>6, <2>1, <2>2, SpendAdds DEF u
  <2>6. Spend(L, u) \in Nat /\ Spend(M, u \cap S) \in Nat
    <3>1. IsFiniteSet(u \cap S) /\ u \cap S \in SUBSET S
      BY <2>2, FS_Subset
    <3> QED
      BY <2>2, <3>1, SpendAdds
  <2>7. CASE y \in S
    <3>1. (s \cap S) \ {y} = u \cap S /\ y \in s \cap S
      BY <2>1, <2>7 DEF u
    <3>2. Spend(M, s \cap S) = Spend(M, u \cap S) + Refundable(M, y)
      BY <1>6, <3>1, SpendAdds
    <3>3. Refundable(M, y) \in Nat /\ Refundable(M, y) <= Refundable(L, y)
      BY <2>7
    <3> QED
      BY <1>4, <2>4, <2>5, <2>6, <3>2, <3>3
  <2>8. CASE y \notin S
    <3>1. s \cap S = u \cap S
      BY <2>8 DEF u
    <3> QED
      BY <1>4, <2>4, <2>5, <2>6, <3>1
  <2> QED
    BY <2>7, <2>8
<1> QED
  BY <1>7, <1>8

-----------------------------------------------------------------------------
(* The spend caps.                                                         *)

\* What the debits among Q created at or after t have spent.
Spent(L, cr, Q, t) == Spend(L, {o \in Q : IsDebit(L, o) /\ cr[o] >= t})

AccountOps(a) == {o \in Ops : Intent[o].acct = a}
ScopeOps(s) == {o \in Ops : Intent[o].scope = s}

SpentToday(a) == Spent(ledger, created, AccountOps(a), startOfUtcDay(clock))
SpentInWindow(s) == Spent(ledger, created, ScopeOps(s), clock - Window)

\* The places of a debit past the daily cap's check.
Capped == {"rollingCap", "lockAccount", "update", "insert", "commit"}

\* The open debit x of c: under the locks it holds there is room for it.
CapsOf(c, x) ==
  LET i == Intent[x.o] IN
  /\ x.pc \notin {"update", "insert", "commit"} => i.debit
  /\ x.pc = "scopeLock" => i.scope # NoScope
  /\ i.debit =>
       /\ x.pc # "dayLock" => locks[<<"day", i.acct>>] = c
       /\ x.pc \notin {"dayLock", "scopeLock"} /\ i.scope # NoScope =>
            locks[<<"scope", i.scope>>] = c
       /\ x.pc \in Capped => SpentToday(i.acct) + i.amount <= DailyCap
       /\ x.pc \in Capped \ {"rollingCap"} /\ i.scope # NoScope =>
            SpentInWindow(i.scope) + i.amount <= RollingCap

Payers == \A o \in Ops : IsDebit(ledger, o) => PayerOf(ledger, o) = Intent[o].acct

CapInv ==
  /\ SoundLedger(ledger) /\ Payers
  /\ \A c \in Clients : tx[c] \in OpTx => CapsOf(c, tx[c])
  /\ \A a \in Accounts : SpentToday(a) <= DailyCap
  /\ \A s \in Scopes : SpentInWindow(s) <= RollingCap

\* The sums of the model are these.
LEMMA SpentNames ==
  ASSUME Payers, NEW a, NEW s, NEW t
  PROVE  /\ netSpendSince(a, t) = Spent(ledger, created, AccountOps(a), t)
         /\ scopedNetSpendSince(s, t) = Spent(ledger, created, ScopeOps(s), t)
<1>1. \A D : NetSpend(D) = Spend(ledger, D)
  BY DEF NetSpend, Spend
<1>2. {o \in Ops : IsDebit(ledger, o) /\ PayerOf(ledger, o) = a /\ created[o] >= t}
        = {o \in AccountOps(a) : IsDebit(ledger, o) /\ created[o] >= t}
  BY DEF Payers, AccountOps
<1>3. {o \in Ops : IsDebit(ledger, o) /\ Intent[o].scope = s /\ created[o] >= t}
        = {o \in ScopeOps(s) : IsDebit(ledger, o) /\ created[o] >= t}
  BY DEF ScopeOps
<1> QED
  BY <1>1, <1>2, <1>3 DEF netSpendSince, scopedNetSpendSince, Spent

\* What is refundable of a debit.
LEMMA RefundableOfDebit ==
  ASSUME NEW L, SoundLedger(L), NEW o \in Ops, IsDebit(L, o)
  PROVE  Refundable(L, o) \in Nat /\ Refundable(L, o) = Reserved(L, o) - alreadyRefundedManna(L, o)
<1>1. L \in Ledger /\ alreadyRefundedManna(L, o) <= Reserved(L, o)
  BY DEF SoundLedger, LegsSound
<1>2. Reserved(L, o) \in Nat /\ alreadyRefundedManna(L, o) \in Int
  BY <1>1, DebitFacts, RefundedType
<1> QED
  BY <1>1, <1>2 DEF Refundable, Max0

\* Between two ledgers no debit but o is new, dated anew or holds more, and what
\* o holds is at most n.
Settles(L, cr, M, cs, o, n) ==
  /\ \A p \in Ops \ {o} :
       IsDebit(M, p) => IsDebit(L, p) /\ cs[p] = cr[p] /\ Refundable(M, p) <= Refundable(L, p)
  /\ o \in Ops /\ IsDebit(M, o) => Refundable(M, o) <= n

\* Then every sum grows by n at most, and only if it counts o.
LEMMA SpentGrows ==
  ASSUME NEW L, SoundLedger(L), NEW M, SoundLedger(M),
         NEW cr \in [Ops -> Nat], NEW cs \in [Ops -> Nat], NEW o, NEW n \in Nat,
         Settles(L, cr, M, cs, o, n),
         NEW Q \in SUBSET Ops, NEW t \in Int, NEW u \in Int, t <= u
  PROVE  /\ Spent(L, cr, Q, t) \in Nat /\ Spent(M, cs, Q, u) \in Nat
         /\ Spent(M, cs, Q, u) <= Spent(L, cr, Q, t) + n
         /\ o \notin Q => Spent(M, cs, Q, u) <= Spent(L, cr, Q, t)
<1> DEFINE D == {p \in Q : IsDebit(L, p) /\ cr[p] >= t}
           E == {p \in Q : IsDebit(M, p) /\ cs[p] >= u}
           F == E \ {o}
<1>1. D \in SUBSET Ops /\ E \in SUBSET Ops /\ IsFiniteSet(D) /\ IsFiniteSet(E)
  <2>1. D \in SUBSET Ops /\ E \in SUBSET Ops
    OBVIOUS
  <2> HIDE DEF D, E
  <2> QED
    BY <2>1, CapsAssumption, FS_Subset
<1>2. /\ \A p \in D : Refundable(L, p) \in Nat
      /\ \A p \in E : Refundable(M, p) \in Nat
  BY RefundableOfDebit
<1>3. ASSUME NEW p \in F
      PROVE  p \in D /\ Refundable(M, p) <= Refundable(L, p)
  <2>1. p \in Ops \ {o} /\ p \in Q /\ IsDebit(M, p) /\ cs[p] >= u
    OBVIOUS
  <2>2. IsDebit(L, p) /\ cs[p] = cr[p] /\ Refundable(M, p) <= Refundable(L, p)
    BY <2>1 DEF Settles
  <2>3. cr[p] >= t
    BY <2>1, <2>2
  <2> QED
    BY <2>1, <2>2, <2>3
<1>4. F \in SUBSET D /\ F \in SUBSET E /\ (o \notin E => F = E)
  BY <1>3
<1>5. o \in E => o \in Ops /\ Refundable(M, o) <= n
  BY DEF Settles
<1>6. o \in E => o \in Q
  OBVIOUS
<1>7. Spent(L, cr, Q, t) = Spend(L, D) /\ Spent(M, cs, Q, u) = Spend(M, E)
  BY DEF Spent
<1> HIDE DEF D, E, F
<1>8. Spend(M, F) <= Spend(L, D)
  BY <1>1, <1>2, <1>3, <1>4, SpendMonotone
<1>9. Spend(L, D) \in Nat /\ Spend(M, E) \in Nat
  BY <1>1, <1>2, SpendAdds
<1>10. Spend(M, F) \in Nat
  <2>1. IsFiniteSet(F)
    BY <1>1, <1>4, FS_Subset
  <2> QED
    BY <1>2, <1>4, <2>1, SpendAdds
<1>11. CASE o \in E
  <2>1. Spend(M, E) = Spend(M, F) + Refundable(M, o)
    BY <1>1, <1>2, <1>11, SpendAdds DEF F
  <2> QED
    BY <1>2, <1>5, <1>6, <1>7, <1>8, <1>9, <1>10, <1>11, <2>1
<1>12. CASE o \notin E
  BY <1>4, <1>7, <1>8, <1>9, <1>10, <1>12
<1> QED
  BY <1>11, <1>12

\* The starts of the day and of the window move on with the clock.
LEMMA DayMovesOn ==
  ASSUME NEW t \in Nat, NEW u \in Nat, t <= u
  PROVE  /\ startOfUtcDay(t) \in Nat /\ startOfUtcDay(u) \in Nat
         /\ startOfUtcDay(t) <= startOfUtcDay(u)
         /\ t - Window \in Int /\ u - Window \in Int /\ t - Window <= u - Window
<1>1. DayOf(t) \in Nat /\ DayOf(u) \in Nat /\ DayOf(t) <= DayOf(u)
  BY CapsAssumption DEF DayOf
<1> HIDE DEF DayOf
<1>2. DayOf(t) * DayLength <= DayOf(u) * DayLength
  BY <1>1, CapsAssumption
<1> QED
  BY <1>1, <1>2, CapsAssumption DEF startOfUtcDay

\* The types of the tables that the caps need.
LEMMA CapTypes ==
  ASSUME TxInv
  PROVE  created \in [Ops -> Nat] /\ clock \in Nat
BY SessionsAssumption DEF TxInv, Tables

\* A step after which every sum has settled, but for the n of an o whose locks
\* are d's and for which there was room, keeps the caps.
LEMMA CapsAfter ==
  ASSUME TxInv, TxInv', CapInv, SoundLedger(ledger'), Payers', clock <= clock',
         NEW o, NEW n \in Nat, Settles(ledger, created, ledger', created', o, n),
         NEW d, \A c \in Clients \ {d} : tx'[c] = tx[c],
         \A c \in Clients \ {d} : \A l \in Locks : locks[l] = c => locks'[l] = c,
         d \in Clients /\ tx'[d] \in OpTx => CapsOf(d, tx[d])',
         o \in Ops => /\ locks[<<"day", Intent[o].acct>>] = d
                      /\ SpentToday(Intent[o].acct) + n <= DailyCap,
         o \in Ops /\ Intent[o].scope # NoScope =>
           /\ locks[<<"scope", Intent[o].scope>>] = d
           /\ SpentInWindow(Intent[o].scope) + n <= RollingCap
  PROVE  CapInv'
<1>1. /\ created \in [Ops -> Nat] /\ created' \in [Ops -> Nat] /\ clock \in Nat /\ clock' \in Nat
      /\ SoundLedger(ledger)
  BY CapTypes, SessionsAssumption DEF TxInv, Tables, CapInv
<1>2. /\ startOfUtcDay(clock) \in Int /\ startOfUtcDay(clock)' \in Int
      /\ startOfUtcDay(clock) <= startOfUtcDay(clock)'
      /\ clock - Window \in Int /\ clock' - Window \in Int /\ clock - Window <= clock' - Window
  <2>1. startOfUtcDay(clock)' = startOfUtcDay(clock')
    BY DEF startOfUtcDay, DayOf
  <2> QED
    BY <1>1, <2>1, DayMovesOn
<1>3. ASSUME NEW a \in Accounts
      PROVE  /\ SpentToday(a) \in Nat /\ SpentToday(a)' \in Nat
             /\ SpentToday(a)' <= SpentToday(a) + n
             /\ ~(o \in Ops /\ Intent[o].acct = a) => SpentToday(a)' <= SpentToday(a)
  <2>1. AccountOps(a) \in SUBSET Ops /\ (o \in AccountOps(a) => o \in Ops /\ Intent[o].acct = a)
    BY DEF AccountOps
  <2>2. SpentToday(a)' = Spent(ledger', created', AccountOps(a), startOfUtcDay(clock)')
    BY DEF SpentToday, Spent, AccountOps
  <2> DEFINE t == startOfUtcDay(clock)
             u == startOfUtcDay(clock)'
  <2>3. t \in Int /\ u \in Int /\ t <= u
    BY <1>2
  <2>4. SpentToday(a) = Spent(ledger, created, AccountOps(a), t)
    BY DEF SpentToday
  <2> HIDE DEF t, u
  <2>5. /\ Spent(ledger, created, AccountOps(a), t) \in Nat
        /\ Spent(ledger', created', AccountOps(a), u) \in Nat
        /\ Spent(ledger', created', AccountOps(a), u) <= Spent(ledger, created, AccountOps(a), t) + n
        /\ o \notin AccountOps(a) =>
             Spent(ledger', created', AccountOps(a), u) <= Spent(ledger, created, AccountOps(a), t)
    BY <1>1, <2>1, <2>3, SpentGrows
  <2> QED
    BY <2>1, <2>2, <2>4, <2>5 DEF u
<1>4. ASSUME NEW s \in Scopes
      PROVE  /\ SpentInWindow(s) \in Nat /\ SpentInWindow(s)' \in Nat
             /\ SpentInWindow(s)' <= SpentInWindow(s) + n
             /\ ~(o \in Ops /\ Intent[o].scope = s) => SpentInWindow(s)' <= SpentInWindow(s)
  <2>1. ScopeOps(s) \in SUBSET Ops /\ (o \in ScopeOps(s) => o \in Ops /\ Intent[o].scope = s)
    BY DEF ScopeOps
  <2>2. SpentInWindow(s)' = Spent(ledger', created', ScopeOps(s), clock' - Window)
    BY DEF SpentInWindow, Spent, ScopeOps
  <2>3. SpentInWindow(s) = Spent(ledger, created, ScopeOps(s), clock - Window)
    BY DEF SpentInWindow
  <2>4. /\ Spent(ledger, created, ScopeOps(s), clock - Window) \in Nat
        /\ Spent(ledger', created', ScopeOps(s), clock' - Window) \in Nat
        /\ Spent(ledger', created', ScopeOps(s), clock' - Window)
             <= Spent(ledger, created, ScopeOps(s), clock - Window) + n
        /\ o \notin ScopeOps(s) =>
             Spent(ledger', created', ScopeOps(s), clock' - Window)
               <= Spent(ledger, created, ScopeOps(s), clock - Window)
    BY <1>1, <1>2, <2>1, SpentGrows
  <2> QED
    BY <2>1, <2>2, <2>3, <2>4
<1>5. ASSUME NEW a \in Accounts  PROVE SpentToday(a)' <= DailyCap
  <2>1. SpentToday(a) <= DailyCap
    BY DEF CapInv
  <2> QED
    BY <1>3, <2>1, CapsAssumption
<1>6. ASSUME NEW s \in Scopes  PROVE SpentInWindow(s)' <= RollingCap
  <2>1. SpentInWindow(s) <= RollingCap /\ s # NoScope
    BY DEF CapInv, Scopes
  <2> QED
    BY <1>4, <2>1, CapsAssumption
<1>7. ASSUME NEW c \in Clients \ {d}, tx'[c] \in OpTx  PROVE CapsOf(c, tx[c])'
  <2>1. PICK x, i : x = tx[c] /\ i = Intent[x.o]
    OBVIOUS
  <2>2. tx'[c] = x /\ x \in OpTx /\ x.o \in Ops /\ CapsOf(c, x)
    BY <1>7, <2>1 DEF OpTx, CapInv
  <2>3. /\ i.acct \in Accounts /\ i.amount \in Nat
        /\ <<"day", i.acct>> \in Locks
        /\ i.scope # NoScope => i.scope \in Scopes /\ <<"scope", i.scope>> \in Locks
    BY <2>1, <2>2, IntentTypes, LockTypes
  <2>4. /\ locks[<<"day", i.acct>>] = c => /\ locks'[<<"day", i.acct>>] = c
                                           /\ SpentToday(i.acct)' <= SpentToday(i.acct)
        /\ SpentToday(i.acct) \in Nat /\ SpentToday(i.acct)' \in Nat
    BY <1>3, <2>3
  <2>5. i.scope # NoScope =>
          /\ locks[<<"scope", i.scope>>] = c =>
               /\ locks'[<<"scope", i.scope>>] = c
               /\ SpentInWindow(i.scope)' <= SpentInWindow(i.scope)
          /\ SpentInWindow(i.scope) \in Nat /\ SpentInWindow(i.scope)' \in Nat
    BY <1>4, <2>3
  <2>6. CapsOf(c, x)'
    <3>1. /\ x.pc \notin {"update", "insert", "commit"} => i.debit
          /\ x.pc = "scopeLock" => i.scope # NoScope
          /\ i.debit =>
               /\ x.pc # "dayLock" => locks[<<"day", i.acct>>] = c
               /\ x.pc \notin {"dayLock", "scopeLock"} /\ i.scope # NoScope =>
                    locks[<<"scope", i.scope>>] = c
               /\ x.pc \in Capped => SpentToday(i.acct) + i.amount <= DailyCap
               /\ x.pc \in Capped \ {"rollingCap"} /\ i.scope # NoScope =>
                    SpentInWindow(i.scope) + i.amount <= RollingCap
      BY <2>1, <2>2 DEF CapsOf
    <3>2. ASSUME i.debit, x.pc \in Capped
          PROVE  SpentToday(i.acct)' + i.amount <= DailyCap
      <4>1. x.pc # "dayLock"
        BY <3>2 DEF Capped
      <4> QED
        BY <2>3, <2>4, <3>1, <3>2, <4>1, CapsAssumption
    <3>3. ASSUME i.debit, x.pc \in Capped \ {"rollingCap"}, i.scope # NoScope
          PROVE  SpentInWindow(i.scope)' + i.amount <= RollingCap
      <4>1. x.pc \notin {"dayLock", "scopeLock"}
        BY <3>3 DEF Capped
      <4> QED
        BY <2>3, <2>5, <3>1, <3>3, <4>1, CapsAssumption
    <3> QED
      BY <2>1, <2>4, <2>5, <3>1, <3>2, <3>3 DEF CapsOf
  <2> QED
    BY <2>2, <2>6 DEF CapsOf
<1>8. ASSUME NEW c \in Clients, tx'[c] \in OpTx  PROVE CapsOf(c, tx[c])'
  BY <1>7, <1>8
<1> QED
  BY <1>5, <1>6, <1>8 DEF CapInv

\* A statement that writes no table keeps the caps if its own session is in
\* order.
LEMMA CapsQuiet ==
  ASSUME TxInv, TxInv', CapInv, NEW d, UNCHANGED <<ledger, created>>, clock <= clock',
         \A c \in Clients \ {d} : tx'[c] = tx[c],
         \A c \in Clients \ {d} : \A l \in Locks : locks[l] = c => locks'[l] = c,
         d \in Clients /\ tx'[d] \in OpTx => CapsOf(d, tx[d])'
  PROVE  CapInv'
<1>1. SoundLedger(ledger') /\ Payers'
  BY DEF CapInv, Payers
<1>2. \A o \in Ops : IsDebit(ledger, o) => Refundable(ledger, o) \in Nat
  BY RefundableOfDebit DEF CapInv
<1>3. Settles(ledger, created, ledger', created', NoOp, 0)
  BY <1>2, NoOpAssumption DEF Settles
<1> QED
  BY <1>1, <1>3, NoOpAssumption, CapsAfter

\* A transaction that ends without a write.
LEMMA CapsEnd ==
  ASSUME TxInv, TxInv', CapInv, NEW d \in Clients, UNCHANGED <<ledgerVars, clock>>, End(d)
  PROVE  CapInv'
<1>1. /\ \A c \in Clients \ {d} : tx'[c] = tx[c] /\ \A l \in Locks : locks[l] = c => locks'[l] = c
      /\ clock \in Nat
  BY Ended, LocksKept, CapTypes DEF TxInv, Moves
<1>2. tx'[d] \notin OpTx
  <2>1. tx'[d] = Closed
    BY DEF End, TxInv, Tables
  <2> QED
    BY <2>1 DEF OpTx, Closed
<1> QED
  BY <1>1, <1>2, CapsQuiet DEF ledgerVars

\* A statement of a debit that goes on to the place q.
LEMMA CapsGo ==
  ASSUME TxInv, TxInv', CapInv, NEW d \in Clients, UNCHANGED <<ledgerVars, clock>>,
         tx[d] \in OpTx, Moves(d), tx'[d].o = tx[d].o,
         NEW l, Acquire(d, l) \/ UNCHANGED locks,
         tx'[d] \in OpTx => CapsOf(d, tx[d])'
  PROVE  CapInv'
<1>1. /\ \A c \in Clients \ {d} : tx'[c] = tx[c] /\ \A m \in Locks : locks[m] = c => locks'[m] = c
      /\ clock \in Nat
  BY LocksKept, CapTypes DEF TxInv, Moves
<1> QED
  BY <1>1, CapsQuiet DEF ledgerVars

\* The sums of an unchanged ledger at an unchanged clock.
LEMMA SameSums ==
  ASSUME UNCHANGED <<ledgerVars, clock>>, NEW a, NEW s
  PROVE  SpentToday(a)' = SpentToday(a) /\ SpentInWindow(s)' = SpentInWindow(s)
BY DEF ledgerVars, SpentToday, SpentInWindow, Spent, AccountOps, ScopeOps, startOfUtcDay, DayOf

\* Locks that a session holds stay its own.
LEMMA OwnLocksKept ==
  ASSUME TxInv, NEW d \in Clients, NEW l, Acquire(d, l) \/ UNCHANGED locks
  PROVE  /\ \A m \in Locks : locks[m] = d => locks'[m] = d
         /\ l \in Locks /\ Acquire(d, l) => locks'[l] = d
BY DEF TxInv, Tables, Acquire

\* A sum is a natural number.
LEMMA SpentType ==
  ASSUME TxInv, CapInv, NEW Q \in SUBSET Ops, NEW t \in Int
  PROVE  Spent(ledger, created, Q, t) \in Nat
<1>1. SoundLedger(ledger) /\ created \in [Ops -> Nat]
  BY CapTypes DEF CapInv
<1>2. Settles(ledger, created, ledger, created, NoOp, 0)
  BY <1>1, RefundableOfDebit, NoOpAssumption DEF Settles
<1>3. t <= t
  OBVIOUS
<1> QED
  BY <1>1, <1>2, <1>3, SpentGrows

\* The advisory locks and the checks of the caps.
LEMMA CapsChecked ==
  ASSUME TxInv, TxInv', CapInv, NEW d \in Clients,
         DayLock(d) \/ ScopeLock(d) \/ Recheck(d) \/ CheckDailyCap(d) \/ CheckRollingCap(d)
  PROVE  CapInv'
<1>1. /\ tx[d].pc \in {"dayLock", "scopeLock", "recheck", "dailyCap", "rollingCap"}
      /\ UNCHANGED <<ledgerVars, clock>>
  BY DEF DayLock, ScopeLock, Recheck, CheckDailyCap, CheckRollingCap, At
<1>2. tx[d] \in OpTx
  <2>1. tx[d] \in OpTx \/ tx[d] \in LegTx
    BY <1>1, OpenTx DEF TxInv, At
  <2> QED
    BY <1>1, <2>1 DEF LegTx
<1>3. CASE End(d)
  BY <1>1, <1>3, CapsEnd
<1>4. ASSUME ~End(d)  PROVE CapInv'
  <2>1. PICK x, i : x = tx[d] /\ i = Intent[x.o]
    OBVIOUS
  <2>2. x.o \in Ops /\ CapsOf(d, x)
    BY <1>2, <2>1 DEF OpTx, CapInv
  <2>3. /\ i.acct \in Accounts /\ <<"day", i.acct>> \in Locks
        /\ i.scope # NoScope => i.scope \in Scopes /\ <<"scope", i.scope>> \in Locks
    BY <2>1, <2>2, IntentTypes, LockTypes
  <2>4. /\ x.pc \notin {"update", "insert", "commit"} => i.debit
        /\ x.pc = "scopeLock" => i.scope # NoScope
        /\ i.debit =>
             /\ x.pc # "dayLock" => locks[<<"day", i.acct>>] = d
             /\ x.pc \notin {"dayLock", "scopeLock"} /\ i.scope # NoScope =>
                  locks[<<"scope", i.scope>>] = d
             /\ x.pc \in Capped => SpentToday(i.acct) + i.amount <= DailyCap
    BY <2>1, <2>2 DEF CapsOf
  <2>5. i.debit
    BY <1>1, <2>1, <2>4
  <2>6. PICK q \in {"scopeLock", "recheck", "dailyCap", "rollingCap", "lockAccount"} :
          /\ Go(d, q)
          /\ q = "scopeLock" => i.scope # NoScope
          /\ x.pc = "dayLock" => q \in {"scopeLock", "recheck"} /\ Acquire(d, <<"day", i.acct>>)
          /\ x.pc = "dayLock" /\ q = "recheck" => i.scope = NoScope
          /\ x.pc = "scopeLock" => q = "recheck" /\ Acquire(d, <<"scope", i.scope>>)
          /\ x.pc \notin {"dayLock", "scopeLock"} => UNCHANGED locks
          /\ x.pc = "recheck" => q = "dailyCap"
          /\ x.pc = "dailyCap" =>
               /\ q \in {"rollingCap", "lockAccount"}
               /\ q = "lockAccount" => i.scope = NoScope
               /\ ~(netSpendSince(i.acct, startOfUtcDay(clock)) + i.amount > DailyCap)
          /\ x.pc = "rollingCap" =>
               /\ q = "lockAccount"
               /\ ~(scopedNetSpendSince(i.scope, clock - Window) + i.amount > RollingCap)
    <3>1. CASE DayLock(d)
      <4>1. x.pc = "dayLock" /\ Acquire(d, <<"day", i.acct>>)
        BY <2>1, <3>1 DEF DayLock, At
      <4>2. CASE i.scope = NoScope
        <5>1. Go(d, "recheck")
          BY <2>1, <3>1, <4>2 DEF DayLock
        <5> QED
          BY <4>1, <4>2, <5>1
      <4>3. CASE i.scope # NoScope
        <5>1. Go(d, "scopeLock")
          BY <2>1, <3>1, <4>3 DEF DayLock
        <5> QED
          BY <4>1, <4>3, <5>1
      <4> QED
        BY <4>2, <4>3
    <3>2. CASE ScopeLock(d)
      BY <2>1, <3>2 DEF ScopeLock, At
    <3>3. CASE Recheck(d)
      BY <1>4, <2>1, <3>3 DEF Recheck, At
    <3>4. CASE CheckDailyCap(d)
      BY <1>4, <2>1, <3>4 DEF CheckDailyCap, At
    <3>5. CASE CheckRollingCap(d)
      BY <1>4, <2>1, <3>5 DEF CheckRollingCap, At
    <3> QED
      BY <3>1, <3>2, <3>3, <3>4, <3>5
  <2>7. /\ Moves(d) /\ tx'[d] \in OpTx /\ tx'[d].pc = q /\ tx'[d].o = x.o
    BY <1>2, <2>1, <2>6, GoOp DEF TxInv
  <2>8. \E l : Acquire(d, l) \/ UNCHANGED locks
    BY <1>1, <2>1, <2>6
  <2>9. /\ locks'[<<"day", i.acct>>] = d
        /\ i.scope # NoScope /\ q # "scopeLock" => locks'[<<"scope", i.scope>>] = d
    BY <1>1, <2>1, <2>3, <2>4, <2>5, <2>6, OwnLocksKept
  <2>10. /\ netSpendSince(i.acct, startOfUtcDay(clock)) = SpentToday(i.acct)
         /\ scopedNetSpendSince(i.scope, clock - Window) = SpentInWindow(i.scope)
    BY SpentNames DEF CapInv, SpentToday, SpentInWindow
  <2>11. /\ SpentToday(i.acct)' = SpentToday(i.acct)
         /\ SpentInWindow(i.scope)' = SpentInWindow(i.scope)
    BY <1>1, SameSums
  <2>12. /\ SpentToday(i.acct) \in Nat /\ i.amount \in Nat
         /\ i.scope # NoScope => SpentInWindow(i.scope) \in Nat
    <3>1. startOfUtcDay(clock) \in Int /\ clock - Window \in Int
      BY CapTypes, DayMovesOn
    <3>2. AccountOps(i.acct) \in SUBSET Ops /\ ScopeOps(i.scope) \in SUBSET Ops
      BY DEF AccountOps, ScopeOps
    <3>3. SpentToday(i.acct) \in Nat /\ SpentInWindow(i.scope) \in Nat
      BY <3>1, <3>2, SpentType DEF SpentToday, SpentInWindow
    <3>4. i.amount \in Nat
      BY <2>1, <2>2, IntentTypes
    <3> QED
      BY <3>3, <3>4
  <2>13. q \in Capped => SpentToday(i.acct) + i.amount <= DailyCap
    <3>1. CASE x.pc = "dailyCap"
      BY <2>6, <2>10, <2>12, <3>1, CapsAssumption
    <3>2. CASE x.pc # "dailyCap"
      BY <1>1, <2>1, <2>4, <2>5, <2>6, <3>2 DEF Capped
    <3> QED
      BY <3>1, <3>2
  <2>14. q = "lockAccount" /\ i.scope # NoScope => SpentInWindow(i.scope) + i.amount <= RollingCap
    BY <1>1, <2>1, <2>6, <2>10, <2>12, CapsAssumption
  <2>15. CapsOf(d, tx[d])'
    <3>1. Intent[tx'[d].o] = i /\ q \notin {"update", "insert", "commit"}
      BY <2>1, <2>7
    <3>2. q \in Capped \ {"rollingCap"} => q = "lockAccount"
      BY DEF Capped
    <3> QED
      BY <2>5, <2>6, <2>7, <2>9, <2>11, <2>13, <2>14, <3>1, <3>2 DEF CapsOf
  <2> QED
    BY <1>1, <1>2, <2>1, <2>7, <2>8, <2>15, CapsGo
<1> QED
  BY <1>3, <1>4

\* The statements after the caps' checks, and those of the other transactions.
LEMMA CapsKept ==
  ASSUME TxInv, TxInv', CapInv, NEW d \in Clients,
         LockAccount(d) \/ LockOriginal(d) \/ ReadLegs(d) \/ UpdateAccount(d) \/ InsertRow(d)
  PROVE  CapInv'
<1>1. /\ UNCHANGED <<ledgerVars, clock>> /\ ~At(d, "closed")
      /\ tx[d].pc \in {"lockAccount", "lockOriginal", "readLegs", "update", "insert"}
  BY DEF LockAccount, LockOriginal, ReadLegs, UpdateAccount, InsertRow, At
<1>2. CASE End(d)
  BY <1>1, <1>2, CapsEnd
<1>3. ASSUME ~End(d), tx[d] \in OpTx  PROVE CapInv'
  <2>1. PICK x, i : x = tx[d] /\ i = Intent[x.o]
    OBVIOUS
  <2>2. x.o \in Ops /\ CapsOf(d, x) /\ x.pc \in {"lockAccount", "update", "insert"}
    BY <1>1, <1>3, <2>1 DEF OpTx, CapInv
  <2>3. /\ i.acct \in Accounts /\ <<"day", i.acct>> \in Locks
        /\ i.scope # NoScope => <<"scope", i.scope>> \in Locks
    BY <2>1, <2>2, IntentTypes, LockTypes
  <2>4. /\ Moves(d) /\ tx'[d].o = x.o /\ tx'[d].pc \in {"update", "insert", "commit"}
        /\ \E l : Acquire(d, l) \/ UNCHANGED locks
    <3>1. CASE LockAccount(d)
      <4>1. tx'[d].pc = "update" /\ tx'[d].o = x.o
        BY <1>3, <2>1, <3>1 DEF LockAccount, TxInv, Tables, OpTx
      <4>2. Moves(d)
        BY <3>1 DEF LockAccount, TxInv, Tables, Moves, Sessions
      <4>3. \E l : Acquire(d, l)
        BY <3>1 DEF LockAccount
      <4> QED
        BY <4>1, <4>2, <4>3
    <3>2. CASE UpdateAccount(d)
      <4>1. Go(d, "insert") /\ \E l : Acquire(d, l)
        BY <1>3, <3>2 DEF UpdateAccount
      <4> QED
        BY <1>3, <2>1, <4>1, GoOp DEF TxInv
    <3>3. CASE InsertRow(d)
      <4>1. Go(d, "commit") /\ \E l : Acquire(d, l)
        BY <1>3, <3>3 DEF InsertRow
      <4> QED
        BY <1>3, <2>1, <4>1, GoOp DEF TxInv
    <3>4. CASE LockOriginal(d) \/ ReadLegs(d)
      BY <2>1, <2>2, <3>4 DEF LockOriginal, ReadLegs, At
    <3> QED
      BY <3>1, <3>2, <3>3, <3>4
  <2>5. /\ locks[<<"day", i.acct>>] = d => locks'[<<"day", i.acct>>] = d
        /\ i.scope # NoScope /\ locks[<<"scope", i.scope>>] = d => locks'[<<"scope", i.scope>>] = d
    BY <2>3, <2>4, OwnLocksKept
  <2>6. SpentToday(i.acct)' = SpentToday(i.acct) /\ SpentInWindow(i.scope)' = SpentInWindow(i.scope)
    BY <1>1, SameSums
  <2>7. CapsOf(d, tx[d])'
    <3>1. Intent[tx'[d].o] = i
      BY <2>1, <2>4
    <3>2. /\ x.pc \notin {"dayLock", "scopeLock", "rollingCap"} /\ x.pc \in Capped
          /\ tx'[d].pc \notin {"dayLock", "scopeLock"}
      BY <2>2, <2>4 DEF Capped
    <3>3. i.debit => /\ locks[<<"day", i.acct>>] = d
                     /\ i.scope # NoScope => locks[<<"scope", i.scope>>] = d
                     /\ SpentToday(i.acct) + i.amount <= DailyCap
                     /\ i.scope # NoScope => SpentInWindow(i.scope) + i.amount <= RollingCap
      BY <2>1, <2>2, <3>2 DEF CapsOf
    <3> QED
      BY <2>4, <2>5, <2>6, <3>1, <3>2, <3>3 DEF CapsOf
  <2> QED
    BY <1>1, <1>3, <2>1, <2>4, <2>7, CapsGo
<1>4. ASSUME ~End(d), tx[d] \in LegTx  PROVE CapInv'
  <2>1. tx[d].pc # "lockAccount" /\ LegOK(d, tx[d])
    BY <1>4 DEF LegTx, TxInv, SessionOK
  <2>2. /\ Moves(d) /\ tx'[d] \notin OpTx
        /\ \E l : Acquire(d, l) \/ UNCHANGED locks
    <3>1. CASE LockOriginal(d)
      BY <1>4, <3>1, GoLeg DEF LockOriginal, TxInv
    <3>2. CASE ReadLegs(d)
      BY <1>4, <3>2, ReadLegsStep
    <3>3. CASE UpdateAccount(d)
      <4>1. Go(d, "insert") /\ \E l : Acquire(d, l)
        BY <1>4, <3>3 DEF UpdateAccount
      <4> QED
        BY <1>4, <4>1, GoLeg DEF TxInv
    <3>4. CASE InsertRow(d)
      <4>1. Go(d, "commit") /\ \E l : Acquire(d, l)
        BY <1>4, <3>4 DEF InsertRow
      <4> QED
        BY <1>4, <4>1, GoLeg DEF TxInv
    <3>5. CASE LockAccount(d)
      BY <2>1, <3>5 DEF LockAccount, At
    <3> QED
      BY <3>1, <3>2, <3>3, <3>4, <3>5
  <2>3. /\ \A c \in Clients \ {d} : tx'[c] = tx[c] /\ \A m \in Locks : locks[m] = c => locks'[m] = c
        /\ clock \in Nat
    BY <2>2, LocksKept, CapTypes DEF TxInv, Moves
  <2> QED
    BY <1>1, <2>2, <2>3, CapsQuiet DEF ledgerVars
<1> QED
  BY <1>1, <1>2, <1>3, <1>4, OpenTx DEF TxInv

LEMMA CapsBegin ==
  ASSUME TxInv, TxInv', CapInv, NEW d \in Clients, NEW o \in Ops,
         \/ BeginOp(d, o)
         \/ \E kind \in LegKinds, charge \in Nat : BeginLeg(d, o, kind, charge)
  PROVE  CapInv'
<1>1. /\ UNCHANGED <<ledgerVars, clock, locks>>
      /\ tx \in [Clients -> Sessions]
  BY DEF BeginOp, BeginLeg, TxInv, Tables, Sessions
<1>2. \A c \in Clients \ {d} : tx'[c] = tx[c]
  BY <1>1 DEF BeginOp, BeginLeg
<1>3. ASSUME BeginOp(d, o), tx'[d] \in OpTx  PROVE CapsOf(d, tx[d])'
  <2>1. /\ tx'[d].pc = IF Intent[o].debit THEN "dayLock" ELSE "update"
        /\ tx'[d].o = o
    BY <1>1, <1>3 DEF BeginOp
  <2>2. CASE Intent[o].debit
    BY <2>1, <2>2 DEF CapsOf, Capped
  <2>3. CASE ~Intent[o].debit
    BY <2>1, <2>3 DEF CapsOf
  <2> QED
    BY <2>2, <2>3
<1>4. ASSUME NEW kind \in LegKinds, NEW charge \in Nat, BeginLeg(d, o, kind, charge)
      PROVE  tx'[d] \notin OpTx
  <2>1. tx'[d].kind = kind
    BY <1>1, <1>4 DEF BeginLeg
  <2> QED
    BY <2>1 DEF OpTx, LegKinds
<1>5. clock \in Nat /\ \A c \in Clients \ {d} : \A m \in Locks : locks[m] = c => locks'[m] = c
  BY <1>1, CapTypes
<1>6. tx'[d] \in OpTx => CapsOf(d, tx[d])'
  BY <1>3, <1>4
<1> QED
  BY <1>1, <1>2, <1>5, <1>6, CapsQuiet DEF ledgerVars

\* What a commit leaves of the other sessions and of its own.
LEMMA CommitFrees ==
  ASSUME TxInv, CapInv, NEW d \in Clients, End(d), UNCHANGED clock
  PROVE  /\ \A c \in Clients \ {d} : tx'[c] = tx[c]
         /\ \A c \in Clients \ {d} : \A l \in Locks : locks[l] = c => locks'[l] = c
         /\ tx'[d] \notin OpTx /\ clock \in Nat /\ clock <= clock'
<1>1. /\ \A c \in Clients \ {d} : tx'[c] = tx[c] /\ \A l \in Locks : locks[l] = c => locks'[l] = c
      /\ clock \in Nat
  BY Ended, LocksKept, CapTypes DEF TxInv, Moves
<1>2. tx'[d] = Closed
  BY DEF End, TxInv, Tables
<1>3. Closed \notin OpTx
  BY DEF OpTx, Closed
<1> QED
  BY <1>1, <1>2, <1>3

\* The row of a debit or a credit under a free key is the only one to change:
\* the ledger stays sound, and every other debit is what it was.
LEMMA OpWritten ==
  ASSUME TxInv, CapInv, NEW o \in Ops, NEW r \in Row, r.refunds = NoOp,
         r.acct = Intent[o].acct, Writes(OpKey(o), r),
         \A p \in Ops \ {o} : created'[p] = created[p],
         NEW n \in Nat, r.amount < 0 => n = -r.amount
  PROVE  /\ SoundLedger(ledger') /\ Payers'
         /\ Settles(ledger, created, ledger', created', o, n)
<1>1. PICK ds, db \in Int : Inserted(ledger, ledger', OpKey(o), r, ds, db)
  BY DEF Writes
<1>2. /\ SoundLedger(ledger) /\ ~Applied(ledger, OpKey(o))
  BY DEF CapInv, Writes
<1>3. /\ SoundLedger(ledger')
      /\ \A p \in Ops : alreadyRefundedManna(ledger', p) = alreadyRefundedManna(ledger, p)
      /\ \A p \in Ops \ {o} : ledger'.rows[OpKey(p)] = ledger.rows[OpKey(p)]
      /\ alreadyRefundedManna(ledger, o) = 0
  BY <1>1, <1>2, OpPreservesSound
<1>4. ledger'.rows[OpKey(o)] = r
  BY <1>1 DEF Inserted
<1>5. ASSUME NEW p \in Ops \ {o}
      PROVE  /\ IsDebit(ledger', p) = IsDebit(ledger, p)
             /\ PayerOf(ledger', p) = PayerOf(ledger, p)
             /\ Refundable(ledger', p) = Refundable(ledger, p)
  BY <1>3 DEF IsDebit, Applied, PayerOf, Refundable, Reserved
<1>6. ASSUME IsDebit(ledger', o)
      PROVE  PayerOf(ledger', o) = Intent[o].acct /\ Refundable(ledger', o) = n
  <2>1. r.amount < 0 /\ r.amount \in Int
    BY <1>4, <1>6 DEF IsDebit, Row
  <2>2. Refundable(ledger', o) = Reserved(ledger', o) - 0
    BY <1>3, <1>6, RefundableOfDebit
  <2> QED
    BY <1>4, <2>1, <2>2 DEF PayerOf, Reserved
<1>7. Payers'
  BY <1>5, <1>6 DEF Payers, CapInv
<1>8. ASSUME NEW p \in Ops \ {o}, IsDebit(ledger', p)
      PROVE  IsDebit(ledger, p) /\ Refundable(ledger', p) <= Refundable(ledger, p)
  <2>1. IsDebit(ledger, p) /\ Refundable(ledger', p) = Refundable(ledger, p)
    BY <1>5, <1>8
  <2>2. Refundable(ledger, p) \in Nat
    BY <1>2, <2>1, RefundableOfDebit
  <2> QED
    BY <2>1, <2>2
<1>9. Settles(ledger, created, ledger', created', o, n)
  BY <1>6, <1>8 DEF Settles
<1> QED
  BY <1>3, <1>7, <1>9

LEMMA CapsDebit ==
  ASSUME TxInv, TxInv', CapInv, NEW d \in Clients, CommitDebit(d)
  PROVE  CapInv'
<1>1. PICK x, i : x = tx[d] /\ i = Intent[x.o]
  OBVIOUS
<1> DEFINE r == [acct |-> i.acct, amount |-> -i.amount, refunds |-> NoOp]
<1>2. /\ At(d, "commit") /\ x.kind = "op" /\ i.debit /\ End(d) /\ UNCHANGED clock
      /\ created' = [created EXCEPT ![x.o] = x.began]
  BY <1>1 DEF CommitDebit
<1>3. x \in OpTx
  <2>1. x \in OpTx \/ x \in LegTx
    BY <1>1, <1>2, OpenTx DEF TxInv, At
  <2> QED
    BY <1>2, <2>1 DEF LegTx, LegKinds
<1>4. x.o \in Ops /\ x.pc = "commit" /\ CapsOf(d, x)
  BY <1>1, <1>2, <1>3 DEF OpTx, CapInv, At
<1>5. i.acct \in Accounts /\ i.amount \in Nat \ {0}
  BY <1>1, <1>4, IntentTypes
<1>6. /\ locks[<<"day", i.acct>>] = d /\ SpentToday(i.acct) + i.amount <= DailyCap
      /\ i.scope # NoScope => /\ locks[<<"scope", i.scope>>] = d
                              /\ SpentInWindow(i.scope) + i.amount <= RollingCap
  BY <1>1, <1>2, <1>4 DEF CapsOf, Capped
<1>7. Writes(OpKey(x.o), r)
  BY <1>1, CommitDebitStep
<1>8. r \in Row /\ r.refunds = NoOp /\ r.acct = i.acct /\ r.amount = -i.amount
  BY <1>5 DEF Row
<1> HIDE DEF r
<1>9. \A p \in Ops \ {x.o} : created'[p] = created[p]
  BY <1>2, CapTypes
<1>10. i.amount \in Nat /\ (r.amount < 0 => i.amount = -r.amount)
  BY <1>5, <1>8
<1>11. /\ SoundLedger(ledger') /\ Payers'
       /\ Settles(ledger, created, ledger', created', x.o, i.amount)
  BY <1>1, <1>4, <1>7, <1>8, <1>9, <1>10, OpWritten
<1>12. /\ \A c \in Clients \ {d} : tx'[c] = tx[c]
       /\ \A c \in Clients \ {d} : \A l \in Locks : locks[l] = c => locks'[l] = c
       /\ tx'[d] \notin OpTx /\ clock <= clock'
  BY <1>2, CommitFrees
<1> QED
  BY <1>1, <1>6, <1>10, <1>11, <1>12, CapsAfter

LEMMA CapsCredit ==
  ASSUME TxInv, TxInv', CapInv, NEW d \in Clients, CommitCredit(d)
  PROVE  CapInv'
<1>1. PICK x, i : x = tx[d] /\ i = Intent[x.o]
  OBVIOUS
<1> DEFINE r == [acct |-> i.acct, amount |-> i.amount, refunds |-> NoOp]
<1>2. /\ At(d, "commit") /\ x.kind = "op" /\ End(d) /\ UNCHANGED clock
      /\ created' = [created EXCEPT ![x.o] = x.began]
  BY <1>1 DEF CommitCredit
<1>3. x \in OpTx
  <2>1. x \in OpTx \/ x \in LegTx
    BY <1>1, <1>2, OpenTx DEF TxInv, At
  <2> QED
    BY <1>2, <2>1 DEF LegTx, LegKinds
<1>4. x.o \in Ops
  BY <1>3 DEF OpTx
<1>5. i.acct \in Accounts /\ i.amount \in Nat \ {0}
  BY <1>1, <1>4, IntentTypes
<1>6. Writes(OpKey(x.o), r)
  BY <1>1, CommitCreditStep
<1>7. r \in Row /\ r.refunds = NoOp /\ r.acct = i.acct /\ r.amount = i.amount
  BY <1>5 DEF Row
<1> HIDE DEF r
<1>8. \A p \in Ops \ {x.o} : created'[p] = created[p]
  BY <1>2, CapTypes
<1>9. ~(r.amount < 0)
  BY <1>5, <1>7
<1>10. /\ SoundLedger(ledger') /\ Payers'
       /\ Settles(ledger, created, ledger', created', x.o, 0)
  BY <1>1, <1>4, <1>6, <1>7, <1>8, <1>9, OpWritten
<1>11. ~IsDebit(ledger', x.o)
  <2>1. ledger'.rows[OpKey(x.o)] = r
    BY <1>6 DEF Writes, Inserted
  <2> QED
    BY <1>9, <2>1 DEF IsDebit
<1>12. ~IsDebit(ledger, x.o)
  BY <1>6 DEF Writes, IsDebit
<1>13. Settles(ledger, created, ledger', created', NoOp, 0)
  BY <1>10, <1>11, NoOpAssumption DEF Settles
<1>14. /\ \A c \in Clients \ {d} : tx'[c] = tx[c]
       /\ \A c \in Clients \ {d} : \A l \in Locks : locks[l] = c => locks'[l] = c
       /\ tx'[d] \notin OpTx /\ clock <= clock'
  BY <1>2, CommitFrees
<1> QED
  BY <1>10, <1>13, <1>14, NoOpAssumption, CapsAfter

\* A leg only lowers what its debit holds.
LEMMA CapsLeg ==
  ASSUME TxInv, TxInv', CapInv, NEW d \in Clients, CommitLeg(d)
  PROVE  CapInv'
<1>1. PICK x : x = tx[d]
  OBVIOUS
<1> DEFINE o == x.o
           n == x.amount
           k == InsertKey(d)
           r == [acct |-> PayerOf(ledger, o), amount |-> n, refunds |-> o]
<1>2. /\ At(d, "commit") /\ x.kind \in LegKinds /\ End(d) /\ UNCHANGED <<clock, created>>
  BY <1>1 DEF CommitLeg
<1>3. x \in LegTx
  <2>1. x \in OpTx \/ x \in LegTx
    BY <1>1, <1>2, OpenTx DEF TxInv, At
  <2> QED
    BY <1>2, <2>1 DEF OpTx, LegKinds
<1>4. o \in Ops /\ x.charge \in Nat /\ SoundLedger(ledger)
  BY <1>3 DEF LegTx, CapInv
<1>5. LegStands(x)
  BY <1>1, <1>2, <1>3 DEF TxInv, SessionOK, LegOK, At
<1>6. /\ k = IF x.kind = "settle" THEN settleReservationIdempotencyKey(o)
             ELSE refundIdempotencyKey(o)
      /\ k \in LegKeys(o)
  BY <1>1, <1>2 DEF InsertKey, LegKinds, LegKeys
<1>7. /\ IsDebit(ledger, o) /\ n \in Nat \ {0}
      /\ n <= Reserved(ledger, o) - alreadyRefundedManna(ledger, o)
      /\ x.kind # "settle" => n = Reserved(ledger, o) - alreadyRefundedManna(ledger, o)
  <2>1. CASE x.kind = "settle"
    <3>1. SettleApplies(ledger, o, x.charge) /\ n = Reserved(ledger, o) - x.charge
      BY <1>5, <2>1 DEF LegStands
    <3>2. IsDebit(ledger, o) /\ n \in Nat \ {0}
      BY <1>4, <3>1, SettleAppliesFacts
    <3>3. n <= Refundable(ledger, o)
      BY <3>1 DEF SettleApplies, LegApplies, LegOpen, Requested
    <3> QED
      BY <1>4, <2>1, <3>2, <3>3, RefundableOfDebit
  <2>2. CASE x.kind \in {"reverse", "refund"}
    <3>1. /\ ReverseApplies(ledger, o) \/ RefundApplies(ledger, o)
          /\ n = Refundable(ledger, o)
      BY <1>5, <2>2 DEF LegStands
    <3>2. /\ IsDebit(ledger, o) /\ n \in Nat \ {0}
          /\ n = Reserved(ledger, o) - alreadyRefundedManna(ledger, o)
      BY <1>4, <3>1, ReverseAppliesFacts
    <3> QED
      BY <3>2
  <2> QED
    BY <1>2, <2>1, <2>2 DEF LegKinds
<1>8. Writes(k, r)
  BY <1>1, CommitLegStep
<1>9. PayerOf(ledger, o) \in Accounts
  BY <1>4, <1>7, DebitFacts DEF SoundLedger
<1>10. r \in Row /\ r.acct = PayerOf(ledger, o) /\ r.refunds = o /\ r.amount = n /\ r.amount > 0
  BY <1>4, <1>7, <1>9 DEF Row
<1>11. k = refundIdempotencyKey(o) => x.kind # "settle"
  BY <1>6, KeysDiffer
<1> HIDE DEF r, k, n
<1>12. PICK ds, db \in Int : Inserted(ledger, ledger', k, r, ds, db) /\ ~Applied(ledger, k)
  BY <1>8 DEF Writes
<1>13. LegWritten(ledger, ledger', o, r.amount)
  BY <1>4, <1>6, <1>7, <1>10, <1>11, <1>12, LegPreservesSound
<1>14. /\ SoundLedger(ledger')
       /\ \A p \in Ops : ledger'.rows[OpKey(p)] = ledger.rows[OpKey(p)]
       /\ \A p \in Ops \ {o} : alreadyRefundedManna(ledger', p) = alreadyRefundedManna(ledger, p)
       /\ alreadyRefundedManna(ledger', o) = alreadyRefundedManna(ledger, o) + n
  BY <1>10, <1>13 DEF LegWritten
<1>15. ASSUME NEW p \in Ops
       PROVE  /\ IsDebit(ledger', p) = IsDebit(ledger, p)
              /\ PayerOf(ledger', p) = PayerOf(ledger, p)
              /\ Reserved(ledger', p) = Reserved(ledger, p)
  BY <1>14 DEF IsDebit, Applied, PayerOf, Reserved
<1>16. Payers'
  BY <1>15 DEF Payers, CapInv
<1>17. ASSUME NEW p \in Ops, IsDebit(ledger', p)
       PROVE  IsDebit(ledger, p) /\ Refundable(ledger', p) <= Refundable(ledger, p)
  <2>1. IsDebit(ledger, p)
    BY <1>15, <1>17
  <2>2. /\ Refundable(ledger, p) = Reserved(ledger, p) - alreadyRefundedManna(ledger, p)
        /\ Refundable(ledger', p) = Reserved(ledger, p) - alreadyRefundedManna(ledger', p)
        /\ Refundable(ledger, p) \in Nat /\ Refundable(ledger', p) \in Nat
    BY <1>4, <1>14, <1>15, <1>17, <2>1, RefundableOfDebit
  <2>3. Reserved(ledger, p) \in Int /\ alreadyRefundedManna(ledger, p) \in Int
    BY <1>4, <2>1, DebitFacts, RefundedType DEF SoundLedger
  <2>4. CASE p = o
    BY <1>7, <1>14, <2>1, <2>2, <2>3, <2>4
  <2>5. CASE p # o
    BY <1>14, <2>1, <2>2, <2>3, <2>5
  <2> QED
    BY <2>4, <2>5
<1>18. Settles(ledger, created, ledger', created', NoOp, 0)
  BY <1>2, <1>17, NoOpAssumption DEF Settles
<1>19. /\ \A c \in Clients \ {d} : tx'[c] = tx[c]
       /\ \A c \in Clients \ {d} : \A l \in Locks : locks[l] = c => locks'[l] = c
       /\ tx'[d] \notin OpTx /\ clock <= clock'
  BY <1>2, CommitFrees
<1> QED
  BY <1>14, <1>16, <1>18, <1>19, NoOpAssumption, CapsAfter

LEMMA CapsStart ==
  Init => CapInv
<1> SUFFICES ASSUME Init PROVE CapInv
  OBVIOUS
<1>1. TxInv /\ \A k \in Key : ~Applied(ledger, k)
  BY EmptyTables DEF Init, EmptyLedger, Applied
<1>2. \A o \in Ops : /\ ~Applied(ledger, OpKey(o))
                     /\ \A k \in LegKeys(o) : ~Applied(ledger, k)
                     /\ ~Applied(ledger, refundIdempotencyKey(o))
  BY <1>1, KeyTypes DEF LegKeys
<1>3. SoundLedger(ledger)
  BY <1>1, <1>2 DEF TxInv, Tables, SoundLedger, LegsSound, OpsSound, ReversalFinal, IsDebit
<1>4. ASSUME NEW Q \in SUBSET Ops, NEW t  PROVE Spent(ledger, created, Q, t) = 0
  <2>1. {o \in Q : IsDebit(ledger, o) /\ created[o] >= t} = {}
    BY <1>2 DEF IsDebit
  <2>2. Spend(ledger, {}) = 0
    BY FS_EmptySet, SpendAdds
  <2> QED
    BY <2>1, <2>2 DEF Spent
<1>5. /\ \A a \in Accounts : SpentToday(a) <= DailyCap
      /\ \A s \in Scopes : SpentInWindow(s) <= RollingCap
  <2>1. /\ \A a : AccountOps(a) \in SUBSET Ops
        /\ \A s : ScopeOps(s) \in SUBSET Ops
    BY DEF AccountOps, ScopeOps
  <2>2. (\A a : SpentToday(a) = 0) /\ (\A s : SpentInWindow(s) = 0)
    BY <1>4, <2>1 DEF SpentToday, SpentInWindow
  <2> QED
    BY <2>2, CapsAssumption
<1>6. \A c \in Clients : tx[c] \notin OpTx
  <2>1. Closed \notin OpTx
    BY DEF OpTx, Closed
  <2> QED
    BY <2>1 DEF Init
<1>7. Payers
  BY <1>2 DEF Payers, IsDebit
<1> QED
  BY <1>3, <1>5, <1>6, <1>7 DEF CapInv

LEMMA CapsStep ==
  ASSUME TxInv, TxInv', CapInv, [Next]_vars
  PROVE  CapInv'
<1>1. CASE Tick
  <2>1. UNCHANGED <<ledger, created, locks, tx>> /\ clock' = clock + 1
    BY <1>1 DEF Tick, ledgerVars
  <2>2. clock <= clock'
    BY <2>1, CapTypes
  <2>3. Nobody \notin Clients
    BY SessionsAssumption
  <2> QED
    BY <2>1, <2>2, <2>3, CapsQuiet
<1>2. ASSUME NEW d \in Clients, Begin(d)  PROVE CapInv'
  <2>1. PICK o \in Ops : \/ BeginOp(d, o)
                         \/ \E charge \in Charges : BeginLeg(d, o, "settle", charge)
                         \/ \E kind \in {"reverse", "refund"} : BeginLeg(d, o, kind, 0)
    BY <1>2 DEF Begin
  <2>2. \/ BeginOp(d, o)
        \/ \E kind \in LegKinds, charge \in Nat : BeginLeg(d, o, kind, charge)
    BY <2>1, SessionsAssumption DEF LegKinds
  <2> QED
    BY <2>2, CapsBegin
<1>3. ASSUME NEW d \in Clients, Step(d)  PROVE CapInv'
  <2>1. CASE CommitDebit(d) \/ CommitCredit(d) \/ CommitLeg(d)
    BY <2>1, CapsDebit, CapsCredit, CapsLeg
  <2>2. CASE DayLock(d) \/ ScopeLock(d) \/ Recheck(d) \/ CheckDailyCap(d) \/ CheckRollingCap(d)
    BY <2>2, CapsChecked
  <2>3. CASE LockAccount(d) \/ LockOriginal(d) \/ ReadLegs(d) \/ UpdateAccount(d) \/ InsertRow(d)
    BY <2>3, CapsKept
  <2> QED
    BY <1>3, <2>1, <2>2, <2>3 DEF Step
<1>4. ASSUME NEW d \in Clients, Lose(d)  PROVE CapInv'
  BY <1>4, CapsEnd DEF Lose
<1>5. CASE UNCHANGED vars
  <2>1. UNCHANGED <<ledger, created, clock, locks, tx>>
    BY <1>5 DEF vars
  <2>2. clock <= clock' /\ Nobody \notin Clients
    BY <2>1, CapTypes, SessionsAssumption
  <2> QED
    BY <2>1, <2>2, CapsQuiet
<1> QED
  BY <1>1, <1>2, <1>3, <1>4, <1>5 DEF Next

\* The advisory locks make the cap checks race-free: whatever debits and refund
\* legs of whatever sessions interleave or are lost, what an account has spent
\* since midnight stays within the daily cap and what a scope has spent in its
\* rolling window within the rolling cap.
THEOREM CapsHoldThm ==
  Spec => []CapsHold
<1>1. TxInv /\ CapInv /\ [Next]_vars => (TxInv /\ CapInv)'
  BY StatementStep, CapsStep
<1>2. CapInv => CapsHold
  <2> SUFFICES ASSUME CapInv PROVE CapsHold
    OBVIOUS
  <2>1. /\ \A a \in Accounts : netSpendSince(a, startOfUtcDay(clock)) = SpentToday(a)
        /\ \A s \in Scopes : scopedNetSpendSince(s, clock - Window) = SpentInWindow(s)
    BY SpentNames DEF CapInv, SpentToday, SpentInWindow
  <2> QED
    BY <2>1 DEF CapInv, CapsHold
<1> QED
  BY <1>1, <1>2, EmptyTables, CapsStart, PTL DEF Spec
-----------------------------------------------------------------------------
(* No deadlock.                                                            *)

\* The kinds of locks that a transaction may hold before a statement.
HeldKinds(pc) ==
  CASE pc = "scopeLock"                                             -> {"day"}
    [] pc \in {"recheck", "dailyCap", "rollingCap", "lockAccount"} -> {"day", "scope"}
    [] pc = "readLegs"                                              -> {"row"}
    [] pc = "update"                                                -> {"day", "scope", "row"}
    [] pc = "insert"                                  -> {"day", "scope", "row", "account"}
    [] pc = "commit"                           -> {"day", "scope", "row", "account", "key"}
    [] OTHER                                                        -> {}

\* A debit has locked the account when its UPDATE locks it again.
OwnAccount(x) == x.pc = "update" /\ x.kind = "op"

HoldsInOrder(c) ==
  /\ tx[c].pc = "scopeLock" => Intent[tx[c].o].scope # NoScope
  /\ \A l \in Locks : locks[l] = c =>
       \/ l[1] \in HeldKinds(tx[c].pc)
       \/ OwnAccount(tx[c]) /\ l = <<"account", Intent[tx[c].o].acct>>

InOrder == \A c \in Clients : HoldsInOrder(c)

LEMMA OthersInOrder ==
  ASSUME Tables, InOrder, NEW d \in Clients, NEW l,
         Acquire(d, l) \/ End(d) \/ UNCHANGED locks,
         \A c \in Clients \ {d} : tx'[c] = tx[c], HoldsInOrder(d)'
  PROVE  InOrder'
<1>1. \A c \in Clients \ {d} : \A m \in Locks : locks'[m] = c => locks[m] = c
  BY SessionsAssumption DEF Tables, Acquire, End
<1>2. ASSUME NEW c \in Clients \ {d} PROVE HoldsInOrder(c)'
  BY <1>1 DEF InOrder, HoldsInOrder
<1> QED
  BY <1>2 DEF InOrder

LEMMA EndInOrder ==
  ASSUME Tables, InOrder, NEW d \in Clients, End(d)
  PROVE  InOrder'
<1>1. \A m \in Locks : locks'[m] # d
  BY SessionsAssumption DEF End, Tables
<1>2. Moves(d) /\ tx'[d].pc = "closed"
  BY Ended DEF End, Tables, Closed
<1>3. HoldsInOrder(d)'
  BY <1>1, <1>2 DEF HoldsInOrder
<1> QED
  BY <1>2, <1>3, OthersInOrder DEF Moves

\* A statement locks at most one thing, and the next place allows it.
LEMMA LockInOrder ==
  ASSUME Tables, InOrder, NEW d \in Clients, NEW l, Acquire(d, l) \/ UNCHANGED locks, Moves(d),
         tx'[d].pc = "scopeLock" => Intent[tx'[d].o].scope # NoScope,
         \A m \in Locks : locks[m] = d \/ (Acquire(d, l) /\ m = l) =>
           \/ m[1] \in HeldKinds(tx'[d].pc)
           \/ OwnAccount(tx'[d]) /\ m = <<"account", Intent[tx'[d].o].acct>>
  PROVE  InOrder'
<1>1. \A m \in Locks : locks'[m] = d => locks[m] = d \/ (Acquire(d, l) /\ m = l)
  BY DEF Tables, Acquire
<1>2. HoldsInOrder(d)'
  BY <1>1 DEF HoldsInOrder, OwnAccount
<1> QED
  BY <1>2, OthersInOrder DEF Moves

\* A session that begins holds nothing.
LEMMA BeginInOrder ==
  ASSUME TxInv, InOrder, NEW d \in Clients, Begin(d)
  PROVE  InOrder'
<1>1. At(d, "closed") /\ UNCHANGED locks
  BY DEF Begin, BeginOp, BeginLeg
<1>2. \A m \in Locks : locks[m] # d
  BY <1>1 DEF InOrder, HoldsInOrder, HeldKinds, OwnAccount, At
<1>3. \A c \in Clients \ {d} : tx'[c] = tx[c]
  BY DEF Begin, BeginOp, BeginLeg, TxInv, Tables
<1>4. tx'[d].pc # "scopeLock"
  BY DEF Begin, BeginOp, BeginLeg, TxInv, Tables
<1>5. HoldsInOrder(d)'
  BY <1>1, <1>2, <1>4 DEF HoldsInOrder
<1> QED
  BY <1>1, <1>3, <1>5, OthersInOrder DEF TxInv

LEMMA CapsInOrder ==
  ASSUME TxInv, InOrder, NEW d \in Clients,
         DayLock(d) \/ ScopeLock(d) \/ Recheck(d) \/ CheckDailyCap(d) \/ CheckRollingCap(d)
  PROVE  InOrder'
<1>1. tx[d].pc \in {"dayLock", "scopeLock", "recheck", "dailyCap", "rollingCap"}
  BY DEF DayLock, ScopeLock, Recheck, CheckDailyCap, CheckRollingCap, At
<1>2. tx[d] \in OpTx
  <2>1. tx[d] \in OpTx \/ tx[d] \in LegTx
    BY <1>1, OpenTx DEF TxInv, At
  <2> QED
    BY <1>1, <2>1 DEF LegTx
<1>3. CASE End(d)
  BY <1>3, EndInOrder DEF TxInv
<1>4. CASE ~End(d)
  <2>1. PICK q \in {"scopeLock", "recheck", "dailyCap", "rollingCap", "lockAccount"} :
          /\ Go(d, q)
          /\ tx[d].pc = "dayLock" => q \in {"scopeLock", "recheck"}
          /\ tx[d].pc # "dayLock" => q # "scopeLock"
          /\ q = "scopeLock" => Intent[tx[d].o].scope # NoScope
    BY <1>4 DEF DayLock, ScopeLock, Recheck, CheckDailyCap, CheckRollingCap, At
  <2>2. Moves(d) /\ tx'[d].pc = q /\ tx'[d].o = tx[d].o
    BY <1>2, <2>1, GoOp DEF TxInv
  <2>3. PICK l : /\ Acquire(d, l) \/ UNCHANGED locks
                 /\ \/ UNCHANGED locks
                    \/ tx[d].pc = "dayLock" /\ l[1] = "day"
                    \/ tx[d].pc = "scopeLock" /\ l[1] = "scope"
    <3>1. CASE DayLock(d)
      <4>1. Acquire(d, <<"day", Intent[tx[d].o].acct>>) /\ tx[d].pc = "dayLock"
        BY <3>1 DEF DayLock, At
      <4> QED
        BY <4>1
    <3>2. CASE ScopeLock(d)
      <4>1. Acquire(d, <<"scope", Intent[tx[d].o].scope>>) /\ tx[d].pc = "scopeLock"
        BY <3>2 DEF ScopeLock, At
      <4> QED
        BY <4>1
    <3>3. CASE UNCHANGED locks
      BY <3>3
    <3> QED
      BY <1>4, <3>1, <3>2, <3>3 DEF Recheck, CheckDailyCap, CheckRollingCap
  <2>4. \A m \in Locks : locks[m] = d => m[1] \in HeldKinds(tx[d].pc)
    BY <1>1 DEF InOrder, HoldsInOrder, OwnAccount
  <2>5. HeldKinds(tx[d].pc) \subseteq HeldKinds(q)
    BY <1>1, <2>1 DEF HeldKinds
  <2>6. Acquire(d, l) /\ ~UNCHANGED locks => l[1] \in HeldKinds(q)
    BY <2>1, <2>3 DEF HeldKinds
  <2>7. CASE UNCHANGED locks
    <3>1. HoldsInOrder(d)'
      BY <2>1, <2>2, <2>4, <2>5, <2>7 DEF HoldsInOrder
    <3> QED
      BY <2>2, <2>7, <3>1, OthersInOrder DEF TxInv, Moves
  <2>8. CASE ~UNCHANGED locks
    BY <2>1, <2>2, <2>3, <2>4, <2>5, <2>6, <2>8, LockInOrder DEF TxInv
  <2> QED
    BY <2>7, <2>8
<1> QED
  BY <1>3, <1>4

LEMMA AccountInOrder ==
  ASSUME TxInv, InOrder, NEW d \in Clients, LockAccount(d)
  PROVE  InOrder'
<1> DEFINE x == [tx[d] EXCEPT !.pc = "update", !.before = ledger.subscription[Intent[tx[d].o].acct]]
           l == <<"account", Intent[tx[d].o].acct>>
<1>1. tx[d].pc = "lockAccount"
  BY DEF LockAccount, At
<1>2. tx[d] \in OpTx /\ tx[d].kind = "op"
  <2>1. tx[d] \in OpTx \/ tx[d] \in LegTx
    BY <1>1, OpenTx DEF TxInv, At
  <2> QED
    BY <1>1, <2>1 DEF OpTx, LegTx
<1>3. Target(d) = Intent[tx[d].o].acct
  BY <1>2 DEF Target
<1>4. Acquire(d, l) /\ tx' = [tx EXCEPT ![d] = x]
  BY <1>3 DEF LockAccount, TxInv, Tables
<1>5. Intent[tx[d].o].acct \in Accounts
  BY <1>2, IntentTypes DEF OpTx
<1>6. ledger.subscription[Intent[tx[d].o].acct] \in Nat
  BY <1>5 DEF TxInv, Tables, Ledger
<1>7. x \in OpTx /\ x.pc = "update" /\ x.o = tx[d].o /\ x.kind = "op"
  BY <1>2, <1>6 DEF OpTx
<1> HIDE DEF x
<1>8. Moves(d) /\ tx'[d] = x
  BY <1>4, <1>7, SetTx DEF TxInv, Sessions
<1>9. \A m \in Locks : locks[m] = d => m[1] \in HeldKinds("update")
  BY <1>1 DEF InOrder, HoldsInOrder, HeldKinds, OwnAccount
<1> QED
  BY <1>4, <1>7, <1>8, <1>9, LockInOrder DEF OwnAccount, TxInv

LEMMA OriginalInOrder ==
  ASSUME TxInv, InOrder, NEW d \in Clients, LockOriginal(d)
  PROVE  InOrder'
<1>1. tx[d].pc = "lockOriginal" /\ Acquire(d, <<"row", tx[d].o>>) /\ Go(d, "readLegs")
  BY DEF LockOriginal, At
<1>2. tx[d] \in LegTx
  <2>1. tx[d] \in OpTx \/ tx[d] \in LegTx
    BY <1>1, OpenTx DEF TxInv, At
  <2> QED
    BY <1>1, <2>1 DEF OpTx
<1>3. Moves(d) /\ tx'[d].pc = "readLegs"
  BY <1>1, <1>2, GoLeg DEF TxInv
<1>4. \A m \in Locks : locks[m] # d
  BY <1>1 DEF InOrder, HoldsInOrder, HeldKinds, OwnAccount
<1>5. "row" \in HeldKinds("readLegs")
  BY DEF HeldKinds
<1> QED
  BY <1>1, <1>3, <1>4, <1>5, LockInOrder DEF TxInv

LEMMA LegsInOrder ==
  ASSUME TxInv, InOrder, NEW d \in Clients, ReadLegs(d)
  PROVE  InOrder'
<1>1. tx[d].pc = "readLegs"
  BY DEF ReadLegs, At
<1>2. CASE End(d)
  BY <1>2, EndInOrder DEF TxInv
<1>3. CASE ~End(d)
  <2>1. Moves(d) /\ tx'[d].pc = "update" /\ UNCHANGED locks
    BY <1>3, ReadLegsStep
  <2>4. \A m \in Locks : locks[m] = d => m[1] \in HeldKinds("update")
    BY <1>1 DEF InOrder, HoldsInOrder, HeldKinds, OwnAccount
  <2>5. HoldsInOrder(d)'
    BY <2>1, <2>4 DEF HoldsInOrder
  <2> QED
    BY <2>1, <2>5, OthersInOrder DEF TxInv, Moves
<1> QED
  BY <1>2, <1>3

LEMMA WriteInOrder ==
  ASSUME TxInv, InOrder, NEW d \in Clients, NEW l, NEW q, Acquire(d, l), Go(d, q),
         \/ q = "insert" /\ tx[d].pc = "update" /\ l[1] = "account"
         \/ q = "commit" /\ tx[d].pc = "insert" /\ l[1] = "key"
  PROVE  InOrder'
<1>1. tx[d] \in OpTx \/ tx[d] \in LegTx
  BY OpenTx DEF TxInv, At
<1>2. Moves(d) /\ tx'[d].pc = q
  BY <1>1, GoOp, GoLeg DEF TxInv
<1>3. \A m \in Locks : locks[m] = d => m[1] \in HeldKinds(q)
  BY DEF InOrder, HoldsInOrder, HeldKinds, OwnAccount
<1>4. l[1] \in HeldKinds(q)
  BY DEF HeldKinds
<1> QED
  BY <1>2, <1>3, <1>4, LockInOrder DEF TxInv

LEMMA WritesInOrder ==
  ASSUME TxInv, InOrder, NEW d \in Clients, UpdateAccount(d) \/ InsertRow(d)
  PROVE  InOrder'
<1>1. CASE End(d)
  BY <1>1, EndInOrder DEF TxInv
<1>2. CASE UpdateAccount(d) /\ ~End(d)
  <2> DEFINE l == <<"account", Target(d)>>
  <2>1. Acquire(d, l) /\ Go(d, "insert")
    BY <1>2 DEF UpdateAccount
  <2>2. tx[d].pc = "update" /\ l[1] = "account"
    BY <1>2 DEF UpdateAccount, At
  <2> HIDE DEF l
  <2> QED
    BY <2>1, <2>2, WriteInOrder
<1>3. CASE InsertRow(d) /\ ~End(d)
  <2> DEFINE l == <<"key", InsertKey(d)>>
  <2>1. Acquire(d, l) /\ Go(d, "commit")
    BY <1>3 DEF InsertRow
  <2>2. tx[d].pc = "insert" /\ l[1] = "key"
    BY <1>3 DEF InsertRow, At
  <2> HIDE DEF l
  <2> QED
    BY <2>1, <2>2, WriteInOrder
<1> QED
  BY <1>1, <1>2, <1>3

LEMMA StepInOrder ==
  ASSUME TxInv, InOrder, [Next]_vars
  PROVE  InOrder'
<1>1. CASE Tick \/ UNCHANGED vars
  BY <1>1 DEF Tick, vars, InOrder, HoldsInOrder
<1>2. ASSUME NEW d \in Clients, Begin(d) PROVE InOrder'
  BY <1>2, BeginInOrder
<1>3. ASSUME NEW d \in Clients, Lose(d) PROVE InOrder'
  BY <1>3, EndInOrder DEF Lose, TxInv
<1>4. ASSUME NEW d \in Clients, Step(d) PROVE InOrder'
  <2>1. CASE CommitDebit(d) \/ CommitCredit(d) \/ CommitLeg(d)
    <3>1. End(d)
      BY <2>1 DEF CommitDebit, CommitCredit, CommitLeg
    <3> QED
      BY <3>1, EndInOrder DEF TxInv
  <2> QED
    BY <1>4, <2>1, CapsInOrder, AccountInOrder, OriginalInOrder, LegsInOrder, WritesInOrder DEF Step
<1> QED
  BY <1>1, <1>2, <1>3, <1>4 DEF Next

\* What a statement waits for.
LEMMA WantedTypes ==
  ASSUME TxInv, InOrder, NEW c \in Clients, NEW l \in Wanted(c)
  PROVE  /\ l \in Locks
         /\ tx[c].pc \in {"dayLock", "scopeLock", "lockOriginal", "lockAccount", "update", "insert"}
         /\ tx[c].pc = "dayLock" => l[1] = "day"
         /\ tx[c].pc = "scopeLock" => l[1] = "scope"
         /\ tx[c].pc = "lockOriginal" => l[1] = "row"
         /\ tx[c].pc \in {"lockAccount", "update"} => l[1] = "account"
         /\ tx[c].pc = "insert" => l[1] = "key"
         /\ OwnAccount(tx[c]) => l = <<"account", Intent[tx[c].o].acct>>
<1>1. tx[c].pc \in {"dayLock", "scopeLock", "lockOriginal", "lockAccount", "update", "insert"}
  BY DEF Wanted, At
<1>2. tx[c] \in OpTx \/ tx[c] \in LegTx
  BY <1>1, OpenTx DEF TxInv, At
<1>3. tx[c].o \in Ops
  BY <1>2 DEF OpTx, LegTx
<1>4. CASE tx[c].pc = "dayLock"
  <2>1. l = <<"day", Intent[tx[c].o].acct>>
    BY <1>4 DEF Wanted, At
  <2> QED
    BY <1>3, <1>4, <2>1, IntentTypes, LockTypes DEF OwnAccount
<1>5. CASE tx[c].pc = "scopeLock"
  <2>1. Intent[tx[c].o].scope # NoScope
    BY <1>5 DEF InOrder, HoldsInOrder
  <2>2. l = <<"scope", Intent[tx[c].o].scope>>
    BY <1>5 DEF Wanted, At
  <2> QED
    BY <1>3, <1>5, <2>1, <2>2, IntentTypes, LockTypes DEF OwnAccount
<1>6. CASE tx[c].pc = "lockOriginal"
  <2>1. l = <<"row", tx[c].o>>
    BY <1>6 DEF Wanted, At
  <2> QED
    BY <1>3, <1>6, <2>1, LockTypes DEF OwnAccount
<1>7. CASE tx[c].pc \in {"lockAccount", "update"}
  <2>1. l = <<"account", Target(c)>>
    BY <1>7 DEF Wanted, At
  <2>2. CASE tx[c] \in OpTx
    <3>1. Target(c) = Intent[tx[c].o].acct
      BY <2>2 DEF Target, OpTx
    <3> QED
      BY <1>3, <1>7, <2>1, <3>1, IntentTypes, LockTypes
  <2>3. CASE tx[c] \in LegTx
    <3>1. tx[c].kind \in LegKinds /\ LegOK(c, tx[c])
      BY <2>3 DEF LegTx, TxInv, SessionOK
    <3>2. Target(c) \in Accounts /\ ~OwnAccount(tx[c])
      BY <1>3, <3>1, LegTypes DEF Target, LegKinds, LegOK, TxInv, Tables, OwnAccount
    <3> QED
      BY <1>7, <2>1, <3>2, LockTypes
  <2> QED
    BY <1>2, <2>2, <2>3
<1>8. CASE tx[c].pc = "insert"
  <2>1. l = <<"key", InsertKey(c)>>
    BY <1>8 DEF Wanted, At
  <2>2. InsertKey(c) \in Key
    BY <1>2, <1>3, KeyTypes DEF InsertKey, OpTx, LegTx, LegKinds
  <2> QED
    BY <1>8, <2>1, <2>2, LockTypes DEF OwnAccount
<1> QED
  BY <1>1, <1>4, <1>5, <1>6, <1>7, <1>8

\* The order rules a cycle out: of a set of transactions the one that is furthest
\* along it waits for none of them.
LEMMA OrderRulesOut ==
  ASSUME TxInv, InOrder
  PROVE  NoDeadlock
<1> SUFFICES ASSUME NEW S \in (SUBSET Clients) \ {{}},
                    \A c \in S : \E d \in S \ {c} : WaitsFor(c, d)
             PROVE  FALSE
  BY DEF NoDeadlock
<1> DEFINE Waits == {"dayLock", "scopeLock", "lockOriginal", "lockAccount", "update", "insert"}
<1>1. \A c \in S : tx[c].pc \in Waits
  BY WantedTypes DEF WaitsFor
<1>2. \A d \in S, l \in Locks : locks[l] = d => l[1] \in HeldKinds(tx[d].pc)
  <2> SUFFICES ASSUME NEW d \in S, OwnAccount(tx[d]),
                      locks[<<"account", Intent[tx[d].o].acct>>] = d
               PROVE  FALSE
    BY DEF InOrder, HoldsInOrder
  <2>1. PICK e \in S \ {d} : WaitsFor(d, e)
    OBVIOUS
  <2> QED
    BY <2>1, WantedTypes DEF WaitsFor
<1> DEFINE Kind(pc) == CASE pc = "dayLock" -> "day" [] pc = "scopeLock" -> "scope"
                         [] pc = "lockOriginal" -> "row" [] pc = "insert" -> "key"
                         [] OTHER -> "account"
<1>3. ASSUME NEW c \in S
      PROVE  \E d \in S : Kind(tx[c].pc) \in HeldKinds(tx[d].pc)
  <2>1. PICK d \in S, l \in Wanted(c) : locks[l] = d
    BY DEF WaitsFor
  <2>2. l \in Locks /\ l[1] = Kind(tx[c].pc)
    BY <1>1, WantedTypes
  <2> QED
    BY <1>2, <2>1, <2>2
<1>4. ASSUME NEW c \in S PROVE tx[c].pc # "insert"
  BY <1>1, <1>3 DEF HeldKinds
<1>5. ASSUME NEW c \in S PROVE tx[c].pc \notin {"lockAccount", "update"}
  BY <1>1, <1>3, <1>4 DEF HeldKinds
<1>6. ASSUME NEW c \in S PROVE tx[c].pc \notin {"lockOriginal", "scopeLock"}
  BY <1>1, <1>3, <1>4, <1>5 DEF HeldKinds
<1>7. \A c \in S : tx[c].pc = "dayLock"
  BY <1>1, <1>4, <1>5, <1>6
<1>8. PICK c \in S : TRUE
  OBVIOUS
<1>9. PICK d \in S : Kind(tx[c].pc) \in HeldKinds(tx[d].pc)
  BY <1>3
<1> QED
  BY <1>7, <1>9 DEF HeldKinds

\* The advisory locks, the row locks and the entries of the unique index are taken
\* in one order by every transaction of the ledger: whatever accounts, scopes,
\* originals and keys they share, no transactions ever wait for each other in a
\* cycle.
THEOREM NoDeadlockThm ==
  Spec => []NoDeadlock
<1>1. Init => InOrder
  BY SessionsAssumption DEF Init, InOrder, HoldsInOrder, Closed
<1>2. TxInv /\ InOrder /\ [Next]_vars => (TxInv /\ InOrder)'
  BY StatementStep, StepInOrder
<1>3. TxInv /\ InOrder => NoDeadlock
  BY OrderRulesOut
<1> QED
  BY <1>1, <1>2, <1>3, EmptyTables, PTL DEF Spec
=============================================================================
