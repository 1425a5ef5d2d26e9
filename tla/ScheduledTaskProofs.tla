-------------------------- MODULE ScheduledTaskProofs --------------------------
(***************************************************************************)
(* The safety properties of ScheduledTasks, proved for any occurrences,    *)
(* workers, schedules, edits and number of faults.                         *)
(*                                                                         *)
(* A worker may have lost its claim long ago and act on what it knew then: *)
(* what the invariant says of a worker's next step, it says of the worker  *)
(* whose claim and occurrence are still the row's.                         *)
(***************************************************************************)
EXTENDS ScheduledTasks, TurnAuthorizationProofs

-----------------------------------------------------------------------------
(* The invariant.                                                          *)

TaskRow ==
  [status : {"active", "running", "paused", "finished"}, deleted : BOOLEAN, once : BOOLEAN,
   next : {NoInstant} \cup Instants, last : Nat,
   error : {"none", "failed"} \cup Markers, errors : Nat,
   pend : Turns \cup {NoOne}, claim : Workers \cup {NoOne}, stale : BOOLEAN]

\* The places of a worker that has an occurrence, and of one that has none.
Occupied == {"claim", "evidence", "reserve", "refused", "ticket", "provider", "stream",
             "partial", "repartial", "reverse", "row", "mark", "release"}
Places == Occupied \cup {"idle", "stamp", "streak", "cap", "missed"}
Local == [pc : Places,
          occ : Turns \cup {NoOne}, due : Nat, once : BOOLEAN, route : BOOLEAN,
          recovery : BOOLEAN, paused : BOOLEAN, within : {"task", "turn"},
          report : BOOLEAN, refunded : BOOLEAN, recovered : BOOLEAN, checked : BOOLEAN,
          cap : BOOLEAN, outcome : {"ok", "failed", "quiet"}]

TaskTypes ==
  /\ task \in TaskRow
  /\ w \in [Workers -> Local]
  /\ now \in Instants
  /\ removing \in Nat \cup {NotRemoving}
  /\ outcomes \in [Turns -> {"none", "ok", "failed", "quiet"}]
  /\ notified \subseteq Turns

\* The owner is told of o: it is settled at the price its usage row completes.
Paid(o) == authz[o].state = "settled" /\ usage[o].status = "completed"

\* A settlement is for output or for a completion, and only a settlement
\* completes a usage row.
SettledForWork ==
  \A o \in Turns :
    /\ authz[o].state = "settled" => run[o] = "output" \/ usage[o].status = "completed"
    /\ usage[o].status = "completed" => authz[o].state = "settled"

\* The row still names the claim and the occurrence of p.
Mine(p) == task.claim = p /\ task.pend = Occ(p)

\* A turn has an authorization exactly if it was debited (DebitedIsFunded).
Funded(o) == authz[o].state # "none"

WithTicket == {"ticket", "provider"}
BeforeProvider == {"reserve"} \cup WithTicket
Compensating == {"partial", "repartial", "reverse"}

\* What a worker may rely on at each place.
Rules(p) ==
  /\ w[p].pc \in Occupied => Occ(p) \in Turns
  /\ w[p].pc \in WithTicket => Funded(Occ(p))
  /\ Mine(p) =>
       /\ At(p, "reserve") => ~Funded(Occ(p))
       /\ w[p].pc \in WithTicket => Occ(p) \notin spent
       /\ At(p, "mark") /\ w[p].outcome = "failed" => ~IsReserved(Occ(p))
  /\ At(p, "mark") /\ w[p].outcome = "ok" => Paid(Occ(p))
  /\ w[p].pc \in Compensating /\ w[p].within = "task" => w[p].outcome = "failed"

\* What may not leave any more was debited, which is the evidence that keeps it
\* back; a failure that was recorded holds no reservation.
Recorded ==
  /\ \A o \in spent : o \in Turns /\ Funded(o)
  /\ \A o \in Turns : outcomes[o] = "failed" /\ task.pend # o => ~IsReserved(o)
  /\ \A o \in notified : Paid(o)

TaskInv ==
  /\ IInv /\ SettledForWork
  /\ TaskTypes
  /\ \A p \in Workers : Rules(p)
  /\ Recorded

\* NothingTwice for one step.
Once ==
  /\ \A p \in Workers :
       At(p, "provider") /\ w'[p].pc = "stream" => Occ(p) \notin spent
  /\ \A o \in Scheduled :
       task.pend = o /\ task'.pend = NoOne /\ task.last = InstantOf(o)
         => task'.errors <= task.errors

-----------------------------------------------------------------------------
(* The kernel's transactions.                                              *)

\* The transactions that end, mark or record a turn.
KernelMoves(o) ==
  \/ claimTurnProviderStart(o) \/ markTurnUsableOutput(o)
  \/ \E c \in Amounts \cup {0} : settleTerminal(o, c)
  \/ settlePartialOutputAuthorization(o)
  \/ \E n \in {0, Max[o]} : recordUsageEvent(o, n)
  \/ \E s \in Refunded : reverseAtOnce(o, s)
  \/ UNCHANGED kernel

LEMMA KernelStep ==
  ASSUME IInv, SettledForWork, NEW o \in Turns, KernelMoves(o)
  PROVE  /\ IInv' /\ KeepsOutcomes /\ SettledForWork'
         /\ \A t \in Turns : IsReserved(t)' => IsReserved(t)
         /\ \A t \in Turns : Funded(t)' <=> Funded(t)
         /\ settlePartialOutputAuthorization(o) => ~IsReserved(o)'
         /\ (\E s \in Refunded : reverseAtOnce(o, s)) => ~IsReserved(o)'
         /\ (\E c \in Amounts \cup {0} : settleTerminal(o, c)) => Paid(o)'
<1>1. /\ authz \in [Turns -> Authorization] /\ usage \in [Turns -> Usage]
      /\ run \in [Turns -> {"none", "started", "output"}]
  BY DEF IInv, TypeOK
<1>2. IInv' /\ KeepsOutcomes
  <2>1. CASE \E s \in Refunded : reverseAtOnce(o, s)
    BY <2>1, ReverseAtOnceStep
  <2>2. CASE ~\E s \in Refunded : reverseAtOnce(o, s)
    <3>1. [Next]_vars
      BY <2>2 DEF KernelMoves, Next, kernel
    <3> QED
      BY <3>1, NextIInv
  <2> QED
    BY <2>1, <2>2
<1>e. ASSUME authz' = authz
      PROVE  /\ ~settlePartialOutputAuthorization(o) /\ ~\E s \in Refunded : reverseAtOnce(o, s)
             /\ ~\E c \in Amounts \cup {0} : settleTerminal(o, c)
  <2>1. settlePartialOutputAuthorization(o) => authz[o].state # authz'[o].state
    BY <1>1 DEF settlePartialOutputAuthorization, Settled, IsReserved, Authorization
  <2>2. ASSUME NEW s \in Refunded, reverseAtOnce(o, s) PROVE authz[o].state # authz'[o].state
    BY <1>1, <2>2 DEF reverseAtOnce, IsReserved, Authorization, Refunded
  <2>3. ASSUME NEW c \in Amounts \cup {0}, settleTerminal(o, c)
        PROVE  authz[o].state # authz'[o].state
    BY <1>1, <2>3 DEF settleTerminal, Settled, IsReserved, Authorization
  <2> QED
    BY <1>e, <2>1, <2>2, <2>3
<1>3. CASE claimTurnProviderStart(o)
  <2>1. /\ authz' = authz /\ run[o] = "none" /\ usage[o].status = "none"
        /\ IsReserved(o)
        /\ \A t \in Turns \ {o} : usage'[t] = usage[t] /\ run'[t] = run[t]
        /\ usage'[o].status = "provider_admitted"
    BY <1>1, <1>3 DEF claimTurnProviderStart
  <2>2. SettledForWork'
    BY <2>1 DEF SettledForWork, IsReserved
  <2> QED
    BY <1>2, <1>e, <2>1, <2>2 DEF IsReserved, Funded
<1>4. CASE markTurnUsableOutput(o)
  <2>1. /\ authz' = authz /\ usage' = usage /\ IsReserved(o) /\ run'[o] = "output"
        /\ \A t \in Turns \ {o} : run'[t] = run[t]
    BY <1>1, <1>4 DEF markTurnUsableOutput
  <2>2. SettledForWork'
    BY <2>1 DEF SettledForWork
  <2> QED
    BY <1>2, <1>e, <2>1, <2>2 DEF IsReserved, Funded
<1>5. ASSUME NEW c \in Amounts \cup {0}, settleTerminal(o, c)
      PROVE  /\ SettledForWork' /\ Paid(o)' /\ ~IsReserved(o)'
             /\ \A t \in Turns : IsReserved(t)' => IsReserved(t)
             /\ \A t \in Turns : Funded(t)' <=> Funded(t)
  <2>1. /\ authz'[o].state = "settled" /\ usage'[o].status = "completed" /\ run' = run
        /\ authz[o].state = "reserved"
        /\ \A t \in Turns \ {o} : authz'[t] = authz[t] /\ usage'[t] = usage[t]
    BY <1>1, <1>5 DEF settleTerminal, Settled, UsageTruth, Authorization, IsReserved
  <2> QED
    BY <2>1 DEF SettledForWork, Paid, IsReserved, Funded
<1>6. CASE settlePartialOutputAuthorization(o)
  <2>1. /\ authz'[o].state = "settled" /\ usage'[o].status = "error" /\ run' = run
        /\ run[o] = "output" /\ authz[o].state = "reserved"
        /\ \A t \in Turns \ {o} : authz'[t] = authz[t] /\ usage'[t] = usage[t]
    BY <1>1, <1>6
       DEF settlePartialOutputAuthorization, Settled, UsageTruth, Authorization, IsReserved
  <2>2. /\ SettledForWork' /\ ~IsReserved(o)'
        /\ \A t \in Turns : IsReserved(t)' => IsReserved(t)
        /\ \A t \in Turns : Funded(t)' <=> Funded(t)
    BY <2>1 DEF SettledForWork, IsReserved, Funded
  <2>3. ~\E c \in Amounts \cup {0} : settleTerminal(o, c)
    BY <1>1, <2>1 DEF settleTerminal, UsageTruth
  <2> QED
    BY <1>2, <2>2, <2>3
<1>7. ASSUME NEW n \in {0, Max[o]}, recordUsageEvent(o, n)
      PROVE  /\ SettledForWork' /\ authz' = authz
             /\ \A t \in Turns : IsReserved(t)' => IsReserved(t)
  <2>1. /\ authz' = authz /\ run' = run /\ usage[o].status \in {"none", "provider_admitted"}
        /\ usage'[o].status = "error"
        /\ \A t \in Turns \ {o} : usage'[t] = usage[t]
    BY <1>1, <1>7 DEF recordUsageEvent
  <2> QED
    BY <2>1 DEF SettledForWork, IsReserved
<1>8. ASSUME NEW s \in Refunded, reverseAtOnce(o, s)
      PROVE  /\ SettledForWork' /\ ~IsReserved(o)'
             /\ \A t \in Turns : IsReserved(t)' => IsReserved(t)
             /\ \A t \in Turns : Funded(t)' <=> Funded(t)
             /\ usage' = usage /\ authz'[o].state # "settled"
  <2>1. /\ authz'[o].state = s /\ run' = run /\ usage' = usage /\ authz[o].state = "reserved"
        /\ \A t \in Turns \ {o} : authz'[t] = authz[t]
    BY <1>1, <1>8 DEF reverseAtOnce, Authorization, IsReserved
  <2> QED
    BY <2>1 DEF SettledForWork, IsReserved, Refunded, Funded
<1>9. CASE UNCHANGED kernel
  <2>1. SettledForWork' /\ UNCHANGED <<authz, usage>>
    BY <1>9 DEF kernel, vars, SettledForWork
  <2> QED
    BY <1>2, <1>e, <2>1 DEF IsReserved, Funded
<1>10. authz' = authz => \A t \in Turns : Funded(t)' <=> Funded(t)
  BY DEF Funded
<1> QED
  BY <1>2, <1>3, <1>4, <1>5, <1>6, <1>7, <1>8, <1>9, <1>10 DEF KernelMoves

\* reserveAuthorization reserves its own turn only.
LEMMA ReserveStep ==
  ASSUME IInv, SettledForWork, NEW o \in Turns, reserveAuthorization(o)
  PROVE  /\ IInv' /\ KeepsOutcomes /\ SettledForWork'
         /\ \A t \in Turns \ {o} : IsReserved(t)' => IsReserved(t)
         /\ Funded(o)' /\ \A t \in Turns \ {o} : Funded(t)' <=> Funded(t)
<1>1. authz \in [Turns -> Authorization]
  BY DEF IInv, TypeOK
<1>2. IInv' /\ KeepsOutcomes
  BY NextIInv DEF Next
<1>3. /\ authz'[o].state = "reserved" /\ authz[o].state = "none" /\ UNCHANGED <<run, usage>>
      /\ \A t \in Turns \ {o} : authz'[t] = authz[t]
  BY <1>1 DEF reserveAuthorization
<1> QED
  BY <1>2, <1>3 DEF SettledForWork, IsReserved, Funded

\* The match of money and state: the authorization tells whether there is a debit.
LEMMA DebitedIsFunded ==
  ASSUME IInv, NEW o \in Turns
  PROVE  Debited(o) <=> Funded(o)
BY Unfolded DEF MoneyOf, IsDebit, Debited, Funded

-----------------------------------------------------------------------------
(* Frames.                                                                 *)

LEMMA Constants ==
  /\ Instants = 1..Len(DueAt) /\ Len(DueAt) \in Nat \ {0}
  /\ \A k \in Instants : DueAt[k] \in Turns
  /\ NoOne \notin Turns /\ NoOne \notin Workers
  /\ \A o \in Turns : InstantOf(o) \in Nat
  /\ now \in Instants => NextInstant \in {NoInstant} \cup Instants
<1>1. DueAt \in Seq(Turns) /\ DueAt # <<>>
  BY TasksAssumption
<1>2. /\ Instants = 1..Len(DueAt) /\ Len(DueAt) \in Nat \ {0}
      /\ \A k \in Instants : DueAt[k] \in Turns
  BY <1>1 DEF Instants
<1>3. NoOne \notin Turns /\ NoOne \notin Workers
  BY TasksAssumption
<1>4. ASSUME NEW o \in Turns PROVE InstantOf(o) \in Nat
  <2>1. CASE o \in Manual
    BY <1>2, <2>1 DEF InstantOf, ManualInstant
  <2>2. CASE o \notin Manual
    <3>1. \E k \in Instants : DueAt[k] = o
      BY <2>2 DEF Manual, Scheduled
    <3>2. InstantOf(o) \in Instants
      BY <2>2, <3>1 DEF InstantOf
    <3> QED
      BY <1>2, <3>2
  <2> QED
    BY <2>1, <2>2
<1>5. now \in Instants => NextInstant \in {NoInstant} \cup Instants
  BY <1>2 DEF NextInstant
<1> QED
  BY <1>2, <1>3, <1>4, <1>5

\* A step that leaves the pending occurrence and passes the claim to nobody
\* else; whoever bars the occurrence takes the claim away or moves with it.
RowKept ==
  /\ task' \in TaskRow /\ task'.pend = task.pend
  /\ task'.claim \in {task.claim, NoOne}
  /\ \/ spent' = spent
     \/ /\ task'.claim = NoOne
        /\ \A o \in spent' : o \in spent \/ (o \in Turns /\ Funded(o))
     \/ \E p \in Workers :
          /\ Mine(p) /\ w'[p] # w[p] /\ Occ(p) \in Turns /\ Funded(Occ(p))
          /\ spent' = spent \cup {Occ(p)}
  /\ UNCHANGED <<outcomes, notified>>
  /\ now' \in Instants /\ removing' \in Nat \cup {NotRemoving}

\* A transaction of the kernel that reserves at most what the movers claim.
KernelKept(S) ==
  /\ IInv' /\ SettledForWork' /\ KeepsOutcomes
  /\ \A o \in Turns :
       /\ IsReserved(o)' => IsReserved(o) \/ \E p \in S : Mine(p) /\ o = Occ(p)
       /\ Funded(o)' => Funded(o) \/ \E p \in S : Mine(p) /\ o = Occ(p)
       /\ Funded(o) => Funded(o)'

LEMMA PaidKept ==
  ASSUME KeepsOutcomes, NEW o \in Turns, Paid(o)
  PROVE  Paid(o)'
BY DEF KeepsOutcomes, Paid, Terminal

LEMMA Frame ==
  ASSUME TaskInv, RowKept, NEW S, S \subseteq Workers, KernelKept(S),
         w' \in [Workers -> Local], \A q \in Workers \ S : w'[q] = w[q],
         \A p \in S : Rules(p)',
         \A p \in S : At(p, "provider") /\ w'[p].pc = "stream" => Occ(p) \notin spent
  PROVE  TaskInv' /\ Once
<1>1. TaskTypes /\ Recorded /\ \A q \in Workers : Rules(q)
  BY DEF TaskInv
<1>2. NoOne \notin Turns /\ NoOne \notin Workers
  BY Constants
<1>3. TaskTypes'
  BY <1>1 DEF TaskTypes, RowKept
<1>4. ASSUME NEW q \in Workers \ S PROVE Rules(q)'
  <2>1. Rules(q) /\ w'[q] = w[q]
    BY <1>1
  <2>2. Mine(q)' => Mine(q) /\ spent' \subseteq spent
    BY <1>2, <2>1 DEF Mine, Occ, RowKept
  <2>3. Mine(q) => \A p \in S : ~Mine(p)
    BY DEF Mine
  <2>4. Mine(q)' =>
          \A o \in Turns : /\ authz'[o].state = "reserved" => IsReserved(o)
                           /\ authz'[o].state # "none" => Funded(o)
    BY <2>2, <2>3 DEF KernelKept, IsReserved, Funded
  <2>5. \A o \in Turns : Paid(o) => Paid(o)'
    BY PaidKept DEF KernelKept
  <2>6. Occ(q)' = Occ(q) /\ w'[q].pc = w[q].pc
    BY <2>1 DEF Occ
  <2>7. w[q].pc \in Occupied => Occ(q) \in Turns
    BY <2>1 DEF Rules
  <2>8. ASSUME At(q, "mark") PROVE Occ(q) \in Turns
    BY <2>7, <2>8 DEF At, Occupied
  <2>9. Mine(q)' =>
          /\ At(q, "reserve") => ~Funded(Occ(q))'
          /\ w[q].pc \in WithTicket => Occ(q) \notin spent'
          /\ At(q, "mark") /\ w[q].outcome = "failed" => ~IsReserved(Occ(q))'
    <3> SUFFICES ASSUME Mine(q)'
                 PROVE  /\ At(q, "reserve") => ~Funded(Occ(q))'
                        /\ w[q].pc \in WithTicket => Occ(q) \notin spent'
                        /\ At(q, "mark") /\ w[q].outcome = "failed" => ~IsReserved(Occ(q))'
      OBVIOUS
    <3>1. Mine(q) /\ spent' \subseteq spent
      BY <2>2
    <3>3. At(q, "reserve") => ~Funded(Occ(q))'
      <4> SUFFICES ASSUME At(q, "reserve"), Funded(Occ(q))'
                   PROVE  FALSE
        OBVIOUS
      <4>1. Occ(q) \in Turns /\ authz'[Occ(q)].state # "none"
        BY <2>6, <2>7 DEF Funded, At, Occupied
      <4>2. Funded(Occ(q))
        BY <2>4, <4>1
      <4> QED
        BY <2>1, <3>1, <4>2 DEF Rules
    <3>2. At(q, "mark") /\ w[q].outcome = "failed" => ~IsReserved(Occ(q))'
      <4> SUFFICES ASSUME At(q, "mark"), w[q].outcome = "failed", IsReserved(Occ(q))'
                   PROVE  FALSE
        OBVIOUS
      <4>1. authz'[Occ(q)].state = "reserved"
        BY <2>6 DEF IsReserved
      <4>2. IsReserved(Occ(q))
        BY <2>4, <2>8, <4>1
      <4> QED
        BY <2>1, <3>1, <4>2 DEF Rules
    <3> QED
      BY <2>1, <3>1, <3>2, <3>3 DEF Rules
  <2>11. w[q].pc \in WithTicket => Funded(Occ(q))'
    <3> SUFFICES ASSUME w[q].pc \in WithTicket PROVE Funded(Occ(q))'
      OBVIOUS
    <3>1. Occ(q) \in Turns /\ Funded(Occ(q))
      BY <2>1, <2>7 DEF Rules, WithTicket, Occupied
    <3>2. authz'[Occ(q)].state # "none"
      BY <3>1 DEF KernelKept, Funded
    <3> QED
      BY <2>6, <3>2 DEF Funded
  <2>10. At(q, "mark") /\ w[q].outcome = "ok" => Paid(Occ(q))'
    <3> SUFFICES ASSUME At(q, "mark"), w[q].outcome = "ok" PROVE Paid(Occ(q))'
      OBVIOUS
    <3>1. Paid(Occ(q)) /\ Occ(q) \in Turns
      BY <2>1, <2>8 DEF Rules
    <3>2. authz'[Occ(q)].state = "settled" /\ usage'[Occ(q)].status = "completed"
      BY <2>5, <3>1 DEF Paid
    <3> QED
      BY <2>6, <3>2 DEF Paid
  <2> QED
    BY <2>1, <2>6, <2>7, <2>9, <2>10, <2>11 DEF Rules, At
<1>5. Recorded'
  <2>1. \A o \in spent' : o \in Turns /\ Funded(o)'
    <3>1. \A o \in spent' : o \in Turns /\ Funded(o)
      BY <1>1 DEF Recorded, RowKept
    <3> QED
      BY <3>1 DEF KernelKept
  <2>2. ASSUME NEW o \in Turns, outcomes'[o] = "failed", task'.pend # o
        PROVE  ~IsReserved(o)'
    <3>1. ~IsReserved(o)
      BY <1>1, <2>2 DEF Recorded, RowKept
    <3>2. \A p \in S : Mine(p) => o # Occ(p)
      BY <2>2 DEF Mine, RowKept
    <3> QED
      BY <3>1, <3>2 DEF KernelKept
  <2>3. ASSUME NEW o \in notified' PROVE Paid(o)'
    <3>1. o \in notified /\ o \in Turns
      BY <1>1, <2>3 DEF RowKept, TaskTypes
    <3> QED
      BY <1>1, <3>1, PaidKept DEF Recorded, KernelKept
  <2> QED
    BY <2>1, <2>2, <2>3 DEF Recorded
<1>6. Once
  <2>1. \A o \in Scheduled : o \in Turns
    BY Constants DEF Scheduled
  <2>2. ASSUME NEW q \in Workers, At(q, "provider"), w'[q].pc = "stream"
        PROVE  Occ(q) \notin spent
    BY <2>2 DEF At
  <2> QED
    BY <1>2, <2>1, <2>2 DEF Once, RowKept
<1> QED
  BY <1>1, <1>3, <1>4, <1>5, <1>6 DEF TaskInv, KernelKept

\* One worker moves to l.
LEMMA StepTo ==
  ASSUME TaskInv, RowKept, NEW p \in Workers, KernelKept({p}),
         NEW l \in Local, w' = [w EXCEPT ![p] = l],
         l.pc \in Occupied => l.occ \in Turns,
         l.pc # "evidence",
         l.pc = "reserve" =>
           l.occ = Occ(p) /\ (Mine(p) => authz'[l.occ].state = "none"),
         l.pc \in WithTicket =>
           l.occ = Occ(p) /\ authz'[l.occ].state # "none" /\ (Mine(p) => Occ(p) \notin spent'),
         l.pc = "mark" /\ l.outcome = "failed" => authz'[l.occ].state # "reserved",
         l.pc = "mark" /\ l.outcome = "ok" =>
           authz'[l.occ].state = "settled" /\ usage'[l.occ].status = "completed",
         l.pc \in Compensating /\ l.within = "task" => l.outcome = "failed",
         At(p, "provider") /\ l.pc = "stream" => Occ(p) \notin spent
  PROVE  TaskInv' /\ Once
<1>1. /\ w' \in [Workers -> Local] /\ w'[p] = l
      /\ \A q \in Workers \ {p} : w'[q] = w[q]
  BY DEF TaskInv, TaskTypes
<1>2. Mine(p)' /\ l.occ = Occ(p) => Mine(p)
  BY <1>1, Constants DEF Mine, Occ, RowKept
<1>3. Rules(p)'
  BY <1>1, <1>2 DEF Rules, At, Occ, IsReserved, Paid, Funded
<1> QED
  BY <1>1, <1>3, Frame

\* A place from which a worker can do nothing that its claim must cover.
Safe(l) ==
  /\ l \in Local
  /\ l.pc \in Occupied => l.occ \in Turns
  /\ l.pc \notin BeforeProvider \cup {"evidence", "stream", "mark"}
  /\ l.pc \in Compensating /\ l.within = "task" => l.outcome = "failed"

LEMMA SafeStep ==
  ASSUME TaskInv, RowKept, NEW p \in Workers, KernelKept({p}),
         NEW l, Safe(l), w' = [w EXCEPT ![p] = l]
  PROVE  TaskInv' /\ Once
BY StepTo DEF Safe, BeforeProvider, WithTicket

\* Where a worker goes when it ends, fails or hands over to the schedule.
LEMMA SafeEnd ==
  ASSUME TaskInv, NEW p \in Workers
  PROVE  Safe(Idle) /\ Safe([Idle EXCEPT !.pc = "stamp"])
<1>1. Idle \in Local
  BY DEF Idle, Local, Places, NoInstant
<1>2. Safe(Idle)
  BY <1>1 DEF Safe, Idle, Occupied, BeforeProvider, WithTicket, Compensating
<1>3. Safe([Idle EXCEPT !.pc = "stamp"])
  BY <1>1 DEF Safe, Local, Places, Occupied, BeforeProvider, WithTicket, Compensating
<1> QED
  BY <1>2, <1>3

LEMMA SafeAfterRun ==
  ASSUME TaskInv, NEW p \in Workers, NEW x \in {"stamp", "cap"}
  PROVE  Safe([Idle EXCEPT !.pc = x, !.outcome = w[p].outcome])
<1>1. w[p] \in Local /\ Idle \in Local
  BY DEF TaskInv, TaskTypes, Idle, Local, Places, NoInstant
<1> QED
  BY <1>1 DEF Safe, Local, Places, Occupied, BeforeProvider, WithTicket, Compensating

LEMMA Occupies ==
  ASSUME TaskInv, NEW p \in Workers, w[p].pc \in Occupied
  PROVE  w[p] \in Local /\ w[p].occ \in Turns
BY DEF TaskInv, TaskTypes, Rules, Occ

LEMMA SafeFail ==
  ASSUME TaskInv, NEW p \in Workers, w[p].pc \in Occupied
  PROVE  Safe(Failing(p))
<1>1. w[p] \in Local /\ w[p].occ \in Turns
  BY Occupies
<1>2. "partial" \in Places
  BY DEF Places, Occupied
<1> HIDE DEF Places
<1>3. /\ Failing(p) \in Local /\ Failing(p).occ \in Turns /\ Failing(p).pc = "partial"
      /\ Failing(p).outcome = "failed"
  BY <1>1, <1>2 DEF Failing, Local
<1> QED
  BY <1>3 DEF Safe, BeforeProvider, WithTicket

LEMMA SafeTurnFails ==
  ASSUME TaskInv, NEW p \in Workers, w[p].pc \in Occupied, NEW b \in BOOLEAN
  PROVE  Safe([w[p] EXCEPT !.pc = "partial", !.within = "turn", !.report = b])
<1> DEFINE l == [w[p] EXCEPT !.pc = "partial", !.within = "turn", !.report = b]
<1>1. w[p] \in Local /\ w[p].occ \in Turns
  BY Occupies
<1>2. "partial" \in Places
  BY DEF Places, Occupied
<1>3. l \in Local /\ l.occ \in Turns /\ l.pc = "partial" /\ l.within = "turn"
  BY <1>1, <1>2 DEF Local
<1>4. Safe(l)
  <2> HIDE DEF l
  <2> QED  BY <1>3 DEF Safe, BeforeProvider, WithTicket
<1> QED
  BY <1>4

\* A reversal that is tried again keeps what it was called for.
LEMMA SafeGoto ==
  ASSUME TaskInv, NEW p \in Workers, w[p].pc \in Occupied,
         NEW x \in {"release", "refused", "reverse", "repartial"},
         x \in Compensating => w[p].pc \in Compensating
  PROVE  Safe([w[p] EXCEPT !.pc = x])
<1>1. w[p] \in Local /\ w[p].occ \in Turns /\ Rules(p)
  BY Occupies DEF TaskInv
<1> QED
  BY <1>1 DEF Rules, Safe, Local, Places, Occupied, BeforeProvider, WithTicket, Compensating

\* A transaction after which the worker fails its occurrence or its turn.
LEMMA FailStep ==
  ASSUME TaskInv, RowKept, NEW p \in Workers, KernelKept({p}), w[p].pc \in Occupied, Fail(p)
  PROVE  TaskInv' /\ Once
BY SafeFail, SafeStep DEF Fail, Become

LEMMA TurnFailsStep ==
  ASSUME TaskInv, RowKept, NEW p \in Workers, KernelKept({p}), w[p].pc \in Occupied,
         NEW b \in BOOLEAN, TurnFails(p, b)
  PROVE  TaskInv' /\ Once
<1> DEFINE l == [w[p] EXCEPT !.pc = "partial", !.within = "turn", !.report = b]
<1>1. Safe(l)
  BY SafeTurnFails, Zenon
<1>2. w' = [w EXCEPT ![p] = l]
  BY DEF TurnFails, Become
<1> HIDE DEF l
<1> QED
  BY <1>1, <1>2, SafeStep

-----------------------------------------------------------------------------
(* Steps that at most renew the lease.                                     *)

RowRenewed ==
  /\ task' = task \/ task' = [task EXCEPT !.stale = FALSE]
  /\ UNCHANGED <<now, removing, outcomes, spent, notified>>

LEMMA RenewedKept ==
  ASSUME TaskInv, RowRenewed
  PROVE  RowKept /\ spent' = spent
BY DEF TaskInv, TaskTypes, RowRenewed, RowKept, TaskRow

LEMMA KernelSame ==
  ASSUME TaskInv, UNCHANGED kernel, NEW S
  PROVE  KernelKept(S)
<1>1. [Next]_vars
  BY DEF kernel
<1>2. IInv' /\ KeepsOutcomes
  BY <1>1, NextIInv DEF TaskInv
<1>3. UNCHANGED <<authz, run, usage>>
  BY DEF kernel, vars
<1> QED
  BY <1>2, <1>3 DEF TaskInv, KernelKept, SettledForWork, IsReserved, Funded

LEMMA KernelMoved ==
  ASSUME TaskInv, NEW o \in Turns, KernelMoves(o), NEW S
  PROVE  KernelKept(S)
BY KernelStep DEF TaskInv, KernelKept

\* Nothing but the worker's own place changes.
LEMMA NoWriteKept ==
  ASSUME TaskInv, UNCHANGED kernel, RowUnchanged, NEW S
  PROVE  RowKept /\ spent' = spent /\ KernelKept(S)
<1>1. RowRenewed
  BY DEF RowUnchanged, rowVars, RowRenewed
<1> QED
  BY <1>1, RenewedKept, KernelSame

LEMMA HoldsMine ==
  ASSUME NEW p, Holds(p)
  PROVE  Mine(p)
BY DEF Holds, Mine

-----------------------------------------------------------------------------
(* The worker's steps.                                                     *)

\* A step that ends, fails or hands over.
LEMMA LeaveStep ==
  ASSUME TaskInv, NEW p \in Workers, UNCHANGED kernel, RowUnchanged,
         \/ Return(p) \/ RunThrows(p) \/ Goto(p, "streak")
         \/ w[p].pc \in Occupied /\ (Fail(p) \/ \E b \in BOOLEAN : TurnFails(p, b))
  PROVE  TaskInv' /\ Once
<1>1. RowKept /\ KernelKept({p})
  BY NoWriteKept
<1>2. CASE Return(p)
  BY <1>1, <1>2, SafeEnd, SafeStep DEF Return, Become
<1>3. CASE RunThrows(p)
  <2>1. Return(p) \/ Become(p, [Idle EXCEPT !.pc = "stamp"])
    BY <1>3 DEF RunThrows
  <2> QED
    BY <1>1, <1>2, <2>1, SafeEnd, SafeStep DEF Become
<1>4. CASE Goto(p, "streak")
  <2>1. Safe([w[p] EXCEPT !.pc = "streak"])
    BY DEF TaskInv, TaskTypes, Safe, Local, Places, Occupied, BeforeProvider, WithTicket, Compensating
  <2> QED
    BY <1>1, <1>4, <2>1, SafeStep DEF Goto, Become
<1>5. CASE w[p].pc \in Occupied /\ Fail(p)
  BY <1>1, <1>5, FailStep
<1>6. ASSUME w[p].pc \in Occupied, NEW b \in BOOLEAN, TurnFails(p, b)
      PROVE  TaskInv' /\ Once
  BY <1>1, <1>6, TurnFailsStep
<1> QED
  BY <1>2, <1>3, <1>4, <1>5, <1>6

LEMMA ReserveTurnStep ==
  ASSUME TaskInv, NEW p \in Workers, ReserveTurn(p)
  PROVE  TaskInv' /\ Once
<1>1. At(p, "reserve") /\ Mine(p) /\ w[p].pc \in Occupied /\ Occ(p) \in Turns
  BY HoldsMine, Occupies DEF ReserveTurn, At, Occupied, Occ
<1>2. RowRenewed
  BY DEF ReserveTurn, Fenced, NoWrite, RowUnchanged, rowVars, Attempt, RowRenewed
<1>3. RowKept /\ spent' = spent
  BY <1>2, RenewedKept
<1>4. KernelKept({p})
  <2>1. reserveAuthorization(Occ(p)) \/ UNCHANGED kernel
    BY DEF ReserveTurn, Fenced, NoWrite, Attempt
  <2>2. CASE reserveAuthorization(Occ(p))
    BY <1>1, <2>2, ReserveStep DEF TaskInv, KernelKept
  <2> QED
    BY <2>1, <2>2, KernelSame
<1>5. \/ Goto(p, "ticket") \/ Fail(p)
      \/ Become(p, [w[p] EXCEPT !.pc = "refused", !.cap = TRUE])
  BY DEF ReserveTurn, Fenced, NoWrite, Attempt
<1>6. CASE Fail(p)
  BY <1>1, <1>3, <1>4, <1>6, FailStep
<1>7. CASE Goto(p, "ticket")
  <2> DEFINE l == [w[p] EXCEPT !.pc = "ticket"]
  <2>1. l \in Local /\ l.pc = "ticket" /\ l.occ = Occ(p)
    BY DEF TaskInv, TaskTypes, Local, Places, Occupied, Occ
  <2>2. w' = [w EXCEPT ![p] = l]
    BY <1>7 DEF Goto, Become
  <2>3. Occ(p) \notin spent
    BY <1>1 DEF TaskInv, Rules, Recorded
  <2>4. reserveAuthorization(Occ(p))
    <3>1. w[p] \in Local
      BY DEF TaskInv, TaskTypes, Local
    <3>2. w'[p].pc = "ticket"
      BY <1>7 DEF TaskInv, TaskTypes, Goto, Become, Local
    <3>3. ASSUME NEW x, x.pc # "ticket" PROVE ~Become(p, x)
      BY <3>2, <3>3 DEF TaskInv, TaskTypes, Become
    <3>4. Failing(p).pc = "partial"
      BY <3>1 DEF Failing, Local
    <3>5. [w[p] EXCEPT !.pc = "refused", !.cap = TRUE].pc = "refused"
      BY <3>1 DEF Local
    <3>6. ~Fail(p) /\ ~Become(p, [w[p] EXCEPT !.pc = "refused", !.cap = TRUE])
      BY <3>3, <3>4, <3>5 DEF Fail
    <3> QED
      BY <3>6 DEF ReserveTurn, Fenced, NoWrite, Attempt
  <2>5. authz'[Occ(p)].state # "none"
    BY <1>1, <2>4, ReserveStep DEF TaskInv, Funded
  <2> HIDE DEF l
  <2> QED
    BY <1>1, <1>3, <1>4, <2>1, <2>2, <2>3, <2>5, StepTo DEF Compensating, WithTicket
<1>8. CASE Become(p, [w[p] EXCEPT !.pc = "refused", !.cap = TRUE])
  <2> DEFINE l == [w[p] EXCEPT !.pc = "refused", !.cap = TRUE]
  <2>1. l \in Local /\ l.pc = "refused" /\ l.occ = Occ(p)
    <3>1. w[p] \in Local /\ "refused" \in Places
      BY DEF TaskInv, TaskTypes, Places, Occupied
    <3> QED
      BY <3>1 DEF Local, Occ
  <2>2. Safe(l) /\ w' = [w EXCEPT ![p] = l]
    <3>1. w' = [w EXCEPT ![p] = l]
      BY <1>8 DEF Become
    <3> HIDE DEF l
    <3> QED  BY <1>1, <2>1, <3>1 DEF Safe, BeforeProvider, WithTicket, Compensating
  <2> HIDE DEF l
  <2> QED
    BY <1>3, <1>4, <2>2, SafeStep
<1> QED
  BY <1>5, <1>6, <1>7, <1>8

LEMMA RecordRefusalStep ==
  ASSUME TaskInv, NEW p \in Workers, RecordRefusal(p)
  PROVE  TaskInv' /\ Once
<1>1. w[p].pc \in Occupied /\ Occ(p) \in Turns
  BY Occupies DEF RecordRefusal, At, Occupied, Occ
<1>2. RowKept
  <2>1. RowRenewed
    BY DEF RecordRefusal, RowUnchanged, rowVars, RowRenewed
  <2> QED  BY <2>1, RenewedKept
<1>3. KernelKept({p})
  <2>1. KernelMoves(Occ(p))
    BY DEF RecordRefusal, Attempt, KernelMoves
  <2> QED  BY <1>1, <2>1, KernelMoved
<1>4. Fail(p)
  BY DEF RecordRefusal, Attempt
<1> QED
  BY <1>1, <1>2, <1>3, <1>4, FailStep

LEMMA ClaimTicketStep ==
  ASSUME TaskInv, NEW p \in Workers, ClaimTicket(p)
  PROVE  TaskInv' /\ Once
<1>1. At(p, "ticket") /\ Mine(p) /\ w[p].pc \in Occupied /\ Occ(p) \in Turns
  BY HoldsMine, Occupies DEF ClaimTicket, At, Occupied, Occ
<1>2. RowRenewed
  BY DEF ClaimTicket, Fenced, NoWrite, RowUnchanged, rowVars, Attempt, RowRenewed
<1>3. RowKept /\ spent' = spent
  BY <1>2, RenewedKept
<1>4. KernelKept({p})
  <2>1. KernelMoves(Occ(p))
    BY DEF ClaimTicket, Fenced, NoWrite, Attempt, KernelMoves
  <2> QED  BY <1>1, <2>1, KernelMoved
<1>5. Goto(p, "provider") \/ Fail(p)
  BY DEF ClaimTicket, Fenced, NoWrite, Attempt
<1>6. CASE Fail(p)
  BY <1>1, <1>3, <1>4, <1>6, FailStep
<1>7. CASE Goto(p, "provider")
  <2> DEFINE l == [w[p] EXCEPT !.pc = "provider"]
  <2>1. l \in Local /\ l.pc = "provider" /\ l.occ = Occ(p)
    BY DEF TaskInv, TaskTypes, Local, Places, Occupied, Occ
  <2>2. w' = [w EXCEPT ![p] = l]
    BY <1>7 DEF Goto, Become
  <2>3. Occ(p) \notin spent /\ Funded(Occ(p))
    BY <1>1 DEF TaskInv, Rules, At, WithTicket
  <2>4. authz'[Occ(p)].state # "none"
    BY <1>1, <1>4, <2>3 DEF KernelKept, Funded
  <2> HIDE DEF l
  <2> QED
    BY <1>1, <1>3, <1>4, <2>1, <2>2, <2>3, <2>4, StepTo DEF Compensating, WithTicket
<1> QED
  BY <1>5, <1>6, <1>7

\* The prompt leaves: the claim and the ticket of its worker are good, so that
\* the turn was not spent before and is now.
LEMMA CallProviderStep ==
  ASSUME TaskInv, NEW p \in Workers, CallProvider(p)
  PROVE  TaskInv' /\ Once
<1>1. At(p, "provider") /\ Mine(p) /\ w[p].pc \in Occupied /\ Occ(p) \in Turns
  BY HoldsMine, Occupies DEF CallProvider, At, Occupied, Occ
<1>2. KernelKept({p})
  BY KernelSame DEF CallProvider
<1>3. \/ RowUnchanged /\ (Fail(p) \/ TurnFails(p, FALSE))
      \/ /\ Goto(p, "stream") /\ spent' = spent \cup {Occ(p)}
         /\ task' = [task EXCEPT !.stale = FALSE]
         /\ UNCHANGED <<now, removing, outcomes, notified>>
  BY DEF CallProvider
<1>4. CASE RowUnchanged /\ (Fail(p) \/ TurnFails(p, FALSE))
  <2>1. RowKept
    BY <1>4, RenewedKept DEF RowUnchanged, rowVars, RowRenewed
  <2> QED
    BY <1>1, <1>2, <1>4, <2>1, FailStep, TurnFailsStep
<1>5. CASE /\ Goto(p, "stream") /\ spent' = spent \cup {Occ(p)}
           /\ task' = [task EXCEPT !.stale = FALSE]
           /\ UNCHANGED <<now, removing, outcomes, notified>>
  <2> DEFINE l == [w[p] EXCEPT !.pc = "stream"]
  <2>1. l \in Local /\ l.pc = "stream" /\ l.occ = Occ(p)
    BY DEF TaskInv, TaskTypes, Local, Places, Occupied, Occ
  <2>2. w' = [w EXCEPT ![p] = l]
    BY <1>5 DEF Goto, Become
  <2>3. Occ(p) \notin spent /\ Funded(Occ(p))
    BY <1>1 DEF TaskInv, Rules, At, WithTicket
  <2>4. w'[p] # w[p]
    BY <1>1, <2>1, <2>2 DEF TaskInv, TaskTypes, At
  <2>5. /\ task' \in TaskRow /\ task'.pend = task.pend /\ task'.claim = task.claim
        /\ now' \in Instants /\ removing' \in Nat \cup {NotRemoving}
    BY <1>5 DEF TaskInv, TaskTypes, TaskRow
  <2>6. RowKept
    BY <1>1, <1>5, <2>3, <2>4, <2>5 DEF RowKept
  <2> HIDE DEF l
  <2> QED
    BY <1>1, <1>2, <2>1, <2>2, <2>3, <2>6, StepTo DEF Compensating, WithTicket
<1> QED
  BY <1>3, <1>4, <1>5

LEMMA FirstTokenStep ==
  ASSUME TaskInv, NEW p \in Workers, FirstToken(p)
  PROVE  TaskInv' /\ Once
<1>1. At(p, "stream") /\ w[p].pc \in Occupied /\ Occ(p) \in Turns
  BY Occupies DEF FirstToken, At, Occupied, Occ
<1>2. RowRenewed
  BY DEF FirstToken, Fenced, NoWrite, RowUnchanged, rowVars, Attempt, RowRenewed
<1>3. RowKept /\ spent' = spent
  BY <1>2, RenewedKept
<1>4. KernelKept({p}) /\ KernelKept({})
  <2>1. KernelMoves(Occ(p))
    BY DEF FirstToken, Fenced, NoWrite, Attempt, KernelMoves
  <2> QED  BY <1>1, <2>1, KernelMoved
<1>5. UNCHANGED w \/ TurnFails(p, FALSE)
  BY DEF FirstToken, Fenced, NoWrite, Attempt
<1>6. CASE TurnFails(p, FALSE)
  BY <1>1, <1>3, <1>4, <1>6, TurnFailsStep
<1>7. CASE UNCHANGED w
  BY <1>3, <1>4, <1>7, Frame DEF TaskInv, TaskTypes
<1> QED
  BY <1>5, <1>6, <1>7

\* A completion is settled before it is recorded.
LEMMA TurnCompletedStep ==
  ASSUME TaskInv, NEW p \in Workers, NEW c \in Amounts \cup {0}, TurnCompleted(p, c)
  PROVE  TaskInv' /\ Once
<1>1. At(p, "stream") /\ w[p].pc \in Occupied /\ Occ(p) \in Turns
  BY Occupies DEF TurnCompleted, At, Occupied, Occ
<1>2. RowRenewed
  BY DEF TurnCompleted, Fenced, NoWrite, RowUnchanged, rowVars, Attempt, RowRenewed
<1>3. RowKept /\ spent' = spent
  BY <1>2, RenewedKept
<1>4. KernelKept({p})
  <2>1. KernelMoves(Occ(p))
    BY DEF TurnCompleted, Fenced, NoWrite, Attempt, KernelMoves
  <2> QED  BY <1>1, <2>1, KernelMoved
<1>5. \/ /\ Become(p, [w[p] EXCEPT !.pc = "mark", !.outcome = "ok"])
         /\ settleTerminal(Occ(p), c)
      \/ TurnFails(p, TRUE)
  BY DEF TurnCompleted, Fenced, NoWrite, Attempt
<1>6. CASE TurnFails(p, TRUE)
  BY <1>1, <1>3, <1>4, <1>6, TurnFailsStep
<1>7. CASE /\ Become(p, [w[p] EXCEPT !.pc = "mark", !.outcome = "ok"])
           /\ settleTerminal(Occ(p), c)
  <2> DEFINE l == [w[p] EXCEPT !.pc = "mark", !.outcome = "ok"]
  <2>1. l \in Local /\ l.pc = "mark" /\ l.outcome = "ok" /\ l.occ = Occ(p)
    <3>1. w[p] \in Local /\ "mark" \in Places
      BY DEF TaskInv, TaskTypes, Places, Occupied
    <3> QED
      BY <3>1 DEF Local, Occ
  <2>2. w' = [w EXCEPT ![p] = l]
    BY <1>7 DEF Become
  <2>3. authz'[Occ(p)].state = "settled" /\ usage'[Occ(p)].status = "completed"
    <3>1. authz \in [Turns -> Authorization] /\ usage \in [Turns -> Usage]
      BY DEF TaskInv, IInv, TypeOK
    <3> HIDE DEF l
    <3> QED  BY <1>1, <1>7, <3>1 DEF settleTerminal, Settled, UsageTruth, Authorization
  <2> HIDE DEF l
  <2> QED
    BY <1>1, <1>3, <1>4, <2>1, <2>2, <2>3, StepTo DEF Compensating, BeforeProvider, WithTicket
<1> QED
  BY <1>5, <1>6, <1>7

LEMMA TurnFailedStep ==
  ASSUME TaskInv, NEW p \in Workers, TurnFailed(p) \/ LoadFails(p)
  PROVE  TaskInv' /\ Once
<1>1. w[p].pc \in Occupied
  BY DEF TurnFailed, LoadFails, At, Occupied
<1>2. /\ UNCHANGED kernel /\ RowUnchanged
      /\ Fail(p) \/ \E b \in BOOLEAN : TurnFails(p, b)
  BY DEF TurnFailed, LoadFails, NoWrite
<1> QED
  BY <1>1, <1>2, LeaveStep

LEMMA ClaimLostStep ==
  ASSUME TaskInv, NEW p \in Workers, ClaimLost(p)
  PROVE  TaskInv' /\ Once
BY LeaveStep DEF ClaimLost, NoWrite

-----------------------------------------------------------------------------
(* Giving a charge back.                                                   *)

LEMMA GotoStep ==
  ASSUME TaskInv, RowKept, NEW p \in Workers, KernelKept({p}), w[p].pc \in Occupied,
         NEW x \in {"release", "refused", "reverse", "repartial"},
         x \in Compensating => w[p].pc \in Compensating,
         Goto(p, x)
  PROVE  TaskInv' /\ Once
<1> DEFINE l == [w[p] EXCEPT !.pc = x]
<1>1. Safe(l)
  BY SafeGoto, Zenon
<1>2. w' = [w EXCEPT ![p] = l]
  BY DEF Goto, Become
<1> HIDE DEF l
<1> QED
  BY <1>1, <1>2, SafeStep

\* A compensation that has ended lets the failure be recorded.
LEMMA MarkFailedStep ==
  ASSUME TaskInv, RowKept, NEW p \in Workers, KernelKept({p}),
         w[p].pc \in Compensating, w[p].within = "task",
         authz'[Occ(p)].state # "reserved", Goto(p, "mark")
  PROVE  TaskInv' /\ Once
<1> DEFINE l == [w[p] EXCEPT !.pc = "mark"]
<1>1. w[p].pc \in Occupied /\ Rules(p)
  BY DEF Compensating, Occupied, TaskInv
<1>2. w[p] \in Local /\ "mark" \in Places /\ Occ(p) \in Turns
  BY <1>1, Occupies DEF Places, Occupied, Occ
<1>3. l \in Local /\ l.pc = "mark" /\ l.outcome = "failed" /\ l.occ = Occ(p)
  BY <1>1, <1>2 DEF Local, Occ, Rules
<1>4. w' = [w EXCEPT ![p] = l]
  BY DEF Goto, Become
<1> HIDE DEF l
<1> QED
  BY <1>2, <1>3, <1>4, StepTo DEF BeforeProvider, WithTicket, Compensating

LEMMA SettlePartialStep ==
  ASSUME TaskInv, NEW p \in Workers, SettlePartial(p)
  PROVE  TaskInv' /\ Once
<1> DEFINE o == Occ(p)
<1>1. /\ w[p].pc \in {"partial", "repartial"} /\ w[p].pc \in Occupied /\ o \in Turns
      /\ w[p].pc \in Compensating
  BY Occupies DEF SettlePartial, Occupied, Compensating, Occ
<1>2. RowRenewed
  BY DEF SettlePartial, Fenced, NoWrite, RowUnchanged, rowVars, Attempt, RowRenewed
<1>3. RowKept
  BY <1>2, RenewedKept
<1>4. settlePartialOutputAuthorization(o) \/ UNCHANGED kernel
  BY DEF SettlePartial, Fenced, NoWrite, Attempt
<1>5. KernelKept({p})
  BY <1>1, <1>4, KernelMoved DEF KernelMoves
<1>6. \/ Fail(p) \/ Goto(p, "release") \/ Goto(p, "reverse")
      \/ /\ w[p].within = "task" /\ Goto(p, "mark")
         /\ \/ settlePartialOutputAuthorization(o)
            \/ authz[o].state = "settled" /\ UNCHANGED kernel
  <2>1. w[p].within \in {"task", "turn"}
    BY <1>1, Occupies DEF Local
  <2> QED
    BY <1>1, <2>1 DEF SettlePartial, Fenced, NoWrite, Attempt, At
<1>7. CASE Fail(p)
  BY <1>1, <1>3, <1>5, <1>7, FailStep
<1>8. CASE Goto(p, "release") \/ Goto(p, "reverse")
  BY <1>1, <1>3, <1>5, <1>8, GotoStep
<1>9. CASE /\ w[p].within = "task" /\ Goto(p, "mark")
           /\ \/ settlePartialOutputAuthorization(o)
              \/ authz[o].state = "settled" /\ UNCHANGED kernel
  <2>1. authz'[o].state # "reserved"
    <3>1. CASE settlePartialOutputAuthorization(o)
      BY <1>1, <3>1, KernelStep DEF TaskInv, KernelMoves, IsReserved
    <3>2. CASE authz[o].state = "settled" /\ UNCHANGED kernel
      BY <3>2 DEF kernel, vars
    <3> QED
      BY <1>9, <3>1, <3>2
  <2> QED
    BY <1>1, <1>3, <1>5, <1>9, <2>1, MarkFailedStep
<1> QED
  BY <1>6, <1>7, <1>8, <1>9

LEMMA ReverseChargeStep ==
  ASSUME TaskInv, NEW p \in Workers, ReverseCharge(p)
  PROVE  TaskInv' /\ Once
<1> DEFINE o == Occ(p)
           row(b) == [w[p] EXCEPT !.pc = "row", !.refunded = b]
           ended(b) == IF w[p].within = "turn" THEN Become(p, row(b))
                       ELSE Goto(p, IF b THEN "mark" ELSE "release")
<1>1. /\ w[p].pc = "reverse" /\ w[p].pc \in Occupied /\ o \in Turns
      /\ w[p].pc \in Compensating
  BY Occupies DEF ReverseCharge, At, Occupied, Compensating, Occ
<1>2. RowRenewed
  BY DEF ReverseCharge, Fenced, NoWrite, RowUnchanged, rowVars, Attempt, RowRenewed
<1>3. RowKept
  BY <1>2, RenewedKept
<1>4. reverseAtOnce(o, "reversed") \/ UNCHANGED kernel
  BY DEF ReverseCharge, Fenced, NoWrite, Attempt
<1>5. KernelKept({p})
  BY <1>1, <1>4, KernelMoved DEF KernelMoves, Refunded
<1>6. \/ ended(FALSE) \/ Goto(p, "repartial")
      \/ /\ ended(TRUE)
         /\ reverseAtOnce(o, "reversed") \/ (~IsReserved(o) /\ UNCHANGED kernel)
  BY DEF ReverseCharge, Fenced, NoWrite, Attempt
<1>7. ASSUME NEW b \in BOOLEAN, Become(p, row(b)) PROVE TaskInv' /\ Once
  <2> DEFINE l == row(b)
  <2>1. w[p] \in Local /\ "row" \in Places
    BY <1>1, Occupies DEF Places, Occupied
  <2>2. l \in Local /\ l.occ = o /\ l.pc = "row"
    BY <2>1 DEF Local, Occ
  <2>3. w' = [w EXCEPT ![p] = l]
    BY <1>7 DEF Become
  <2> HIDE DEF l
  <2>4. Safe(l)
    BY <1>1, <2>2 DEF Safe, BeforeProvider, WithTicket, Compensating
  <2> QED
    BY <1>3, <1>5, <2>3, <2>4, SafeStep
<1>8. CASE Goto(p, "release") \/ Goto(p, "repartial")
  BY <1>1, <1>3, <1>5, <1>8, GotoStep
<1>9. CASE /\ w[p].within = "task" /\ Goto(p, "mark")
           /\ reverseAtOnce(o, "reversed") \/ (~IsReserved(o) /\ UNCHANGED kernel)
  <2>1. authz'[o].state # "reserved"
    <3>1. CASE reverseAtOnce(o, "reversed")
      BY <1>1, <3>1, KernelStep DEF TaskInv, KernelMoves, IsReserved, Refunded
    <3>2. CASE ~IsReserved(o) /\ UNCHANGED kernel
      BY <3>2 DEF kernel, vars, IsReserved
    <3> QED
      BY <1>9, <3>1, <3>2
  <2> QED
    BY <1>1, <1>3, <1>5, <1>9, <2>1, MarkFailedStep
<1>10. w[p].within \in {"task", "turn"}
  BY <1>1, Occupies DEF Local
<1>11. \/ \E b \in BOOLEAN : Become(p, row(b))
       \/ Goto(p, "release") \/ Goto(p, "repartial")
       \/ /\ w[p].within = "task" /\ Goto(p, "mark")
          /\ reverseAtOnce(o, "reversed") \/ (~IsReserved(o) /\ UNCHANGED kernel)
  <2> HIDE DEF row
  <2> QED  BY <1>6, <1>10
<1> HIDE DEF row
<1> QED
  BY <1>7, <1>8, <1>9, <1>11

LEMMA RecordErrorStep ==
  ASSUME TaskInv, NEW p \in Workers, RecordError(p)
  PROVE  TaskInv' /\ Once
<1>1. w[p].pc \in Occupied /\ Occ(p) \in Turns
  BY Occupies DEF RecordError, At, Occupied, Occ
<1>2. RowRenewed
  BY DEF RecordError, Fenced, NoWrite, RowUnchanged, rowVars, Attempt, RowRenewed
<1>3. RowKept
  BY <1>2, RenewedKept
<1>4. KernelKept({p})
  <2>1. KernelMoves(Occ(p))
    BY DEF RecordError, Fenced, NoWrite, Attempt, KernelMoves
  <2> QED  BY <1>1, <2>1, KernelMoved
<1>5. Fail(p) \/ TurnFails(p, FALSE)
  BY DEF RecordError, Fenced, NoWrite, Attempt
<1> QED
  BY <1>1, <1>3, <1>4, <1>5, FailStep, TurnFailsStep

-----------------------------------------------------------------------------
(* The evidence of an earlier attempt.                                     *)

Ending(p, x, r) ==
  [w[p] EXCEPT !.pc = IF x = "failed" THEN "partial" ELSE "mark",
               !.outcome = x, !.recovered = r, !.checked = TRUE]

\* Evidence ends the occurrence: what completed is paid, what failed is first
\* compensated.
LEMMA EndsStep ==
  ASSUME TaskInv, NEW p \in Workers, At(p, "evidence"), UNCHANGED kernel, RowUnchanged,
         NEW x \in {"ok", "failed", "quiet"}, NEW r \in BOOLEAN,
         x = "ok" => Paid(Occ(p)), Become(p, Ending(p, x, r))
  PROVE  TaskInv' /\ Once
<1> DEFINE l == Ending(p, x, r)
<1>1. w[p] \in Local /\ Occ(p) \in Turns
  BY Occupies DEF At, Occupied, Occ
<1>2. "mark" \in Places /\ "partial" \in Places
  BY DEF Places, Occupied
<1>3. /\ l \in Local /\ l.occ = Occ(p) /\ l.outcome = x
      /\ l.pc = (IF x = "failed" THEN "partial" ELSE "mark")
  BY <1>1, <1>2 DEF Local, Occ, Ending
<1>4. w' = [w EXCEPT ![p] = l]
  BY DEF Become
<1>5. RowKept /\ KernelKept({p}) /\ UNCHANGED <<authz, usage>>
  BY NoWriteKept DEF kernel, vars
<1> HIDE DEF l
<1> QED
  BY <1>1, <1>3, <1>4, <1>5, StepTo DEF BeforeProvider, WithTicket, Compensating, Paid, At

LEMMA EvidenceStep ==
  ASSUME TaskInv, NEW p \in Workers, Evidence(p)
  PROVE  TaskInv' /\ Once
<1>1. At(p, "evidence") /\ w[p].pc \in Occupied /\ Occ(p) \in Turns
  BY Occupies DEF Evidence, At, Occupied, Occ
<1>2. UNCHANGED kernel /\ RowUnchanged
  BY DEF Evidence, NoWrite
<1> DEFINE ends(x, r) == Become(p, Ending(p, x, r))
           said == IF usage[Occ(p)].status = "error" THEN "failed" ELSE "ok"
<1>3. \/ recoveredUsageOutcome(Occ(p)) /\ ends(said, TRUE)
      \/ ends("quiet", FALSE) \/ ends("failed", FALSE)
      \/ ~Debited(Occ(p)) /\ Goto(p, "reserve")
      \/ Fail(p)
  BY DEF Evidence, NoWrite, Ending
<1>4. CASE recoveredUsageOutcome(Occ(p)) /\ ends(said, TRUE)
  <2>1. said = "ok" => Paid(Occ(p))
    BY <1>1, <1>4 DEF recoveredUsageOutcome, TaskInv, SettledForWork, Paid
  <2>2. said \in {"ok", "failed", "quiet"}
    OBVIOUS
  <2> HIDE DEF said
  <2> QED
    BY <1>1, <1>2, <1>4, <2>1, <2>2, EndsStep
<1>5. CASE ends("quiet", FALSE)
  BY <1>1, <1>2, <1>5, EndsStep
<1>6. CASE ends("failed", FALSE)
  BY <1>1, <1>2, <1>6, EndsStep
<1>7. CASE ~Debited(Occ(p)) /\ Goto(p, "reserve")
  <2> DEFINE l == [w[p] EXCEPT !.pc = "reserve"]
  <2>1. l \in Local /\ l.pc = "reserve" /\ l.occ = Occ(p)
    BY DEF TaskInv, TaskTypes, Local, Places, Occupied, Occ
  <2>2. w' = [w EXCEPT ![p] = l]
    BY <1>7 DEF Goto, Become
  <2>3. authz[Occ(p)].state = "none" /\ authz' = authz
    BY <1>1, <1>2, <1>7, DebitedIsFunded DEF TaskInv, Funded, kernel, vars
  <2>4. RowKept /\ KernelKept({p})
    BY <1>2, NoWriteKept
  <2> HIDE DEF l
  <2> QED
    BY <1>1, <2>1, <2>2, <2>3, <2>4, StepTo DEF Compensating, WithTicket
<1>8. CASE Fail(p)
  BY <1>1, <1>2, <1>8, LeaveStep
<1> HIDE DEF ends
<1> QED
  BY <1>3, <1>4, <1>5, <1>6, <1>7, <1>8

-----------------------------------------------------------------------------
(* The schedule, the reapers and the owner.                                *)

\* A worker picks an occurrence and is to claim it.
LEMMA PickStep ==
  ASSUME TaskInv, NEW p \in Workers, UNCHANGED kernel, RowUnchanged,
         NEW l \in Local, l.pc \in {"claim", "missed"}, l.pc = "claim" => l.occ \in Turns,
         Become(p, l)
  PROVE  TaskInv' /\ Once
<1>1. Safe(l)
  BY DEF Safe, Occupied, BeforeProvider, WithTicket, Compensating
<1> QED
  BY <1>1, NoWriteKept, SafeStep DEF Become

LEMMA RecoveringOK ==
  ASSUME TaskInv, IsRecoveryPending
  PROVE  /\ Recovering \in Local /\ [Recovering EXCEPT !.route = TRUE] \in Local
         /\ Recovering.pc = "claim" /\ Recovering.occ \in Turns
<1> DEFINE o == task.pend
           b == task.status = "paused"
<1>1. o \in Turns
  BY DEF IsRecoveryPending, TaskInv, TaskTypes, TaskRow
<1>2. b \in BOOLEAN
  OBVIOUS
<1>3. Recovering = [Idle EXCEPT !.pc = "claim", !.occ = o, !.recovery = TRUE, !.paused = b]
  BY DEF Recovering
<1> HIDE DEF o, b
<1>4. Recovering = [pc |-> "claim", occ |-> o, due |-> NoInstant, once |-> FALSE,
         route |-> FALSE, recovery |-> TRUE, paused |-> b,
         within |-> "task", report |-> FALSE, refunded |-> FALSE,
         recovered |-> FALSE, checked |-> FALSE, cap |-> FALSE, outcome |-> "failed"]
  BY <1>3 DEF Idle
<1>5. Recovering \in Local /\ Recovering.pc = "claim" /\ Recovering.occ \in Turns
  BY <1>1, <1>2, <1>4 DEF Local, Places, Occupied, NoInstant
<1> HIDE DEF Recovering
<1> QED
  BY <1>5 DEF Local

LEMMA FireDueStep ==
  ASSUME TaskInv, NEW p \in Workers, FireDue(p)
  PROVE  TaskInv' /\ Once
<1>1. UNCHANGED kernel /\ RowUnchanged
  BY DEF FireDue, NoWrite
<1>2. task \in TaskRow /\ task.next \in Instants /\ task.next \in Nat
  BY Constants DEF TaskInv, TaskTypes, TaskRow, FireDue
<1>3. DueAt[task.next] \in Turns /\ task.once \in BOOLEAN
  BY <1>2, Constants DEF TaskRow
<1> DEFINE o == DueAt[task.next]
           n == task.next
           b == task.once
<1>4. \/ Become(p, [Idle EXCEPT !.pc = "claim", !.occ = o, !.due = n])
      \/ Become(p, [Idle EXCEPT !.pc = "missed", !.due = n, !.once = b])
  BY DEF FireDue, NoWrite
<1>5. o \in Turns /\ n \in Nat /\ b \in BOOLEAN
  BY <1>2, <1>3
<1> HIDE DEF o, n, b
<1> DEFINE l == [Idle EXCEPT !.pc = "claim", !.occ = o, !.due = n]
           m == [Idle EXCEPT !.pc = "missed", !.due = n, !.once = b]
<1>6. Idle \in Local
  BY DEF Idle, Local, Places, NoInstant
<1>7. "claim" \in Places /\ "missed" \in Places
  BY DEF Places, Occupied
<1>8. l \in Local /\ l.pc = "claim" /\ l.occ \in Turns
  BY <1>5, <1>6, <1>7 DEF Local
<1>9. m \in Local /\ m.pc = "missed"
  BY <1>5, <1>6, <1>7 DEF Local
<1> HIDE DEF l, m
<1>10. Become(p, l) \/ Become(p, m)
  BY <1>4 DEF l, m
<1> QED
  BY <1>1, <1>8, <1>9, <1>10, PickStep

LEMMA RecoverDueStep ==
  ASSUME TaskInv, NEW p \in Workers, RecoverDue(p)
  PROVE  TaskInv' /\ Once
BY RecoveringOK, PickStep DEF RecoverDue, NoWrite

LEMMA RunNowStep ==
  ASSUME TaskInv, NEW p \in Workers, NEW o \in Manual, RunNow(p, o)
  PROVE  TaskInv' /\ Once
<1> DEFINE l == [Idle EXCEPT !.pc = "claim", !.occ = o, !.route = TRUE]
           m == [Recovering EXCEPT !.route = TRUE]
<1>1. UNCHANGED kernel /\ RowUnchanged /\ (Become(p, l) \/ (IsRecoveryPending /\ Become(p, m)))
  BY DEF RunNow, NoWrite
<1>2. Idle \in Local /\ "claim" \in Places /\ o \in Turns
  BY DEF Idle, Local, Places, Occupied, NoInstant, Manual
<1>3. l \in Local /\ l.pc = "claim" /\ l.occ \in Turns
  BY <1>2 DEF Local
<1>4. IsRecoveryPending => m \in Local /\ m.pc = "claim" /\ m.occ \in Turns
  <2> SUFFICES ASSUME IsRecoveryPending PROVE m \in Local /\ m.pc = "claim" /\ m.occ \in Turns
    OBVIOUS
  <2>1. /\ Recovering \in Local /\ m \in Local
        /\ Recovering.pc = "claim" /\ Recovering.occ \in Turns
    BY RecoveringOK
  <2> HIDE DEF Recovering
  <2> QED  BY <2>1 DEF Local
<1> HIDE DEF l, m
<1> QED
  BY <1>1, <1>3, <1>4, PickStep

\* The rows that a schedule's end, its next instant or its pause write.
SameRun(row) == row \in TaskRow /\ row.pend = task.pend /\ row.claim = task.claim

LEMMA StampedOK ==
  ASSUME TaskInv, NEW b \in BOOLEAN
  PROVE  SameRun(Stamped(b)) /\ SameRun([Stamped(b) EXCEPT !.error = "failed"])
<1>1. /\ task \in TaskRow /\ task.errors + 1 \in Nat
      /\ NextInstant \in {NoInstant} \cup Instants /\ NoInstant \in {NoInstant} \cup Instants
  BY Constants DEF TaskInv, TaskTypes, TaskRow
<1> DEFINE n == NextInstant
           e == task.errors + 1
           q == [task EXCEPT !.status = "finished", !.next = NoInstant, !.stale = FALSE]
           r == [task EXCEPT !.next = n, !.stale = FALSE]
           s == [task EXCEPT !.status = "paused", !.next = NoInstant, !.error = "failed",
                             !.errors = e, !.stale = FALSE]
<1>2. Stamped(b) = q \/ Stamped(b) = r \/ Stamped(b) = s
  BY DEF Stamped
<1> HIDE DEF n, e, NextInstant
<1>3. SameRun(q) /\ q.error \in {"none", "failed"} \cup Markers
  BY <1>1 DEF SameRun, TaskRow
<1>4. SameRun(r)
  BY <1>1 DEF SameRun, TaskRow, n
<1>5. SameRun(s)
  BY <1>1 DEF SameRun, TaskRow, e
<1> HIDE DEF q, r, s
<1>6. SameRun(Stamped(b))
  BY <1>2, <1>3, <1>4, <1>5
<1> HIDE DEF Stamped
<1>7. SameRun([Stamped(b) EXCEPT !.error = "failed"])
  BY <1>6 DEF SameRun, TaskRow
<1> QED
  BY <1>6, <1>7

\* A write of the schedule, after which the worker ends or looks at the streak.
LEMMA ScheduleStep ==
  ASSUME TaskInv, NEW p \in Workers, NEW row, SameRun(row), task' = row \/ task' = task,
         UNCHANGED <<kernel, now, edits, removing, held, outcomes, spent, notified>>,
         Return(p) \/ Goto(p, "streak")
  PROVE  TaskInv' /\ Once
<1>1. task \in TaskRow /\ now \in Instants /\ removing \in Nat \cup {NotRemoving}
  BY DEF TaskInv, TaskTypes
<1>2. RowKept
  BY <1>1 DEF RowKept, SameRun
<1>3. KernelKept({p})
  BY KernelSame
<1> DEFINE l == [w[p] EXCEPT !.pc = "streak"]
<1>4. l \in Local /\ l.pc = "streak"
  BY DEF TaskInv, TaskTypes, Local, Places, Occupied
<1>5. w' = [w EXCEPT ![p] = Idle] \/ w' = [w EXCEPT ![p] = l]
  BY DEF Return, Goto, Become
<1> HIDE DEF l
<1>6. Safe(l) /\ Safe(Idle)
  BY <1>4, SafeEnd DEF Safe, Occupied, BeforeProvider, WithTicket, Compensating
<1> QED
  BY <1>2, <1>3, <1>5, <1>6, SafeStep

LEMMA AfterStep ==
  ASSUME TaskInv, NEW p \in Workers,
         stampNextRun(p) \/ maybeAutoPause(p) \/ autoPauseForCap(p) \/ skipMissedFire(p)
  PROVE  TaskInv' /\ Once
<1>1. task \in TaskRow /\ w[p].once \in BOOLEAN /\ task.once \in BOOLEAN
  <2>1. w[p] \in Local /\ task \in TaskRow
    BY DEF TaskInv, TaskTypes
  <2> QED  BY <2>1 DEF Local, TaskRow
<1> DEFINE paused == [task EXCEPT !.status = "paused", !.error = "failed", !.stale = FALSE]
           capped == [task EXCEPT !.status = "paused", !.next = NoInstant,
                                  !.error = "failed", !.stale = FALSE]
<1>2. SameRun(paused)
  BY <1>1 DEF SameRun, TaskRow
<1>3. SameRun(capped)
  BY <1>1 DEF SameRun, TaskRow
<1> HIDE DEF Stamped
<1>4. CASE stampNextRun(p)
  <2>1. /\ task' = Stamped(task.once) \/ task' = task
        /\ UNCHANGED <<kernel, now, edits, removing, held, outcomes, spent, notified>>
        /\ Return(p) \/ Goto(p, "streak")
    BY <1>4 DEF stampNextRun, ScheduleCall, RowCall, Attempt, ActiveOnly
  <2> QED
    BY <1>1, <2>1, StampedOK, ScheduleStep
<1>5. CASE maybeAutoPause(p)
  <2>1. /\ task' = paused \/ task' = task
        /\ UNCHANGED <<kernel, now, edits, removing, held, outcomes, spent, notified>>
        /\ Return(p)
    BY <1>5 DEF maybeAutoPause, ScheduleCall, RowCall, Attempt, ActiveOnly
  <2> HIDE DEF paused
  <2> QED
    BY <1>2, <2>1, ScheduleStep
<1>6. CASE autoPauseForCap(p)
  <2>1. /\ task' = capped \/ task' = task
        /\ UNCHANGED <<kernel, now, edits, removing, held, outcomes, spent, notified>>
        /\ Return(p)
    BY <1>6 DEF autoPauseForCap, ScheduleCall, RowCall, Attempt, ActiveOnly
  <2> HIDE DEF capped
  <2> QED
    BY <1>3, <2>1, ScheduleStep
<1>7. CASE skipMissedFire(p)
  <2> DEFINE row == [Stamped(w[p].once) EXCEPT !.error = "failed"]
  <2>1. /\ task' = row \/ task' = task
        /\ UNCHANGED <<kernel, now, edits, removing, held, outcomes, spent, notified>>
        /\ Return(p)
    BY <1>7 DEF skipMissedFire, ScheduleCall, RowCall, Attempt, ActiveOnly
  <2>2. SameRun(row)
    BY <1>1, StampedOK, Zenon
  <2> HIDE DEF row
  <2> QED
    BY <2>1, <2>2, ScheduleStep
<1> QED
  BY <1>4, <1>5, <1>6, <1>7

LEMMA CrashStep ==
  ASSUME TaskInv, NEW p \in Workers, Crash(p)
  PROVE  TaskInv' /\ Once
BY LeaveStep DEF Crash

\* Nobody's step.
LEMMA StillStep ==
  ASSUME TaskInv, RowKept, KernelKept({}), UNCHANGED w
  PROVE  TaskInv' /\ Once
BY Frame DEF TaskInv, TaskTypes

LEMMA ReapersStep ==
  ASSUME TaskInv,
         Age \/ reapStaleRunning \/ Tick \/ \E o \in Turns : ReapReservation(o)
  PROVE  TaskInv' /\ Once
<1>1. task \in TaskRow /\ now \in Instants /\ removing \in Nat \cup {NotRemoving}
  BY DEF TaskInv, TaskTypes
<1>2. CASE Age
  <2>1. RowKept
    BY <1>1, <1>2 DEF Age, RowStep, RowKept, TaskRow
  <2> QED
    BY <1>2, <2>1, KernelSame, StillStep DEF Age, RowStep
<1>3. CASE reapStaleRunning
  <2> DEFINE e == IF task.pend # NoOne THEN "stale recovery" ELSE "failed"
             row == [task EXCEPT !.status = "paused", !.next = NoInstant, !.stale = FALSE,
                                 !.error = e, !.claim = NoOne]
  <2>1. e \in {"none", "failed"} \cup Markers
    BY DEF Markers
  <2>2. task' = row
    BY <1>3 DEF reapStaleRunning, RowStep
  <2> HIDE DEF e
  <2>3. row \in TaskRow /\ row.pend = task.pend /\ row.claim = NoOne
    BY <1>1, <2>1 DEF TaskRow
  <2> HIDE DEF row
  <2>4. /\ spent' = spent \cup {o \in Turns : task.pend = o /\ Debited(o)}
        /\ UNCHANGED <<kernel, now, removing, outcomes, notified, w>>
    BY <1>3 DEF reapStaleRunning, RowStep
  <2>6. \A o \in spent' : o \in spent \/ (o \in Turns /\ Funded(o))
    BY <2>4, DebitedIsFunded DEF TaskInv
  <2>5. RowKept
    BY <1>1, <2>2, <2>3, <2>4, <2>6 DEF RowKept
  <2> QED
    BY <2>4, <2>5, KernelSame, StillStep
<1>4. CASE Tick
  <2>1. /\ RowKept /\ UNCHANGED <<kernel, w>>
    BY <1>1, <1>4, Constants DEF Tick, RowKept
  <2> QED
    BY <2>1, KernelSame, StillStep
<1>5. ASSUME NEW o \in Turns, ReapReservation(o)
      PROVE  TaskInv' /\ Once
  <2>1. KernelMoves(o) /\ RowUnchanged /\ UNCHANGED w
    BY <1>5 DEF ReapReservation, KernelMoves, Refunded
  <2>2. RowKept
    BY <1>1, <2>1 DEF RowUnchanged, rowVars, RowKept
  <2> QED
    BY <2>1, <2>2, KernelMoved, StillStep
<1> QED
  BY <1>2, <1>3, <1>4, <1>5

LEMMA OwnerStep ==
  ASSUME TaskInv, Pause \/ EditSchedule \/ DeleteTask \/ ensureGatewayJobRemoved
  PROVE  TaskInv' /\ Once
<1>1. /\ task \in TaskRow /\ now \in Instants /\ removing \in Nat \cup {NotRemoving}
      /\ NextInstant \in {NoInstant} \cup Instants
  BY Constants DEF TaskInv, TaskTypes
<1> DEFINE Writes(row) ==
      /\ task' = row /\ UNCHANGED <<kernel, now, w, outcomes, spent, notified>>
      /\ removing' = row.errors \/ removing' = NotRemoving
<1>2. ASSUME NEW row, SameRun(row), Writes(row) PROVE TaskInv' /\ Once
  <2>1. RowKept
    BY <1>1, <1>2 DEF RowKept, SameRun, TaskRow
  <2> QED
    BY <1>2, <2>1, KernelSame, StillStep
<1>3. CASE Pause
  <2> DEFINE row == [task EXCEPT !.status = "paused", !.next = NoInstant, !.stale = FALSE]
  <2>1. SameRun(row) /\ Writes(row)
    BY <1>1, <1>3 DEF SameRun, TaskRow, Pause, Patch
  <2> HIDE DEF row, Writes
  <2> QED  BY <1>2, <2>1
<1> DEFINE edited(b, k) == [task EXCEPT !.status = "active", !.once = b, !.next = k,
                                        !.stale = FALSE]
<1>4. ASSUME NEW b \in BOOLEAN, NEW k \in Instants, Writes(edited(b, k))
      PROVE  TaskInv' /\ Once
  <2> DEFINE row == edited(b, k)
  <2>1. SameRun(row) /\ Writes(row)
    BY <1>1, <1>4 DEF SameRun, TaskRow
  <2> HIDE DEF row, Writes
  <2> QED  BY <1>2, <2>1
<1>5. CASE EditSchedule
  <2> DEFINE n == NextInstant
  <2>1. CASE NextInstant # NoInstant /\ Patch([task EXCEPT !.status = "active",
                    !.once = FALSE, !.next = NextInstant, !.stale = FALSE], FALSE)
    <3>1. Writes(edited(FALSE, n)) /\ n # NoInstant
      BY <2>1 DEF Patch
    <3>2. n \in Instants
      BY <1>1, <2>1
    <3> HIDE DEF n, edited, Writes
    <3> QED  BY <1>4, <3>1, <3>2
  <2>2. ASSUME NEW k \in Instants,
               Patch([task EXCEPT !.status = "active", !.once = TRUE, !.next = k,
                                  !.stale = FALSE], FALSE)
        PROVE  TaskInv' /\ Once
    <3>1. Writes(edited(TRUE, k))
      BY <2>2 DEF Patch
    <3> HIDE DEF edited, Writes
    <3> QED  BY <1>4, <3>1
  <2> QED
    BY <1>5, <2>1, <2>2, Zenon DEF EditSchedule
<1>6. CASE DeleteTask
  <2> DEFINE row == [task EXCEPT !.deleted = TRUE, !.status = "finished",
                                 !.next = NoInstant, !.stale = FALSE]
  <2>1. SameRun(row) /\ Writes(row)
    BY <1>1, <1>6 DEF SameRun, TaskRow, DeleteTask, Patch
  <2> HIDE DEF row, Writes
  <2> QED  BY <1>2, <2>1
<1>7. CASE ensureGatewayJobRemoved
  <2> DEFINE n == removing + 1
             row == [task EXCEPT !.error = "failed", !.errors = n, !.stale = FALSE]
             cleared == [task EXCEPT !.stale = FALSE]
  <2>1. n \in Nat
    BY <1>1, <1>7 DEF ensureGatewayJobRemoved
  <2>2. /\ task' = row \/ task' = cleared
        /\ removing' = NotRemoving
        /\ UNCHANGED <<kernel, now, w, outcomes, spent, notified>>
    BY <1>7 DEF ensureGatewayJobRemoved
  <2> HIDE DEF n
  <2>3. SameRun(row) /\ SameRun(cleared)
    BY <1>1, <2>1 DEF SameRun, TaskRow
  <2> HIDE DEF row, cleared
  <2>4. RowKept
    BY <1>1, <2>2, <2>3 DEF RowKept, SameRun
  <2> QED
    BY <2>2, <2>4, KernelSame, StillStep
<1> QED
  BY <1>3, <1>5, <1>6, <1>7

-----------------------------------------------------------------------------
(* The steps that claim, record and release an occurrence.                 *)

\* A call that throws, before or after its commit.
LEMMA ThrowStep ==
  ASSUME TaskInv, RowKept, NEW p \in Workers, KernelKept({p}), w[p].pc \in Occupied,
         Return(p) \/ RunThrows(p) \/ Fail(p)
  PROVE  TaskInv' /\ Once
<1>1. Fail(p) \/ Return(p) \/ Become(p, [Idle EXCEPT !.pc = "stamp"])
  BY DEF RunThrows
<1> QED
  BY <1>1, FailStep, SafeEnd, SafeStep DEF Return, Become

LEMMA ReleaseForRetryStep ==
  ASSUME TaskInv, NEW p \in Workers, ReleaseForRetry(p)
  PROVE  TaskInv' /\ Once
<1>1. /\ w[p].pc \in Occupied /\ Holds(p) /\ task \in TaskRow /\ now \in Instants
      /\ removing \in Nat \cup {NotRemoving}
  BY DEF ReleaseForRetry, At, Occupied, TaskInv, TaskTypes
<1>2. UNCHANGED <<kernel, now, removing>> /\ (Return(p) \/ RunThrows(p) \/ Fail(p))
  BY DEF ReleaseForRetry, RowCall, Attempt
<1>7. Occ(p) \in Turns
  BY Occupies, <1>1 DEF Occ
<1> DEFINE s == StatusAfterRun(p)
           e == "refund pending"
           row == [task EXCEPT !.status = s, !.error = e,
                               !.claim = NoOne, !.stale = FALSE]
<1>3. \/ UNCHANGED <<task, outcomes, spent, notified>>
      \/ /\ task' = row /\ UNCHANGED <<outcomes, notified>>
         /\ spent' = IF Debited(Occ(p)) THEN spent \cup {Occ(p)} ELSE spent
  BY DEF ReleaseForRetry, RowCall, Attempt
<1>4. s \in {"active", "paused"} /\ e \in {"none", "failed"} \cup Markers
  BY DEF StatusAfterRun, Markers
<1> HIDE DEF s, e
<1>5. row \in TaskRow /\ row.pend = task.pend /\ row.claim = NoOne
  BY <1>1, <1>4 DEF TaskRow
<1> HIDE DEF row
<1>6. RowKept
  <2>1. \A o \in spent' : o \in spent \/ (o \in Turns /\ Funded(o))
    BY <1>3, <1>7, DebitedIsFunded DEF TaskInv
  <2> QED
    BY <1>1, <1>2, <1>3, <1>5, <2>1 DEF RowKept, Holds
<1> QED
  BY <1>1, <1>2, <1>6, KernelSame, ThrowStep

\* The row is claimed: every other worker has lost it.
LEMMA ClaimedStep ==
  ASSUME TaskInv, NEW p \in Workers, At(p, "claim"), Claimable(p), UNCHANGED kernel,
         task' \in TaskRow, task'.pend = Occ(p), task'.claim = p,
         UNCHANGED <<now, removing, outcomes, spent, notified>>,
         NEW l \in Local, w' = [w EXCEPT ![p] = l],
         Safe(l) \/ (l.pc = "evidence" /\ l.occ = Occ(p))
  PROVE  TaskInv' /\ Once
<1>1. /\ TaskTypes /\ Recorded /\ \A q \in Workers : Rules(q)
      /\ Occ(p) \in Turns /\ task \in TaskRow
  BY Occupies DEF TaskInv, TaskTypes, At, Occupied, Occ
<1>2. /\ w' \in [Workers -> Local] /\ w'[p] = l
      /\ \A q \in Workers \ {p} : w'[q] = w[q]
  BY <1>1 DEF TaskTypes
<1>3. UNCHANGED <<authz, run, usage>> /\ IInv' /\ SettledForWork'
  BY KernelSame DEF kernel, vars, KernelKept
<1>4. TaskTypes'
  BY <1>1, <1>2 DEF TaskTypes
<1>5. task.pend = NoOne \/ task.pend = Occ(p)
  BY DEF Claimable
<1>7. ASSUME NEW q \in Workers \ {p} PROVE Rules(q)'
  <2>1. ~Mine(q)'
    BY DEF Mine
  <2>2. Rules(q) /\ w'[q] = w[q]
    BY <1>1, <1>2
  <2> QED
    BY <1>3, <2>1, <2>2 DEF Rules, Occ, At, Paid, Funded
<1>8. Rules(p)'
  BY <1>1, <1>2
     DEF Rules, Occ, At, Safe, Occupied, BeforeProvider, WithTicket, Compensating
<1>9. Recorded'
  <2>1. \A o \in spent' : o \in Turns /\ Funded(o)'
    BY <1>1, <1>3 DEF Recorded, Funded
  <2>2. ASSUME NEW o \in Turns, outcomes'[o] = "failed", task'.pend # o
        PROVE  ~IsReserved(o)'
    BY <1>1, <1>3, <1>5, <2>2, Constants DEF Recorded, IsReserved
  <2>3. \A o \in notified' : Paid(o)'
    BY <1>1, <1>3 DEF Recorded, Paid
  <2> QED
    BY <2>1, <2>2, <2>3 DEF Recorded
<1>10. Once
  <2>1. task'.pend # NoOne
    BY <1>1, Constants
  <2>2. ~\E q \in Workers : At(q, "provider") /\ w'[q].pc = "stream"
    BY <1>2 DEF At, Safe
  <2> QED
    BY <2>1, <2>2 DEF Once
<1> QED
  BY <1>3, <1>4, <1>7, <1>8, <1>9, <1>10 DEF TaskInv

LEMMA ClaimOccurrenceStep ==
  ASSUME TaskInv, NEW p \in Workers, ClaimOccurrence(p)
  PROVE  TaskInv' /\ Once
<1>1. /\ At(p, "claim") /\ w[p].pc \in Occupied /\ Occ(p) \in Turns
      /\ task \in TaskRow /\ w[p] \in Local
  BY Occupies DEF ClaimOccurrence, At, Occupied, Occ, TaskInv, TaskTypes
<1> DEFINE o == Occ(p)
           row == [task EXCEPT !.status = "running", !.error = "none",
                               !.pend = o, !.claim = p, !.stale = FALSE]
           l == [w[p] EXCEPT !.pc = "evidence", !.due = NoInstant]
<1>2. UNCHANGED kernel
  BY DEF ClaimOccurrence, RowCall, NoWrite
<1>3. \/ (Return(p) \/ RunThrows(p)) /\ RowUnchanged
      \/ /\ Claimable(p) /\ task' = row
         /\ UNCHANGED <<now, removing, outcomes, spent, notified>>
         /\ Become(p, l) \/ RunThrows(p)
  BY DEF ClaimOccurrence, RowCall, NoWrite, Attempt, RowUnchanged, rowVars
<1>4. CASE (Return(p) \/ RunThrows(p)) /\ RowUnchanged
  BY <1>2, <1>4, LeaveStep
<1>5. CASE /\ Claimable(p) /\ task' = row
           /\ UNCHANGED <<now, removing, outcomes, spent, notified>>
           /\ Become(p, l) \/ RunThrows(p)
  <2>1. l \in Local /\ l.pc = "evidence" /\ l.occ = Occ(p)
    <3>1. "evidence" \in Places
      BY DEF Places, Occupied
    <3> QED
      BY <1>1, <3>1 DEF Local, Occ, NoInstant
  <2>2. Become(p, l) \/ Become(p, Idle) \/ Become(p, [Idle EXCEPT !.pc = "stamp"])
    BY <1>5 DEF RunThrows, Return
  <2> HIDE DEF l, o
  <2>3. row \in TaskRow /\ row.pend = o /\ row.claim = p
    BY <1>1 DEF TaskRow, o
  <2> HIDE DEF row
  <2>4. task' \in TaskRow /\ task'.pend = Occ(p) /\ task'.claim = p
    BY <1>5, <2>3 DEF o
  <2> DEFINE m == [Idle EXCEPT !.pc = "stamp"]
  <2>5. Safe(Idle) /\ Safe(m) /\ Idle \in Local /\ m \in Local
    BY SafeEnd DEF Safe
  <2> HIDE DEF m
  <2>6. w' = [w EXCEPT ![p] = l] \/ w' = [w EXCEPT ![p] = Idle] \/ w' = [w EXCEPT ![p] = m]
    BY <2>2 DEF Become, m
  <2> QED
    BY <1>1, <1>2, <1>5, <2>1, <2>4, <2>5, <2>6, ClaimedStep
<1> QED
  BY <1>3, <1>4, <1>5

\* The outcome is recorded: a failure holds no reservation, a completion is
\* settled, and the streak of a checkpoint that stood already stays.
LEMMA MarkedStep ==
  ASSUME TaskInv, NEW p \in Workers, At(p, "mark"), markTaskOutcome(p),
         UNCHANGED <<kernel, now, removing>>,
         NEW l, Safe(l), w' = [w EXCEPT ![p] = l]
  PROVE  TaskInv' /\ Once
<1>1. /\ TaskTypes /\ Recorded /\ \A q \in Workers : Rules(q)
      /\ Occ(p) \in Turns /\ w[p] \in Local /\ task \in TaskRow /\ Mine(p)
      /\ l \in Local
  BY Occupies, HoldsMine DEF TaskInv, TaskTypes, At, Occupied, Occ, markTaskOutcome, Safe
<1>2. /\ w' \in [Workers -> Local] /\ w'[p] = l
      /\ \A q \in Workers \ {p} : w'[q] = w[q]
  BY <1>1 DEF TaskTypes
<1>3. UNCHANGED <<authz, run, usage>> /\ IInv' /\ SettledForWork'
  BY KernelSame DEF kernel, vars, KernelKept
<1> DEFINE x == w[p].outcome
           st == StatusAfterRun(p)
           last == Checkpoint(p)
           err == IF x = "failed" THEN "failed" ELSE "none"
           n == IF x # "failed" THEN 0
                ELSE IF CountsFailure(p) THEN task.errors + 1 ELSE task.errors
           row == [task EXCEPT !.status = st, !.last = last, !.error = err, !.errors = n,
                               !.pend = NoOne, !.claim = NoOne, !.stale = FALSE]
<1>4. /\ x \in {"ok", "failed", "quiet"} /\ st \in {"active", "paused"} /\ last \in Nat
      /\ err \in {"none", "failed"} /\ n \in Nat
  <2>1. x \in {"ok", "failed", "quiet"} /\ task.errors \in Nat /\ task.last \in Nat
    BY <1>1 DEF Local, TaskRow
  <2>2. st \in {"active", "paused"} /\ err \in {"none", "failed"}
    BY DEF StatusAfterRun
  <2>3. last \in Nat
    BY <1>1, <2>1, Constants DEF Checkpoint
  <2> QED
    BY <2>1, <2>2, <2>3
<1>5. task' = row
  BY DEF markTaskOutcome
<1>6. /\ outcomes' = [outcomes EXCEPT ![Occ(p)] = x]
      /\ spent' = spent
      /\ notified' = IF x = "ok" THEN notified \cup {Occ(p)} ELSE notified
  BY DEF markTaskOutcome
<1>7. n <= task.errors \/ (x = "failed" /\ CountsFailure(p))
  <2>1. task.errors \in Nat
    BY <1>1 DEF TaskRow
  <2> QED
    BY <2>1
<1> HIDE DEF x, st, last, err, n
<1>8. /\ row \in TaskRow /\ row.pend = NoOne /\ row.claim = NoOne /\ row.errors = n
  BY <1>1, <1>4 DEF TaskRow
<1> HIDE DEF row
<1>9. TaskTypes'
  BY <1>1, <1>2, <1>4, <1>5, <1>6, <1>8 DEF TaskTypes
<1>10. ASSUME NEW q \in Workers PROVE Rules(q)'
  <2>1. ~Mine(q)'
    BY <1>5, <1>8, Constants DEF Mine
  <2>2. CASE q = p
    BY <1>2, <2>1, <2>2 DEF Rules, Occ, At, Safe, BeforeProvider, WithTicket
  <2>3. CASE q # p
    <3>1. Rules(q) /\ w'[q] = w[q]
      BY <1>1, <1>2, <2>3
    <3> QED
      BY <1>3, <2>1, <3>1 DEF Rules, Occ, At, Paid, Funded
  <2> QED
    BY <2>2, <2>3
<1>11. Recorded'
  <2>1. \A o \in spent' : o \in Turns /\ Funded(o)'
    BY <1>1, <1>3, <1>6 DEF Recorded, Funded
  <2>2. ASSUME NEW o \in Turns, outcomes'[o] = "failed", task'.pend # o
        PROVE  ~IsReserved(o)'
    <3>1. CASE o = Occ(p)
      <4>1. x = "failed"
        BY <1>1, <1>6, <2>2, <3>1 DEF TaskTypes
      <4>2. ~IsReserved(o)
        BY <1>1, <3>1, <4>1 DEF Rules, x
      <4> QED
        BY <1>3, <4>2 DEF IsReserved
    <3>2. CASE o # Occ(p)
      <4>1. outcomes[o] = "failed" /\ task.pend # o
        BY <1>1, <1>6, <2>2, <3>2 DEF TaskTypes, Mine
      <4> QED
        BY <1>1, <1>3, <4>1 DEF Recorded, IsReserved
    <3> QED
      BY <3>1, <3>2
  <2>3. ASSUME NEW o \in notified' PROVE Paid(o)'
    <3>1. Paid(o)
      BY <1>1, <1>6, <2>3 DEF Recorded, Rules, x
    <3> QED
      BY <1>3, <3>1 DEF Paid
  <2> QED
    BY <2>1, <2>2, <2>3 DEF Recorded
<1>12. Once
  <2>1. ~\E q \in Workers : At(q, "provider") /\ w'[q].pc = "stream"
    BY <1>2 DEF At, Safe
  <2>2. ASSUME NEW o \in Scheduled, task.pend = o, task.last = InstantOf(o)
        PROVE  task'.errors <= task.errors
    <3>1. o = Occ(p) /\ o \notin Manual
      BY <1>1, <2>2 DEF Mine, Manual
    <3>2. ~CountsFailure(p)
      BY <2>2, <3>1 DEF CountsFailure, Checkpoint
    <3> QED
      BY <1>5, <1>7, <1>8, <3>2
  <2> QED
    BY <2>1, <2>2 DEF Once
<1> QED
  BY <1>3, <1>9, <1>10, <1>11, <1>12 DEF TaskInv

LEMMA RecordOutcomeStep ==
  ASSUME TaskInv, NEW p \in Workers, RecordOutcome(p)
  PROVE  TaskInv' /\ Once
<1>1. At(p, "mark") /\ w[p].pc \in Occupied
  BY DEF RecordOutcome, At, Occupied
<1>2. UNCHANGED <<kernel, now, removing>>
  BY DEF RecordOutcome, RowCall
<1>3. \/ RowUnchanged /\ (Fail(p) \/ RunThrows(p))
      \/ markTaskOutcome(p) /\ (AfterRun(p, w[p].cap) \/ Fail(p) \/ RunThrows(p))
  BY DEF RecordOutcome, RowCall, Attempt, RowUnchanged, rowVars
<1> DEFINE stamp == [Idle EXCEPT !.pc = "stamp"]
           after(x) == [Idle EXCEPT !.pc = x, !.outcome = w[p].outcome]
<1>4. CASE RowUnchanged /\ (Fail(p) \/ RunThrows(p))
  BY <1>1, <1>2, <1>4, LeaveStep
<1>5. CASE markTaskOutcome(p) /\ (AfterRun(p, w[p].cap) \/ Fail(p) \/ RunThrows(p))
  <2>1. AfterRun(p, w[p].cap) =>
          Become(p, Idle) \/ Become(p, after("cap")) \/ Become(p, after("stamp"))
    <3>1. CASE w[p].route \/ Occ(p) \in Manual
      BY <3>1 DEF AfterRun, Return
    <3>2. CASE ~(w[p].route \/ Occ(p) \in Manual)
      <4>1. CASE w[p].cap
        BY <3>2, <4>1 DEF AfterRun
      <4>2. CASE ~w[p].cap
        BY <3>2, <4>2 DEF AfterRun
      <4> QED  BY <4>1, <4>2
    <3> QED  BY <3>1, <3>2
  <2>2. RunThrows(p) => Become(p, Idle) \/ Become(p, stamp)
    BY DEF RunThrows, Return
  <2>3. Fail(p) => Become(p, Failing(p))
    BY DEF Fail
  <2>4. Safe(Idle) /\ Safe(stamp) /\ Safe(Failing(p))
    BY <1>1, SafeEnd, SafeFail
  <2>5. Safe(after("cap")) /\ Safe(after("stamp"))
    BY SafeAfterRun, Zenon
  <2> HIDE DEF stamp, after
  <2>6. \E l : Safe(l) /\ w' = [w EXCEPT ![p] = l]
    BY <1>5, <2>1, <2>2, <2>3, <2>4, <2>5 DEF Become
  <2> QED
    BY <1>1, <1>2, <1>5, <2>6, MarkedStep
<1> QED
  BY <1>3, <1>4, <1>5

-----------------------------------------------------------------------------
(* The theorems.                                                           *)

LEMMA TaskInitInv ==
  TaskInit => TaskInv
<1> SUFFICES ASSUME TaskInit PROVE TaskInv
  OBVIOUS
<1>1. Owner \in Accounts /\ Purchase \in Ops \ Turns /\ Funds \in Nat \ {0}
  BY TasksAssumption DEF Owner
<1>7. IInv
  BY <1>1, FundedIInv DEF TaskInit
<1>8. SettledForWork
  BY DEF TaskInit, NoTurns, SettledForWork
<1>9. Idle \in Local
  BY DEF Idle, Local, Places, NoInstant
<1>10. TaskTypes
  <2>1. task \in TaskRow
    BY Constants DEF TaskInit, TaskRow, NoInstant, Instants
  <2>2. now \in Instants
    BY Constants DEF TaskInit
  <2> QED
    BY <1>9, <2>1, <2>2 DEF TaskInit, TaskTypes, NotRemoving
<1>11. \A p \in Workers : Rules(p)
  BY DEF TaskInit, Rules, Idle, Occ, At, Occupied, WithTicket, Compensating
<1>12. Recorded
  BY DEF TaskInit, Recorded
<1> QED
  BY <1>7, <1>8, <1>10, <1>11, <1>12 DEF TaskInv

LEMMA NextTaskInv ==
  TaskInv /\ [TaskNext]_taskVars => TaskInv' /\ Once
<1> SUFFICES ASSUME TaskInv, [TaskNext]_taskVars PROVE TaskInv' /\ Once
  OBVIOUS
<1>1. ASSUME NEW p \in Workers, WorkerStep(p) PROVE TaskInv' /\ Once
  <2>1. CASE \/ ClaimOccurrence(p) \/ Evidence(p) \/ LoadFails(p) \/ ReserveTurn(p)
             \/ RecordRefusal(p) \/ ClaimTicket(p)
    BY <2>1, ClaimOccurrenceStep, EvidenceStep, TurnFailedStep, ReserveTurnStep,
       RecordRefusalStep, ClaimTicketStep
  <2>2. CASE \/ CallProvider(p) \/ FirstToken(p) \/ TurnFailed(p)
             \/ \E c \in Amounts \cup {0} : TurnCompleted(p, c)
    BY <2>2, CallProviderStep, FirstTokenStep, TurnFailedStep, TurnCompletedStep
  <2>3. CASE \/ ClaimLost(p) \/ SettlePartial(p) \/ ReverseCharge(p) \/ RecordError(p)
    BY <2>3, ClaimLostStep, SettlePartialStep, ReverseChargeStep, RecordErrorStep
  <2>4. CASE RecordOutcome(p) \/ ReleaseForRetry(p)
    BY <2>4, RecordOutcomeStep, ReleaseForRetryStep
  <2>5. CASE stampNextRun(p) \/ maybeAutoPause(p) \/ autoPauseForCap(p) \/ skipMissedFire(p)
    BY <2>5, AfterStep
  <2> QED
    BY <1>1, <2>1, <2>2, <2>3, <2>4, <2>5 DEF WorkerStep
<1>2. ASSUME NEW p \in Workers,
             FireDue(p) \/ RecoverDue(p) \/ Crash(p) \/ \E o \in Manual : RunNow(p, o)
      PROVE  TaskInv' /\ Once
  BY <1>2, FireDueStep, RecoverDueStep, CrashStep, RunNowStep
<1>3. CASE Age \/ reapStaleRunning \/ Tick \/ \E o \in Turns : ReapReservation(o)
  BY <1>3, ReapersStep
<1>4. CASE Pause \/ EditSchedule \/ DeleteTask \/ ensureGatewayJobRemoved
  BY <1>4, OwnerStep
<1>5. CASE UNCHANGED taskVars
  <2>1. UNCHANGED kernel /\ RowUnchanged /\ UNCHANGED w
    BY <1>5 DEF taskVars, RowUnchanged
  <2> QED
    BY <2>1, NoWriteKept, StillStep
<1> QED
  BY <1>1, <1>2, <1>3, <1>4, <1>5 DEF TaskNext

LEMMA TaskInductive ==
  TaskSpec => []TaskInv
<1>1. TaskInv /\ [TaskNext]_taskVars => TaskInv'
  BY NextTaskInv
<1> QED
  BY TaskInitInv, <1>1, PTL DEF TaskSpec

\* A failed occurrence holds no reservation and a charge it kept is for output,
\* whoever recorded it; the owner is told of settled completions only.
THEOREM OutcomesArePaidThm ==
  TaskSpec => []OutcomesArePaid
<1>1. TaskInv => OutcomesArePaid
  <2> SUFFICES ASSUME TaskInv PROVE OutcomesArePaid
    OBVIOUS
  <2>1. Recorded /\ SettledForWork /\ authz \in [Turns -> Authorization]
    BY DEF TaskInv, IInv, TypeOK
  <2>2. ASSUME NEW o \in Turns, outcomes[o] = "failed", task.pend # o
        PROVE  \/ authz[o].state \in {"none"} \cup Refunded
               \/ /\ authz[o].state = "settled"
                  /\ run[o] = "output" \/ usage[o].status = "completed"
    <3>1. authz[o].state # "reserved"
      BY <2>1, <2>2 DEF Recorded, IsReserved
    <3>2. authz[o].state \in {"none", "reserved", "settled"} \cup Refunded
      BY <2>1 DEF Authorization, Terminal, Refunded
    <3> QED
      BY <2>1, <3>1, <3>2 DEF SettledForWork
  <2> QED
    BY <2>1, <2>2 DEF OutcomesArePaid, Recorded, Paid
<1> QED
  BY TaskInductive, <1>1, PTL

\* However often an occurrence is fired, lost, quarantined and claimed again, by
\* recoveries or by a firing that read the row earlier, its prompt leaves once at
\* most, and never after it was marked for compensation behind its debit; and no
\* due instant lengthens the streak twice.
THEOREM NothingTwiceThm ==
  TaskSpec => NothingTwice
<1>1. TaskInv /\ [TaskNext]_taskVars => [Once]_taskVars
  BY NextTaskInv
<1>2. [Once]_taskVars => [/\ \A p \in Workers :
                               At(p, "provider") /\ w'[p].pc = "stream" => Occ(p) \notin spent
                          /\ \A o \in Scheduled :
                               task.pend = o /\ task'.pend = NoOne /\ task.last = InstantOf(o)
                                 => task'.errors <= task.errors]_taskVars
  BY DEF Once
<1> QED
  BY TaskInductive, <1>1, <1>2, PTL DEF TaskSpec, NothingTwice
=============================================================================
