--------------------------- MODULE ScheduledTasks ---------------------------
(***************************************************************************)
(* Scheduled tasks: one task's row in triggers, the scheduler that fires   *)
(* and recovers it (apps/api/src/services/task-scheduler.ts), the runner   *)
(* of one occurrence (scheduled-tasks.ts, and runClaimedTurn of turns.ts   *)
(* for a turn with a source) and the owner's route (routes/triggers.ts),   *)
(* on top of the authorization kernel.  The turn id of an occurrence is    *)
(* the occurrence's id.                                                    *)
(*                                                                         *)
(* A worker is one call of processDue or of POST /:id/runs.  A claim's     *)
(* UUID is named by the worker that holds it: a worker that has lost its   *)
(* claim claims again only in a later call.  updatedAt is one bit, older   *)
(* than the 45 minutes of reapStaleRunning; instants are due instants.     *)
(* The preflight fences before a fenced transaction are part of it, since  *)
(* it repeats them.  A fenced reversal keeps the row of triggers locked    *)
(* while it waits, so it is one step here; ChatTurns splits it.            *)
(***************************************************************************)
EXTENDS TurnAuthorization, DatabaseCalls, Sequences

CONSTANTS
  Workers,      \* processes' schedulers and manual requests
  NoOne,        \* no claim, no occurrence
  DueAt,        \* the occurrence of each due instant of a recurring schedule
  Funds,        \* what the payer holds at first, bought under Purchase
  Purchase,
  MaxFailures,  \* TASK_MAX_CONSECUTIVE_FAILURES
  MaxEdits,     \* bound: the owner's PATCHes
  GatewayFails  \* TRUE: removing a leftover gateway job may fail

ASSUME TasksAssumption ==
  /\ \E a \in Accounts : \A o \in Turns : Payer[o] = a
  /\ DueAt \in Seq(Turns) \ {<<>>} /\ Funds \in Nat \ {0} /\ Purchase \in Ops \ Turns
  /\ NoOne \notin Turns \cup Workers /\ MaxFailures \in Nat /\ MaxEdits \in Nat
  /\ GatewayFails \in BOOLEAN

VARIABLES
  task,       \* the row of triggers
  w,          \* the local state of each worker
  now,        \* the last due instant that has come
  edits,      \* the owner's PATCHes so far
  removing,   \* an ensureGatewayJobRemoved that runs, with its errorCount
  outcomes,   \* history: what markTaskOutcome last recorded of each occurrence
  spent,      \* history: occurrences whose prompt has left, or that were marked
              \* for compensation after their debit
  notified,   \* app_notifications of kind scheduled_task_completed
  held        \* history: the owner's last word is to pause

kernel == vars
rowVars == <<task, now, edits, removing, held>>
taskVars == <<kernel, faults, rowVars, w, outcomes, spent, notified>>

Instants == DOMAIN DueAt
Scheduled == {DueAt[k] : k \in Instants}
Manual == Turns \ Scheduled
NoInstant == 0
ManualInstant == Len(DueAt) + 1    \* the clock's time of a manual run
NotRemoving == -1
Markers == {"refund pending", "stale recovery"}

InstantOf(o) ==
  IF o \in Manual THEN ManualInstant ELSE CHOOSE k \in Instants : DueAt[k] = o

\* nextOccurrence: the first instant after now, if the schedule has one.
NextInstant == IF now < Len(DueAt) THEN now + 1 ELSE NoInstant

Owner == CHOOSE a \in Accounts : \A o \in Turns : Payer[o] = a

Idle == [pc |-> "idle", occ |-> NoOne, due |-> NoInstant, once |-> FALSE,
         route |-> FALSE, recovery |-> FALSE, paused |-> FALSE,
         within |-> "task", report |-> FALSE, refunded |-> FALSE,
         recovered |-> FALSE, checked |-> FALSE, cap |-> FALSE, outcome |-> "failed"]

TaskInit ==
  /\ ledger = credit(EmptyLedger, Owner, Funds, Purchase, FALSE)
  /\ NoTurns
  /\ \E once \in BOOLEAN :
       task = [status |-> "active", deleted |-> FALSE, once |-> once, next |-> 1,
               last |-> NoInstant, error |-> "none", errors |-> 0,
               pend |-> NoOne, claim |-> NoOne, stale |-> FALSE]
  /\ w = [p \in Workers |-> Idle]
  /\ now = 1 /\ edits = 0 /\ removing = NotRemoving /\ faults = 0
  /\ outcomes = [o \in Turns |-> "none"]
  /\ spent = {} /\ notified = {} /\ held = FALSE

-----------------------------------------------------------------------------
(* Steps of a worker.                                                      *)

At(p, pc) == w[p].pc = pc
Occ(p) == w[p].occ
Become(p, local) == w' = [w EXCEPT ![p] = local]
Goto(p, pc) == Become(p, [w[p] EXCEPT !.pc = pc])
Return(p) == Become(p, Idle)

RowUnchanged == UNCHANGED <<rowVars, outcomes, spent, notified>>
NoWrite(next) == UNCHANGED <<kernel, faults>> /\ RowUnchanged /\ next

\* A statement on the row of triggers.
RowCall(write, done, thrown) ==
  /\ Attempt(write, UNCHANGED <<task, outcomes, spent, notified>>, done, thrown)
  /\ UNCHANGED <<kernel, now, edits, removing, held>>

Debited(o) == Applied(ledger, OpKey(o))

\* Mutant: the fence asks for the occurrence and not for the claim.
HoldsOccurrence(p) ==
  /\ task.status \in {"running", "paused"} /\ ~task.deleted
  /\ task.pend = Occ(p)

\* The claim of p is still the row's.
Holds(p) ==
  /\ task.status \in {"running", "paused"} /\ ~task.deleted
  /\ task.pend = Occ(p) /\ task.claim = p

\* A transaction that begins by renewing the lease.
Fenced(p, tx, done, thrown) ==
  /\ Holds(p)
  /\ Attempt(tx /\ task' = [task EXCEPT !.stale = FALSE],
             UNCHANGED <<kernel, task>>, done, thrown)
  /\ UNCHANGED <<now, edits, removing, held, outcomes, spent, notified>>

\* The fence of a superseded claim refuses: TurnClaimLostError, to be retried.
ClaimLost(p) ==
  /\ w[p].pc \in {"reserve", "ticket", "provider", "stream", "partial", "repartial",
                  "reverse", "row", "mark", "release"}
  /\ ~Holds(p)
  /\ NoWrite(Return(p))

\* The occurrence fails; refundScheduledFailure gives its charge back first.
Failing(p) ==
  [w[p] EXCEPT !.pc = "partial", !.within = "task", !.outcome = "failed",
               !.recovered = FALSE, !.checked = FALSE, !.report = FALSE, !.refunded = FALSE]
Fail(p) == Become(p, Failing(p))

\* The provider turn fails; reverseTurn gives its charge back first.
TurnFails(p, reports) ==
  Become(p, [w[p] EXCEPT !.pc = "partial", !.within = "turn", !.report = reports])

\* runScheduledTask has ended; a manual occurrence moves no schedule.
AfterRun(p, cap) ==
  IF w[p].route \/ Occ(p) \in Manual THEN Return(p)
  ELSE Become(p, [Idle EXCEPT !.pc = IF cap THEN "cap" ELSE "stamp",
                              !.outcome = w[p].outcome])
RunThrows(p) ==
  IF w[p].route \/ (w[p].recovery /\ Occ(p) \in Manual) THEN Return(p)
  ELSE Become(p, [Idle EXCEPT !.pc = "stamp"])

-----------------------------------------------------------------------------
(* Picking an occurrence.                                                  *)

IsRecoveryPending == task.pend # NoOne /\ task.error \in Markers

\* The query of tick.  An occurrence may have come longer ago than the grace.
FireDue(p) ==
  /\ At(p, "idle")
  /\ task.status = "active" /\ ~task.deleted /\ task.pend = NoOne
  /\ task.next # NoInstant /\ task.next <= now
  /\ \/ NoWrite(Become(p, [Idle EXCEPT !.pc = "claim", !.occ = DueAt[task.next],
                                       !.due = task.next]))
     \/ task.next < now /\ NoWrite(Become(p, [Idle EXCEPT !.pc = "missed",
                                                !.due = task.next, !.once = task.once]))

Recovering ==
  [Idle EXCEPT !.pc = "claim", !.occ = task.pend, !.recovery = TRUE,
               !.paused = (task.status = "paused")]

\* Mutant: the recovery does not look at paused rows.
RecoverActive(p) ==
  /\ At(p, "idle")
  /\ task.status = "active" /\ ~task.deleted /\ IsRecoveryPending
  /\ NoWrite(Become(p, Recovering))

\* The query of recoveryTick.
RecoverDue(p) ==
  /\ At(p, "idle")
  /\ task.status \in {"active", "paused"} /\ ~task.deleted /\ IsRecoveryPending
  /\ NoWrite(Become(p, Recovering))

\* POST /:id/runs.  Bound: a request is not sent again once it has its outcome.
RunNow(p, o) ==
  /\ At(p, "idle") /\ ~task.deleted /\ outcomes[o] = "none"
  /\ \/ /\ task.status = "active" /\ task.pend = NoOne
        /\ NoWrite(Become(p, [Idle EXCEPT !.pc = "claim", !.occ = o, !.route = TRUE]))
     \/ /\ task.status \in {"active", "paused"} /\ IsRecoveryPending
        /\ NoWrite(Become(p, [Recovering EXCEPT !.route = TRUE]))

\* The marker on an active row is for those who read it with the snapshot; on
\* a paused row a firing that read the row before the marker claims it as well.
Claimable(p) ==
  /\ ~task.deleted
  /\ \/ /\ task.status = "paused" \/ (task.status = "active" /\ w[p].recovery)
        /\ task.pend = Occ(p) /\ task.error \in Markers
     \/ /\ ~w[p].recovery /\ task.status = "active" /\ task.pend = NoOne
        /\ w[p].due # NoInstant => task.next = w[p].due

\* The claim clears lastError, also a recovery marker.
ClaimOccurrence(p) ==
  /\ At(p, "claim")
  /\ \/ /\ Claimable(p)
        /\ RowCall(/\ task' = [task EXCEPT !.status = "running", !.error = "none",
                                           !.pend = Occ(p), !.claim = p, !.stale = FALSE]
                   /\ UNCHANGED <<outcomes, spent, notified>>,
                   Become(p, [w[p] EXCEPT !.pc = "evidence", !.due = NoInstant]),
                   RunThrows(p))
     \/ ~Claimable(p) /\ NoWrite(Return(p))

-----------------------------------------------------------------------------
(* What is known of the occurrence.                                        *)

\* Only a terminal row ends the occurrence with what it says.
recoveredUsageOutcome(o) == usage[o].status \in {"completed", "error"}

\* recoveredUsageOutcome, the checkpoint in lastRunTime, an earlier debit, the
\* marker: each ends the occurrence without its provider.
Evidence(p) ==
  LET said == IF usage[Occ(p)].status = "error" THEN "failed" ELSE "ok"
      ends(outcome, recovered) ==
        NoWrite(Become(p, [w[p] EXCEPT !.pc = IF outcome = "failed" THEN "partial" ELSE "mark",
                                       !.outcome = outcome, !.recovered = recovered,
                                       !.checked = TRUE]))
  IN /\ At(p, "evidence")
     /\ \/ recoveredUsageOutcome(Occ(p)) /\ ends(said, TRUE)
        \/ /\ ~recoveredUsageOutcome(Occ(p))
           /\ IF Occ(p) \in Scheduled /\ task.last = InstantOf(Occ(p))
              THEN ends("quiet", FALSE)
              ELSE \/ /\ Debited(Occ(p)) \/ w[p].recovery
                      /\ ends("failed", FALSE)
                   \/ /\ ~Debited(Occ(p)) /\ ~w[p].recovery
                      /\ NoWrite(Goto(p, "reserve"))
        \/ Fault /\ UNCHANGED kernel /\ RowUnchanged /\ Fail(p)

-----------------------------------------------------------------------------
(* The turn.                                                               *)

\* A missing prompt, owner, agent or session ends the run before its debit.
LoadFails(p) == At(p, "reserve") /\ NoWrite(Fail(p))

ReserveTurn(p) ==
  /\ At(p, "reserve") /\ Holds(p)
  /\ \/ Fenced(p, reserveAuthorization(Occ(p)), Goto(p, "ticket"), Fail(p))
     \/ NoWrite(Become(p, [w[p] EXCEPT !.pc = "refused", !.cap = TRUE]))

\* The row of a reservation that a cap refused; losing it is tolerated.
RecordRefusal(p) ==
  /\ At(p, "refused") /\ RowUnchanged
  /\ \/ Attempt(recordUsageEvent(Occ(p), 0), UNCHANGED kernel, Fail(p), Fail(p))
     \/ usage[Occ(p)].status # "none" /\ UNCHANGED <<kernel, faults>> /\ Fail(p)

ClaimTicket(p) ==
  /\ At(p, "ticket") /\ Holds(p)
  /\ \/ Fenced(p, claimTurnProviderStart(Occ(p)), Goto(p, "provider"), Fail(p))
     \/ /\ ~IsReserved(Occ(p)) \/ usage[Occ(p)].status # "none"
        /\ NoWrite(Fail(p))

\* The fence renews the lease and the prompt leaves: what takes a worker from
\* the one to the other is no match for the lease.
CallProvider(p) ==
  /\ At(p, "provider") /\ Holds(p)
  /\ \/ /\ task' = [task EXCEPT !.stale = FALSE]
        /\ spent' = spent \cup {Occ(p)}
        /\ Goto(p, "stream")
        /\ UNCHANGED <<kernel, faults, now, edits, removing, held, outcomes, notified>>
     \/ /\ Fault /\ UNCHANGED kernel /\ RowUnchanged
        /\ Fail(p) \/ TurnFails(p, FALSE)

FirstToken(p) ==
  /\ At(p, "stream") /\ Holds(p) /\ run[Occ(p)] # "output"
  /\ \/ Fenced(p, markTurnUsableOutput(Occ(p)), UNCHANGED w, TurnFails(p, FALSE))
     \/ ~IsReserved(Occ(p)) /\ NoWrite(TurnFails(p, FALSE))

TurnCompleted(p, charge) ==
  /\ At(p, "stream") /\ Holds(p) /\ charge <= Max[Occ(p)]
  /\ \/ Fenced(p, settleTerminal(Occ(p), charge),
               Become(p, [w[p] EXCEPT !.pc = "mark", !.outcome = "ok"]),
               TurnFails(p, TRUE))
     \/ ~IsReserved(Occ(p)) /\ NoWrite(TurnFails(p, TRUE))

\* An error event, a stream that ends or an empty completion is reported; an
\* exception is internal.
TurnFailed(p) ==
  /\ At(p, "stream")
  /\ \E reports \in BOOLEAN : NoWrite(TurnFails(p, reports))

-----------------------------------------------------------------------------
(* reverseTurn and refundScheduledFailure.                                 *)

\* settlePartialOutputAuthorization throws on a usage row that says otherwise.
ConflictingUsage(o) ==
  /\ IsReserved(o)
  /\ usage[o].status # "provider_admitted"
  /\ usage[o] # [status |-> "error", manna |-> Max[o]]

\* A charge that is kept or given back lets the run record its failure.
SettlePartial(p) ==
  LET o == Occ(p)
      settled == IF w[p].within = "turn" THEN Fail(p) ELSE Goto(p, "mark")
      failed == IF w[p].within = "task" THEN Goto(p, "release")
                ELSE IF At(p, "partial") THEN Goto(p, "reverse") ELSE Fail(p)
  IN /\ w[p].pc \in {"partial", "repartial"} /\ Holds(p)
     /\ \/ Fenced(p, settlePartialOutputAuthorization(o), settled, failed)
        \/ run[o] = "output" /\ authz[o].state = "settled" /\ NoWrite(settled)
        \/ run[o] = "output" /\ ConflictingUsage(o) /\ NoWrite(failed)
        \/ /\ run[o] # "output" \/ authz[o].state \in Refunded
           /\ NoWrite(IF At(p, "partial") THEN Goto(p, "reverse") ELSE failed)

\* Without an authorization row the refunds of the legacy keys find nothing.
ReverseCharge(p) ==
  LET o == Occ(p)
      ended(refunded) ==
        IF w[p].within = "turn"
        THEN Become(p, [w[p] EXCEPT !.pc = "row", !.refunded = refunded])
        ELSE Goto(p, IF refunded THEN "mark" ELSE "release")
  IN /\ At(p, "reverse") /\ Holds(p)
     /\ \/ Fenced(p, reverseAtOnce(o, "reversed"), ended(TRUE), ended(FALSE))
        \/ ~IsReserved(o) /\ NoWrite(ended(TRUE))
        \/ IsReserved(o) /\ run[o] = "output" /\ NoWrite(Goto(p, "repartial"))

\* The strict error row of a failed turn; a report that throws is repeated as
\* an internal error.
RecordError(p) ==
  LET o == Occ(p)
      charge == IF w[p].report /\ ~w[p].refunded THEN Max[o] ELSE 0
      thrown == IF w[p].report THEN TurnFails(p, FALSE) ELSE Fail(p)
  IN /\ At(p, "row") /\ Holds(p)
     /\ \/ Fenced(p, recordUsageEvent(o, charge), Fail(p), thrown)
        \/ usage[o].status \in {"completed", "error"} /\ NoWrite(thrown)

-----------------------------------------------------------------------------
(* Recording the outcome.                                                  *)

StatusAfterRun(p) ==
  IF task.status = "paused" \/ w[p].paused THEN "paused" ELSE "active"

Checkpoint(p) ==
  IF Occ(p) \in Manual /\ w[p].recovered /\ task.last # NoInstant THEN task.last
  ELSE InstantOf(Occ(p))

\* A failure adds to the streak unless it is at the checkpoint already; the
\* instant of a manual run is always new.
CountsFailure(p) ==
  \/ task.last # Checkpoint(p)
  \/ Occ(p) \in Manual /\ ~w[p].recovered

markTaskOutcome(p) ==
  LET failed == w[p].outcome = "failed" IN
  /\ Holds(p)
  /\ task' = [task EXCEPT
       !.status = StatusAfterRun(p),
       !.last = Checkpoint(p),
       !.error = IF failed THEN "failed" ELSE "none",
       !.errors = IF ~failed THEN 0 ELSE IF CountsFailure(p) THEN @ + 1 ELSE @,
       !.pend = NoOne, !.claim = NoOne, !.stale = FALSE]
  /\ outcomes' = [outcomes EXCEPT ![Occ(p)] = w[p].outcome]
  /\ notified' = IF w[p].outcome = "ok" THEN notified \cup {Occ(p)} ELSE notified
  /\ UNCHANGED spent

\* A throw while evidence is recorded fails the occurrence instead.
RecordOutcome(p) ==
  /\ At(p, "mark")
  /\ RowCall(markTaskOutcome(p), AfterRun(p, w[p].cap),
             IF w[p].checked THEN Fail(p) ELSE RunThrows(p))

\* releaseTaskForRefundRetry: the occurrence stays due for a recovery.
ReleaseForRetry(p) ==
  /\ At(p, "release") /\ Holds(p)
  /\ RowCall(/\ task' = [task EXCEPT !.status = StatusAfterRun(p),
                                     !.error = "refund pending",
                                     !.claim = NoOne, !.stale = FALSE]
             /\ spent' = IF Debited(Occ(p)) THEN spent \cup {Occ(p)} ELSE spent
             /\ UNCHANGED <<outcomes, notified>>,
             Return(p), IF w[p].checked THEN Fail(p) ELSE RunThrows(p))

-----------------------------------------------------------------------------
(* The schedule after a run.                                               *)

\* The follow-up of a schedule: it ends, goes on, or turns out invalid.
Stamped(once) ==
  CASE once -> [task EXCEPT !.status = "finished", !.next = NoInstant, !.stale = FALSE]
    [] ~once /\ NextInstant # NoInstant ->
         [task EXCEPT !.next = NextInstant, !.stale = FALSE]
    [] OTHER -> [task EXCEPT !.status = "paused", !.next = NoInstant, !.error = "failed",
                             !.errors = @ + 1, !.stale = FALSE]

ActiveOnly(row) == task' = IF task.status = "active" /\ ~task.deleted THEN row ELSE task

ScheduleCall(row, done, thrown) ==
  RowCall(ActiveOnly(row) /\ UNCHANGED <<outcomes, spent, notified>>, done, thrown)

stampNextRun(p) ==
  /\ At(p, "stamp")
  /\ ScheduleCall(Stamped(task.once),
                  IF w[p].outcome = "failed" THEN Goto(p, "streak") ELSE Return(p),
                  Return(p))

maybeAutoPause(p) ==
  /\ At(p, "streak")
  /\ ScheduleCall(IF MaxFailures > 0 /\ task.errors >= MaxFailures
                  THEN [task EXCEPT !.status = "paused", !.error = "failed", !.stale = FALSE]
                  ELSE task, Return(p), Return(p))

autoPauseForCap(p) ==
  /\ At(p, "cap")
  /\ ScheduleCall([task EXCEPT !.status = "paused", !.next = NoInstant,
                               !.error = "failed", !.stale = FALSE], Return(p), Return(p))

skipMissedFire(p) ==
  /\ At(p, "missed")
  /\ ScheduleCall(IF task.next = w[p].due
                  THEN [Stamped(w[p].once) EXCEPT !.error = "failed"] ELSE task,
                  Return(p), Return(p))

-----------------------------------------------------------------------------
(* Crashes, time, the reapers.                                             *)

Crash(p) ==
  /\ ~At(p, "idle")
  /\ Fault /\ UNCHANGED kernel /\ RowUnchanged /\ Return(p)

RowStep(row) ==
  /\ task' = row
  /\ UNCHANGED <<kernel, now, edits, removing, held, w, outcomes, notified>>

InFlight == task.status = "running" \/ (task.status = "paused" /\ task.claim # NoOne)

\* 45 minutes pass without a renewal.  Bound: it is a fault when the claim's
\* holder is still at work.
Age ==
  /\ InFlight /\ ~task.deleted /\ ~task.stale
  /\ IF \E p \in Workers : Holds(p) THEN Fault ELSE UNCHANGED faults
  /\ RowStep([task EXCEPT !.stale = TRUE]) /\ UNCHANGED spent

reapStaleRunning ==
  /\ InFlight /\ task.stale /\ ~task.deleted
  /\ RowStep([task EXCEPT !.status = "paused", !.next = NoInstant, !.stale = FALSE,
                          !.error = IF task.pend # NoOne THEN "stale recovery" ELSE "failed",
                          !.claim = NoOne])
  /\ spent' = spent \cup {o \in Turns : task.pend = o /\ Debited(o)}
  /\ UNCHANGED faults

\* The reaper of turn reservations, whose TTL also outlasts a live turn.
ReapReservation(o) ==
  /\ settlePartialOutputAuthorization(o) \/ reverseAtOnce(o, "reaped")
  /\ RowUnchanged /\ UNCHANGED <<faults, w>>

Tick ==
  /\ now < Len(DueAt) /\ now' = now + 1
  /\ UNCHANGED <<kernel, faults, task, edits, removing, held, w, outcomes, spent, notified>>

-----------------------------------------------------------------------------
(* The owner.                                                              *)

Patch(row, pauses) ==
  /\ edits < MaxEdits /\ ~task.deleted /\ removing = NotRemoving
  /\ edits' = edits + 1
  /\ task' = row
  /\ removing' = IF GatewayFails THEN row.errors ELSE NotRemoving
  /\ held' = pauses
  /\ UNCHANGED <<kernel, faults, now, w, outcomes, spent, notified>>

\* The one edit that is accepted while an occurrence is pending.
Pause ==
  Patch([task EXCEPT !.status = "paused", !.next = NoInstant, !.stale = FALSE], TRUE)

\* Resuming, and a new schedule: recurring, or once at a later instant.
EditSchedule ==
  /\ task.pend = NoOne
  /\ \/ NextInstant # NoInstant
        /\ Patch([task EXCEPT !.status = "active", !.once = FALSE,
                              !.next = NextInstant, !.stale = FALSE], FALSE)
     \/ \E k \in Instants :
          k > now /\ Patch([task EXCEPT !.status = "active", !.once = TRUE,
                                        !.next = k, !.stale = FALSE], FALSE)

DeleteTask ==
  /\ task.pend = NoOne
  /\ Patch([task EXCEPT !.deleted = TRUE, !.status = "finished",
                        !.next = NoInstant, !.stale = FALSE], FALSE)

\* A failure overwrites lastError, whatever the row says by now.
ensureGatewayJobRemoved ==
  /\ removing # NotRemoving /\ removing' = NotRemoving
  /\ \/ task' = [task EXCEPT !.stale = FALSE]
     \/ task' = [task EXCEPT !.error = "failed", !.errors = removing + 1, !.stale = FALSE]
  /\ UNCHANGED <<kernel, faults, now, edits, held, w, outcomes, spent, notified>>

-----------------------------------------------------------------------------

WorkerStep(p) ==
  \/ ClaimOccurrence(p) \/ Evidence(p) \/ LoadFails(p) \/ ReserveTurn(p) \/ RecordRefusal(p)
  \/ ClaimTicket(p) \/ CallProvider(p) \/ FirstToken(p) \/ TurnFailed(p)
  \/ \E c \in Amounts \cup {0} : TurnCompleted(p, c)
  \/ ClaimLost(p) \/ SettlePartial(p) \/ ReverseCharge(p) \/ RecordError(p)
  \/ RecordOutcome(p) \/ ReleaseForRetry(p)
  \/ stampNextRun(p) \/ maybeAutoPause(p) \/ autoPauseForCap(p) \/ skipMissedFire(p)

TaskNext ==
  \/ \E p \in Workers :
       \/ FireDue(p) \/ RecoverDue(p) \/ WorkerStep(p) \/ Crash(p)
       \/ \E o \in Manual : RunNow(p, o)
  \/ Age \/ reapStaleRunning \/ Tick
  \/ \E o \in Turns : ReapReservation(o)
  \/ Pause \/ EditSchedule \/ DeleteTask \/ ensureGatewayJobRemoved

\* Time passes, the recovery timer keeps firing and finds a process whose slot
\* for the task is free; the calls a worker waits for return or throw.
TaskFairness ==
  /\ WF_taskVars(Age) /\ WF_taskVars(reapStaleRunning)
  /\ WF_taskVars(\E p \in Workers : RecoverDue(p))
  /\ \A p \in Workers : WF_taskVars(WorkerStep(p))

TaskSpec == TaskInit /\ [][TaskNext]_taskVars /\ TaskFairness

-----------------------------------------------------------------------------
(* Properties.                                                             *)

\* refundScheduledFailure: "A scheduled failure is terminal only after both
\* possible charge legs are reversed".  Whoever recovers it and whatever the
\* superseded run still does, a failed occurrence holds no reservation, and a
\* charge it kept is one for output its owner has.  The owner is told only of
\* a completion that is settled and that nobody refunds later.
OutcomesArePaid ==
  /\ \A o \in Turns : outcomes[o] = "failed" /\ task.pend # o =>
       \/ authz[o].state \in {"none"} \cup Refunded
       \/ authz[o].state = "settled" /\ (run[o] = "output" \/ usage[o].status = "completed")
  /\ \A o \in notified : authz[o].state = "settled" /\ usage[o].status = "completed"

\* Double-fire safety, and a stale lease "cannot prove whether its provider call
\* landed": whoever claims, loses and recovers an occurrence, its prompt goes to
\* the provider at most once, and never once the occurrence was marked for
\* compensation after its debit.  "Recovering the same failure never increments
\* its streak twice": the streak grows by a run's outcome at most once for each
\* due instant.
NothingTwice ==
  [][/\ \A p \in Workers :
          At(p, "provider") /\ w'[p].pc = "stream" => Occ(p) \notin spent
     /\ \A o \in Scheduled :
          task.pend = o /\ task'.pend = NoOne /\ task.last = InstantOf(o)
            => task'.errors <= task.errors]_taskVars

\* reapStaleRunning: a stale row keeps its occurrence "and only
\* compensation/checkpoint recovery may reclaim it".
OnlyRecoveryReclaims ==
  [][\A p \in Workers :
       At(p, "claim") /\ w'[p].pc = "evidence" /\ task.error = "stale recovery"
         => w[p].recovery]_taskVars

\* A pending occurrence that no query returns any more: a later writer of
\* lastError has overwritten its marker, or a one-time schedule was finished.
Stranded ==
  /\ task.pend # NoOne /\ task.claim = NoOne
  /\ task.error \notin Markers \/ task.status = "finished"

\* releaseTaskForRefundRetry: "the occurrence remains due and will retry":
\* every occurrence that was claimed is recorded in the end, through crashes,
\* quarantine and refused refunds, unless it is stranded or its output is marked
\* and an error row of another amount is there, on which every settlement throws.
EveryOccurrenceEnds ==
  \A o \in Turns :
    task.pend = o ~> \/ task.pend # o \/ Stranded
                     \/ run[o] = "output" /\ ConflictingUsage(o)

\* runScheduledTask: "Every downstream decision uses the row serialized by the
\* claim, never the scheduler/route snapshot read before a concurrent edit": no
\* run that ends makes a task active that its owner has paused.
PauseHolds == held => task.status # "active"
=============================================================================
