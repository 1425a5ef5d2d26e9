---------------------------- MODULE MemoryDreams ----------------------------
(***************************************************************************)
(* Memory dreams of one agent (apps/api/src/services/memory-dreaming.ts):  *)
(* the nightly sweep, the claim of a run, its durable checkpoints, the     *)
(* metered turn of its provider (turns.ts, for a turn with a source), the  *)
(* files it writes and its recovery without a second call, on top of the   *)
(* authorization kernel.  The turn id of a run is the run's id.            *)
(*                                                                         *)
(* A dreamer is one call of MemoryDreamOrchestrator.run; a claim's UUID is *)
(* named by the dreamer that holds it, and a lapsed lease is a row without *)
(* holder.  A fenced reversal keeps the run's row locked while it waits,   *)
(* so it is one step here; ChatTurns splits it.  reverseTurn's attempts to *)
(* settle and to reverse are one step: only how they end matters.          *)
(***************************************************************************)
EXTENDS TurnAuthorization, DatabaseCalls

CONSTANTS
  Dreamers,    \* the API processes' sweeps
  NoDreamer,   \* no valid lease
  Funds,       \* what the agent's owner holds at first, bought under Purchase
  Purchase

ASSUME DreamsAssumption ==
  /\ \E a \in Accounts : \A r \in Turns : Payer[r] = a
  /\ Funds \in Nat \ {0} /\ Purchase \in Ops \ Turns /\ NoDreamer \notin Dreamers

VARIABLES
  sweep,       \* today's row of memory_dream_sweeps
  dream,       \* memory_dream_runs
  d,           \* the local state of each dreamer
  files,       \* which of a run's two dream files have its text
  malformed,   \* runs whose response is not in the envelope
  promotions,  \* history: native promotions of MEMORY.md by each run
  prompts      \* history: prompts of each run that went to the provider

rowsOfDreams == <<sweep, dream, files, malformed, promotions, prompts>>
ownDreamVars == <<rowsOfDreams, d>>
dreamVars == <<vars, faults, ownDreamVars>>

Live == {"running", "recovery_pending"}
NoSweep == [status |-> "none", holder |-> NoDreamer]
NoDream == [status |-> "none", phase |-> "none", provider |-> "not_started",
            holder |-> NoDreamer, today |-> FALSE]
Asleep == [pc |-> "idle", r |-> Purchase, recovery |-> FALSE, seen |-> "none",
           marked |-> FALSE, report |-> FALSE, refunded |-> FALSE, outcome |-> "none"]

FundedKernel ==
  /\ \E a \in Accounts :
       /\ \A r \in Turns : Payer[r] = a
       /\ ledger = credit(EmptyLedger, a, Funds, Purchase, FALSE)
  /\ NoTurns /\ faults = 0

NoDreams ==
  /\ sweep = NoSweep
  /\ dream = [r \in Turns |-> NoDream]
  /\ d = [p \in Dreamers |-> Asleep]
  /\ files = [r \in Turns |-> "none"]
  /\ malformed = {}
  /\ promotions = [r \in Turns |-> 0] /\ prompts = [r \in Turns |-> 0]

DreamInit == FundedKernel /\ NoDreams

-----------------------------------------------------------------------------
(* Steps of a dreamer.                                                     *)

Stands(p, pc) == d[p].pc = pc
Run(p) == d[p].r
DreamRow(p) == dream[Run(p)]
Continue(p, local) == d' = [d EXCEPT ![p] = local]
To(p, pc) == Continue(p, [d[p] EXCEPT !.pc = pc])
Sleep(p) == Continue(p, Asleep)

\* renewMemoryDreamRunClaim: the claim is this one, and its lease is valid.
HasClaim(p) == DreamRow(p).holder = p

\* Nothing is written.
Pass(next) == UNCHANGED <<vars, faults, rowsOfDreams>> /\ next

\* A fenced update of the run's row.
RunCall(p, row, done, thrown) ==
  /\ HasClaim(p)
  /\ Attempt(dream' = [dream EXCEPT ![Run(p)] = row], UNCHANGED dream, done, thrown)
  /\ UNCHANGED <<vars, sweep, files, malformed, promotions, prompts>>

saveCheckpoint(p, phase, provider, done, thrown) ==
  RunCall(p, [DreamRow(p) EXCEPT !.phase = phase, !.provider = provider], done, thrown)

\* A transaction of the kernel that begins with the claim's fence.
FundingCall(p, tx, done, thrown) ==
  HasClaim(p) /\ Attempt(tx, UNCHANGED vars, done, thrown) /\ UNCHANGED rowsOfDreams

\* How a run ends: with MemoryDreamRecoveryPendingError, with
\* MemoryDreamRecoveryResolvedError, or with any other error, which a
\* recovery leaves pending.
Ends(p, outcome) == Continue(p, [d[p] EXCEPT !.pc = "fail", !.outcome = outcome])
Pending(p) == Ends(p, "recovery_pending")
Resolved(p) == Ends(p, "error")
Throws(p) == IF d[p].recovery THEN Pending(p) ELSE Resolved(p)

\* The turn fails; reverseTurn gives its charge back first.
DreamFails(p, reports) ==
  Continue(p, [d[p] EXCEPT !.pc = "reverse", !.report = reports])

-----------------------------------------------------------------------------
(* The sweep.                                                              *)

Recoverable(r) ==
  \/ dream[r].status = "recovery_pending"
  \/ dream[r].status = "running" /\ dream[r].holder = NoDreamer

\* listCandidates and claimSweep.  An agent without activity is not selected,
\* unless a run of it waits for its recovery.
ClaimSweep(p) ==
  /\ Stands(p, "idle")
  /\ \/ sweep.status = "none"
     \/ sweep.status = "running" /\ sweep.holder = NoDreamer
     \/ sweep.status = "partial"
        /\ \E r \in Turns : dream[r].today /\ dream[r].status = "recovery_pending"
  /\ Attempt(sweep' = [status |-> "running", holder |-> p], UNCHANGED sweep,
             \/ To(p, "start")
             \/ ~(\E r \in Turns : Recoverable(r)) /\ To(p, "finish"),
             UNCHANGED d)
  /\ UNCHANGED <<vars, dream, files, malformed, promotions, prompts>>

\* The statement claims the agent's unfinished run or inserts one, which the
\* unique indexes refuse beside a live run or a second time in a sweep.
ClaimRun(p, r) ==
  dream' = [dream EXCEPT ![r] =
    IF Recoverable(r) THEN [@ EXCEPT !.status = "running", !.holder = p]
    ELSE [NoDream EXCEPT !.status = "running", !.holder = p, !.today = TRUE]]

Insertable(r) ==
  /\ dream[r].status = "none"
  /\ \A q \in Turns : dream[q].status \notin Live /\ ~dream[q].today

startRun(p) ==
  /\ Stands(p, "start")
  /\ \/ /\ sweep.holder = p
        /\ \E r \in Turns :
             /\ Recoverable(r) \/ Insertable(r)
             /\ Attempt(ClaimRun(p, r), UNCHANGED dream,
                        Continue(p, [Asleep EXCEPT !.pc = "inspect", !.r = r,
                                                   !.recovery = Recoverable(r)]),
                        Sleep(p))
        /\ UNCHANGED <<vars, sweep, files, malformed, promotions, prompts>>
     \/ /\ sweep.holder = p => \A r \in Turns : ~Recoverable(r) /\ ~Insertable(r)
        /\ Pass(To(p, "finish"))

\* The status follows the sweep's runs; a live one keeps the sweep resumable.
finishSweep(p) ==
  LET ran == {dream[r].status : r \in {q \in Turns : dream[q].today}}
      status == CASE "running" \in ran -> "running"
                  [] "running" \notin ran /\ ran \cap {"error", "recovery_pending"} # {} ->
                       "partial"
                  [] OTHER -> "done"
      holder == IF status = "running" THEN p ELSE NoDreamer
  IN /\ Stands(p, "finish") /\ Sleep(p)
     /\ IF sweep.holder = p
        THEN /\ Attempt(sweep' = [status |-> status, holder |-> holder],
                        UNCHANGED sweep, TRUE, TRUE)
             /\ UNCHANGED <<vars, dream, files, malformed, promotions, prompts>>
        ELSE UNCHANGED <<vars, faults, rowsOfDreams>>

-----------------------------------------------------------------------------
(* What is known of the run.                                               *)

\* Nothing short of a terminal completion, a settled prefix or no charge at
\* all lets a recovery leave the reservation alone.
Evidence(r) ==
  CASE usage[r].status = "completed" -> "completed"
    [] usage[r] = [status |-> "error", manna |-> Max[r]] /\ authz[r].state = "settled" ->
         "partial"
    [] OTHER -> IF Applied(ledger, OpKey(r)) THEN "charged" ELSE "free"

\* Mutant: a promotion that was begun is begun again.
RepeatedPhase(r) ==
  CASE dream[r].phase = "none" -> "seed"
    [] dream[r].phase \in {"seed_done", "deep_started"} -> "deep"
    [] OTHER -> "begin"

\* The step after the last checkpoint.
NextPhase(r) ==
  CASE dream[r].phase = "none" -> "seed"
    [] dream[r].phase = "seed_done" -> "deep"
    [] dream[r].phase = "deep_started" -> "freeze"
    [] dream[r].phase \in {"deep_done", "provider_started"} -> "begin"
    [] OTHER -> "none"

\* A usage row decides, then a debit, then what the caller says.
Inspected(p, otherwise) ==
  LET r == Run(p)
      sees(pc, what) == Pass(Continue(p, [d[p] EXCEPT !.pc = pc, !.seen = what]))
  IN \/ usage[r].status # "none" /\ sees("recover", Evidence(r))
     \/ /\ usage[r].status = "none" /\ Applied(ledger, OpKey(r))
        /\ sees("undo", "indeterminate")
     \/ usage[r].status = "none" /\ ~Applied(ledger, OpKey(r)) /\ Pass(otherwise)
     \/ Fault /\ UNCHANGED <<vars, rowsOfDreams>> /\ Throws(p)

\* Before any work: what is indeterminate is not replayed, and an agent that is
\* not eligible any more starts nothing.
InspectFirst(p) ==
  LET pc == NextPhase(Run(p)) IN
  /\ Stands(p, "inspect")
  /\ Inspected(p, CASE DreamRow(p).provider = "indeterminate" -> Resolved(p)
                    [] DreamRow(p).provider # "indeterminate" /\ pc = "none" -> Pending(p)
                    [] DreamRow(p).provider # "indeterminate" /\ pc = "freeze" -> To(p, pc)
                    [] OTHER -> To(p, pc) \/ Resolved(p))

\* After runTurn has returned, and after it has thrown.
InspectAgain(p) ==
  \/ Stands(p, "returned") /\ Inspected(p, Pending(p))
  \/ Stands(p, "thrown") /\ Inspected(p, Throws(p))

-----------------------------------------------------------------------------
(* Before the provider.                                                    *)

Freeze(p) ==
  /\ Stands(p, "freeze")
  /\ saveCheckpoint(p, DreamRow(p).phase, "indeterminate", Pending(p), Throws(p))

\* distillAgentMemory, with its checkpoint.
Seed(p) ==
  /\ Stands(p, "seed")
  /\ \/ saveCheckpoint(p, "seed_done", "not_started", To(p, "deep"), Throws(p))
     \/ Pass(To(p, "skip"))

BeginPromotion(p) ==
  /\ Stands(p, "deep")
  /\ saveCheckpoint(p, "deep_started", "not_started", To(p, "promote"), Throws(p))

\* promoteAgent cannot be undone, and no claim stands in its way.
Promote(p) ==
  /\ Stands(p, "promote")
  /\ \/ promotions' = [promotions EXCEPT ![Run(p)] = @ + 1] /\ To(p, "promoted")
        /\ UNCHANGED faults
     \/ /\ Fault /\ Throws(p)
        /\ \E n \in {0, 1} : promotions' = [promotions EXCEPT ![Run(p)] = @ + n]
  /\ UNCHANGED <<vars, sweep, dream, files, malformed, prompts>>

EndPromotion(p) ==
  /\ Stands(p, "promoted")
  /\ saveCheckpoint(p, "deep_done", "not_started", To(p, "begin"), Throws(p))

\* The checkpoint "commits before runTurn's debit and provider handoff".
BeginProvider(p) ==
  /\ Stands(p, "begin")
  /\ saveCheckpoint(p, "provider_started", "started", To(p, "reserve"), Throws(p))

-----------------------------------------------------------------------------
(* The turn.                                                               *)

\* A refusal by a cap counts as a fault, since a cap gives way in time.
ReserveDream(p) ==
  /\ Stands(p, "reserve")
  /\ \/ FundingCall(p, reserveAuthorization(Run(p)), To(p, "ticket"), To(p, "thrown"))
     \/ HasClaim(p) /\ Fault /\ UNCHANGED <<vars, rowsOfDreams>> /\ To(p, "refused")

\* The row of a refused reservation has no fence, but it is only inserted.
RecordRefused(p) ==
  /\ Stands(p, "refused") /\ To(p, "thrown") /\ UNCHANGED rowsOfDreams
  /\ IF usage[Run(p)].status = "none"
     THEN Attempt(recordUsageEvent(Run(p), 0), UNCHANGED vars, TRUE, TRUE)
     ELSE UNCHANGED <<vars, faults>>

ClaimDreamTicket(p) ==
  /\ Stands(p, "ticket") /\ HasClaim(p)
  /\ \/ FundingCall(p, claimTurnProviderStart(Run(p)), To(p, "provider"), To(p, "giveBack"))
     \/ ~IsReserved(Run(p)) /\ Pass(To(p, "thrown"))
     \/ usage[Run(p)].status # "none" /\ Pass(To(p, "giveBack"))

\* Before the stream a failure gives the reservation back and is thrown.
GiveBack(p) ==
  /\ Stands(p, "giveBack") /\ HasClaim(p)
  /\ \/ FundingCall(p, reverseAtOnce(Run(p), "reversed"), To(p, "thrown"), To(p, "thrown"))
     \/ ~IsReserved(Run(p)) /\ Pass(To(p, "thrown"))

\* beforeProvider renews the lease and the prompt leaves; what the provider
\* will answer is decided.
CallDreamProvider(p) ==
  /\ Stands(p, "provider") /\ HasClaim(p)
  /\ \/ /\ prompts' = [prompts EXCEPT ![Run(p)] = @ + 1]
        /\ malformed' \in {malformed, malformed \cup {Run(p)}}
        /\ To(p, "stream")
        /\ UNCHANGED <<vars, faults, sweep, dream, files, promotions>>
     \/ /\ Fault /\ UNCHANGED <<vars, rowsOfDreams>>
        /\ To(p, "giveBack") \/ DreamFails(p, FALSE)

FirstDreamToken(p) ==
  /\ Stands(p, "stream") /\ HasClaim(p) /\ ~d[p].marked
  /\ \/ FundingCall(p, markTurnUsableOutput(Run(p)),
                    Continue(p, [d[p] EXCEPT !.marked = TRUE]), DreamFails(p, FALSE))
     \/ ~IsReserved(Run(p)) /\ Pass(DreamFails(p, FALSE))

DreamCompleted(p, charge) ==
  /\ Stands(p, "stream") /\ HasClaim(p) /\ charge <= Max[Run(p)]
  /\ \/ FundingCall(p, settleTerminal(Run(p), charge), To(p, "materialize"),
                    DreamFails(p, TRUE))
     \/ ~IsReserved(Run(p)) /\ Pass(DreamFails(p, TRUE))

DreamFailed(p) ==
  /\ Stands(p, "stream") /\ HasClaim(p)
  /\ \E reports \in BOOLEAN : Pass(DreamFails(p, reports))

\* reverseTurn.  Marked output is settled, or left to the reaper together with
\* its usage row; otherwise the error row follows.
ReverseDream(p) ==
  LET r == Run(p)
      row(refunded) == Continue(p, [d[p] EXCEPT !.pc = "row", !.refunded = refunded])
  IN /\ Stands(p, "reverse") /\ HasClaim(p)
     /\ \/ FundingCall(p, settlePartialOutputAuthorization(r), To(p, "returned"),
                       To(p, "returned") \/ (~d[p].marked /\ row(FALSE)))
        \/ /\ ~d[p].marked
           /\ FundingCall(p, reverseAtOnce(r, "reversed"), row(TRUE), row(FALSE))
        \/ /\ ~IsReserved(r)
           /\ IF d[p].marked /\ authz[r].state = "settled"
              THEN Pass(To(p, "returned")) ELSE Pass(row(TRUE))
        \/ /\ IsReserved(r) /\ run[r] = "output"
           /\ usage[r] \notin {[status |-> "provider_admitted", manna |-> 0],
                               [status |-> "error", manna |-> Max[r]]}
           /\ Pass(To(p, "returned"))

\* The strict error row; a report that throws is repeated as an internal error.
RecordDreamError(p) ==
  LET charge == IF d[p].report /\ ~d[p].refunded THEN Max[Run(p)] ELSE 0
      thrown == IF d[p].report THEN DreamFails(p, FALSE) ELSE To(p, "thrown")
      there == usage[Run(p)]
  IN /\ Stands(p, "row") /\ HasClaim(p)
     /\ \/ FundingCall(p, recordUsageEvent(Run(p), charge), To(p, "returned"), thrown)
        \/ /\ there.status \in {"completed", "error"}
           /\ Pass(IF there = [status |-> "error", manna |-> charge]
                   THEN To(p, "returned") ELSE thrown)

-----------------------------------------------------------------------------
(* The files.                                                              *)

\* materializeMemoryRemResponse: the diary entry under its marker, then the
\* report.  The files are not fenced.
materialize(p, done, thrown) ==
  /\ UNCHANGED <<vars, sweep, dream, malformed, promotions, prompts>>
  /\ \/ /\ Run(p) \notin malformed
        /\ files' = [files EXCEPT ![Run(p)] = "both"] /\ done /\ UNCHANGED faults
     \/ Run(p) \in malformed /\ UNCHANGED <<files, faults>> /\ thrown
     \/ /\ Run(p) \notin malformed /\ Fault /\ thrown
        /\ files' \in {files, [files EXCEPT ![Run(p)] = IF @ = "none" THEN "diary" ELSE @]}

Materialize(p) ==
  Stands(p, "materialize") /\ materialize(p, To(p, "returned"), To(p, "thrown"))

-----------------------------------------------------------------------------
(* Recovery.                                                               *)

\* The terminal checkpoint, if the run has any.
SaveTerminal(p, done, thrown) ==
  IF DreamRow(p).phase = "none" THEN Pass(done)
  ELSE saveCheckpoint(p, "provider_terminal", "terminal", done, thrown)

\* recoverTerminalUsage for a run that did not complete.
RecoverFailed(p) ==
  /\ Stands(p, "recover") /\ HasClaim(p)
  /\ \/ /\ d[p].seen = "partial"
        /\ SaveTerminal(p, IF DreamRow(p).phase = "none" THEN Pending(p) ELSE Resolved(p), Throws(p))
     \/ d[p].seen = "free" /\ SaveTerminal(p, Resolved(p), Throws(p))
     \/ d[p].seen = "charged"
        /\ Pass(Continue(p, [d[p] EXCEPT !.pc = "undo", !.seen = "terminal"]))

\* ... and for one that did: missing files are projected from the transcript.
\* The workspace may be gone.
RecoverCompleted(p) ==
  /\ Stands(p, "recover") /\ d[p].seen = "completed"
  /\ \/ Pass(Resolved(p))
     \/ files[Run(p)] # "both" /\ materialize(p, UNCHANGED d, Throws(p))
     \/ /\ files[Run(p)] = "both"
        /\ saveCheckpoint(p, "provider_terminal", "terminal", To(p, "complete"), Throws(p))

\* reverseRunAuthorization does not throw on a turn that is terminal or that
\* has usable output.
UndoCharge(p) ==
  LET r == Run(p) IN
  /\ Stands(p, "undo") /\ HasClaim(p)
  /\ \/ FundingCall(p, reverseAtOnce(r, "reversed"), To(p, "truth"), Pending(p))
     \/ (~IsReserved(r) \/ run[r] = "output") /\ Pass(To(p, "truth"))

\* recordMemoryDreamRecoveryUsage: the row of a reversed run says zero.
RecordRecovery(p) ==
  LET r == Run(p)
      matches == authz[r].state \in Refunded /\ usage[r].status # "completed"
  IN /\ Stands(p, "truth") /\ HasClaim(p)
     /\ \/ /\ matches
           /\ FundingCall(p, /\ usage' = [usage EXCEPT ![r] = [status |-> "error", manna |-> 0]]
                             /\ UNCHANGED <<ledger, authz, run, reversing, raced>>,
                          To(p, "settle"), Pending(p))
        \/ ~matches /\ Pass(Pending(p))

SettleDream(p) ==
  /\ Stands(p, "settle") /\ HasClaim(p)
  /\ \/ d[p].seen = "terminal" /\ SaveTerminal(p, Resolved(p), Pending(p))
     \/ /\ d[p].seen = "indeterminate"
        /\ saveCheckpoint(p, IF DreamRow(p).phase = "none" THEN "provider_started" ELSE DreamRow(p).phase,
                          "indeterminate", Resolved(p), Pending(p))

-----------------------------------------------------------------------------
(* The end of a run.                                                       *)

\* A recovery that is resolved may be followed by a run for newer activity.
AfterDream(p, resolved) ==
  To(p, "finish") \/ (d[p].recovery /\ resolved /\ To(p, "start"))

completeRun(p) ==
  /\ Stands(p, "complete")
  /\ RunCall(p, [DreamRow(p) EXCEPT !.status = "done", !.provider = "terminal", !.holder = NoDreamer],
             AfterDream(p, TRUE), Throws(p))

skipRun(p) ==
  /\ Stands(p, "skip")
  /\ RunCall(p, [DreamRow(p) EXCEPT !.status = "skipped", !.holder = NoDreamer],
             AfterDream(p, TRUE), Sleep(p))

failRun(p) ==
  /\ Stands(p, "fail")
  /\ RunCall(p, [DreamRow(p) EXCEPT !.status = d[p].outcome, !.holder = NoDreamer],
             AfterDream(p, d[p].outcome = "error"), Sleep(p))

\* A fence refuses a superseded claim: the turn throws or returns, and whatever
\* the run reports then is not recorded.
ClaimSuperseded(p) ==
  /\ ~Stands(p, "idle") /\ Run(p) \in Turns /\ ~HasClaim(p)
  /\ \/ d[p].pc \in {"reserve", "ticket", "giveBack"} /\ Pass(To(p, "thrown"))
     \/ d[p].pc \in {"provider", "stream", "reverse", "row"} /\ Pass(To(p, "returned"))
     \/ d[p].pc \in {"freeze", "seed", "deep", "promoted", "begin", "recover", "undo",
                     "truth", "settle", "complete", "skip", "fail"}
        /\ Pass(To(p, "finish"))

-----------------------------------------------------------------------------
(* Crashes, time, the reaper.                                              *)

DreamCrash(p) ==
  /\ ~Stands(p, "idle")
  /\ Fault /\ Sleep(p) /\ UNCHANGED <<vars, rowsOfDreams>>

AtWork(p, r) == p # NoDreamer /\ ~Stands(p, "idle") /\ Run(p) = r

\* The lease of a dreamer that is still at work lapses when its heartbeats
\* fail; bound: that is a fault.
RunLapses(r) ==
  /\ dream[r].status = "running" /\ dream[r].holder # NoDreamer
  /\ IF AtWork(dream[r].holder, r) THEN Fault ELSE UNCHANGED faults
  /\ dream' = [dream EXCEPT ![r].holder = NoDreamer]
  /\ UNCHANGED <<vars, sweep, d, files, malformed, promotions, prompts>>

SweepLapses ==
  /\ sweep.status = "running" /\ sweep.holder # NoDreamer
  /\ IF ~Stands(sweep.holder, "idle") THEN Fault ELSE UNCHANGED faults
  /\ sweep' = [sweep EXCEPT !.holder = NoDreamer]
  /\ UNCHANGED <<vars, dream, d, files, malformed, promotions, prompts>>

\* The next day has a sweep of its own.  Bound: no valid claim outlives the day.
NewDay ==
  /\ sweep.status # "none" /\ sweep.holder = NoDreamer
  /\ sweep' = NoSweep
  /\ dream' = [r \in Turns |-> [dream[r] EXCEPT !.today = FALSE]]
  /\ UNCHANGED <<vars, faults, d, files, malformed, promotions, prompts>>

\* The reaper of turn reservations.
ReapDream(r) ==
  /\ settlePartialOutputAuthorization(r) \/ reverseAtOnce(r, "reaped")
  /\ UNCHANGED <<faults, ownDreamVars>>

-----------------------------------------------------------------------------

DreamStep(p) ==
  \/ startRun(p) \/ InspectFirst(p) \/ InspectAgain(p) \/ Freeze(p) \/ Seed(p)
  \/ BeginPromotion(p) \/ Promote(p) \/ EndPromotion(p) \/ BeginProvider(p)
  \/ ReserveDream(p) \/ RecordRefused(p) \/ ClaimDreamTicket(p) \/ GiveBack(p)
  \/ CallDreamProvider(p) \/ FirstDreamToken(p) \/ DreamFailed(p)
  \/ \E c \in Amounts \cup {0} : DreamCompleted(p, c)
  \/ ReverseDream(p) \/ RecordDreamError(p) \/ Materialize(p)
  \/ RecoverFailed(p) \/ RecoverCompleted(p) \/ UndoCharge(p) \/ RecordRecovery(p)
  \/ SettleDream(p) \/ completeRun(p) \/ skipRun(p) \/ failRun(p)
  \/ ClaimSuperseded(p) \/ finishSweep(p)

DreamNext ==
  \/ \E p \in Dreamers : ClaimSweep(p) \/ DreamStep(p) \/ DreamCrash(p)
  \/ \E r \in Turns : RunLapses(r) \/ ReapDream(r)
  \/ SweepLapses \/ NewDay

\* Days pass, the timers keep firing, what a dead dreamer held lapses, and the
\* calls a dreamer waits for return or throw.
AbandonedRunLapses == \E r \in Turns : ~AtWork(dream[r].holder, r) /\ RunLapses(r)
AbandonedSweepLapses ==
  sweep.holder # NoDreamer /\ Stands(sweep.holder, "idle") /\ SweepLapses

DreamFairness ==
  /\ \A p \in Dreamers : WF_dreamVars(DreamStep(p))
  /\ WF_dreamVars(\E p \in Dreamers : ClaimSweep(p))
  /\ WF_dreamVars(\E r \in Turns : ReapDream(r))
  /\ WF_dreamVars(AbandonedRunLapses) /\ WF_dreamVars(AbandonedSweepLapses)
  /\ WF_dreamVars(NewDay)

DreamSpec == DreamInit /\ [][DreamNext]_dreamVars /\ DreamFairness

-----------------------------------------------------------------------------
(* Properties.                                                             *)

\* "External work will not be replayed", "refusing to replay it": however often
\* a dream crashes, loses its lease and is recovered, it promotes memory and
\* calls its provider at most once; a dream that is done is paid, promoted and
\* in both files; and once its row says terminal or indeterminate, its money is
\* at rest and its usage row states what it cost.
DreamsAreExact ==
  \A r \in Turns :
    /\ promotions[r] <= 1 /\ prompts[r] <= 1
    /\ dream[r].status = "done" =>
         /\ usage[r].status = "completed" /\ authz[r].state = "settled"
         /\ files[r] = "both" /\ promotions[r] = 1
    /\ dream[r].provider \in {"terminal", "indeterminate"} /\ authz[r].state # "none" =>
         /\ authz[r].state \in Terminal
         /\ usage[r].status \in {"completed", "error"}
         /\ usage[r].manna = Max[r] - alreadyRefundedManna(ledger, r)

\* A dream that has begun and is not ended.  One whose response is not in the
\* envelope is left out: its recovery fails for ever on the same text.
DreamIsOpen == \E r \in Turns \ malformed : dream[r].status \in Live
=============================================================================
