--------------------------- MODULE AccountErasure ---------------------------
(***************************************************************************)
(* The erasure of an account (account-erasure.ts and its Postgres store):   *)
(* the request and the recovery worker that carry a durable intent through  *)
(* the ledger, the inventory seal and the recovery manifest, the target     *)
(* worker that then removes the account's content, and the fences that keep *)
(* new work and new references out while it runs.                           *)
(*                                                                          *)
(* Every operation of the store begins with one global advisory lock, so a  *)
(* transaction is one action; the sinks and the file system are called      *)
(* between transactions. A claim's token is its attempt number: attempts    *)
(* never decrease, so it names one claim. Every account has at most one     *)
(* external target, its reference to one content-addressed file that        *)
(* several accounts may share.                                              *)
(***************************************************************************)
EXTENDS Naturals, FiniteSets

CONSTANTS Users,                \* user accounts
          Sweepers,             \* processes running the recovery and target workers
          TargetId,             \* the order of the targets' ids
          MaxRecoveryAttempts,  \* claims of one job before it needs attention
          MaxTargetAttempts,    \* claims of one target before it needs attention
          Busy,                 \* accounts that begin paid or provider work
          Referencing,          \* accounts whose row names the file at first
          MaxErasureFaults      \* failed or slow sinks and erasures, crashes, stalls

ASSUME ErasureAssumption ==
  /\ TargetId \in [Users -> Nat]
  /\ \A a, b \in Users : TargetId[a] = TargetId[b] => a = b
  /\ Referencing \subseteq Users /\ Referencing # {}
  /\ MaxRecoveryAttempts \in Nat \ {0}
  /\ MaxTargetAttempts \in Nat \ {0}

VARIABLES job,            \* account_erasure_jobs
          target,         \* account_erasure_targets, without the backup tombstone
          sealed,         \* accounts inventoried and marked deleted
          worm,           \* accounts whose intent the WORM ledger holds
          manifest,       \* accounts whose recovery manifest is stored
          openWork,       \* the account's paid or provider work
          rows,           \* accounts with a row naming the shared file
          fileExists,     \* the file is on disk
          arriving,       \* accounts whose ingest stored the file and has no row yet
          unlinking,      \* each process's erasures that outlived their deadline
          agenda,         \* what each request and each sweeper is doing
          erasureFaults   \* faults so far

contentVars == <<rows, fileExists, arriving, unlinking>>
erasureVars == <<job, target, sealed, worm, manifest, openWork, contentVars, agenda, erasureFaults>>

Runners == Users \union Sweepers
AtRest  == [phase |-> "idle"]
Blank   == [state |-> "none", attempts |-> 0, lapsed |-> FALSE]

ErasureInit ==
  /\ job = [a \in Users |-> Blank]
  /\ target = [a \in Users |-> Blank]
  /\ sealed = {} /\ worm = {} /\ manifest = {}
  /\ openWork = [a \in Users |-> "none"]
  /\ rows = Referencing /\ fileExists = TRUE /\ arriving = {}
  /\ unlinking = [p \in Runners |-> {}]
  /\ agenda = [p \in Runners |-> AtRest]
  /\ erasureFaults = 0

ErasureFault == erasureFaults < MaxErasureFaults /\ erasureFaults' = erasureFaults + 1

-----------------------------------------------------------------------------
(* The fences.                                                              *)

AccountIsWritable(a) == job[a].state = "none"

ActiveTarget(a) == target[a].state \notin {"none", "succeeded"}

\* Mutant: the ingest fence is gone.
Unfenced == TRUE
ContentIsFree == \A a \in rows : ~ActiveTarget(a)

(* Work of an account: begun, admitted by its provider and ended by the      *)
(* services that own it. A new row and a provider admission need a writable *)
(* account; an ending does not.                                             *)
WorkMoves(a) ==
  /\ \/ /\ a \in Busy /\ openWork[a] = "none" /\ AccountIsWritable(a)
        /\ openWork' \in {[openWork EXCEPT ![a] = w] : w \in {"preparing", "voice"}}
     \/ openWork[a] = "preparing" /\ AccountIsWritable(a) /\ openWork' = [openWork EXCEPT ![a] = "started"]
  /\ UNCHANGED <<job, target, sealed, worm, manifest, contentVars, agenda, erasureFaults>>

WorkEnds(a) ==
  /\ \/ openWork[a] = "started" /\ openWork' \in {[openWork EXCEPT ![a] = w] : w \in {"usable", "none"}}
     \/ openWork[a] \in {"usable", "voice"} /\ openWork' = [openWork EXCEPT ![a] = "none"]
  /\ UNCHANGED <<job, target, sealed, worm, manifest, contentVars, agenda, erasureFaults>>

(* An ingest stores the file first and inserts its row in a later            *)
(* transaction, under the content lock and its fence.                       *)
StoreFile(a) ==
  /\ a \notin rows \union arriving /\ AccountIsWritable(a)
  /\ fileExists' = TRUE
  /\ arriving' = arriving \union {a}
  /\ UNCHANGED <<job, target, sealed, worm, manifest, openWork, rows, unlinking, agenda, erasureFaults>>

InsertReference(a) ==
  /\ a \in arriving
  /\ arriving' = arriving \ {a}
  /\ rows' = IF ContentIsFree /\ AccountIsWritable(a) THEN rows \union {a} ELSE rows
  /\ UNCHANGED <<job, target, sealed, worm, manifest, openWork, fileExists, unlinking, agenda, erasureFaults>>

-----------------------------------------------------------------------------
(* From the intent to the confirmed manifest. A request works on an          *)
(* unclaimed job (token 0), a sweeper on the job it claimed.                *)

acceptIntent(a) ==
  /\ agenda[a] = AtRest
  /\ a \notin sealed
  /\ \/ job[a].state = "none" /\ openWork[a] # "voice"
     \/ job[a].state = "intent_pending"
  /\ job' = [job EXCEPT ![a].state = "intent_pending"]
  /\ agenda' = [agenda EXCEPT ![a] = [phase |-> "ledger", account |-> a, token |-> 0]]
  /\ UNCHANGED <<target, sealed, worm, manifest, openWork, contentVars, erasureFaults>>

HoldsJob(r) ==
  LET j == job[r.account] IN j.state = "claimed" /\ j.attempts = r.token /\ ~j.lapsed

(* What becomes of a run that ends with an error: the request reports it,    *)
(* the recovery worker records the failure.                                 *)
Failed(p) == IF p \in Sweepers THEN [agenda[p] EXCEPT !.phase = "failed"] ELSE AtRest

confirmedLedgerInput(p) ==
  /\ agenda[p].phase = "ledger"
  /\ worm' = worm \union {agenda[p].account}
  /\ agenda' = [agenda EXCEPT ![p].phase = "reconcile"]
  /\ UNCHANGED <<job, target, sealed, manifest, openWork, contentVars, erasureFaults>>

confirmedRecoveryManifest(p) ==
  /\ agenda[p].phase = "manifest"
  /\ manifest' = manifest \union {agenda[p].account}
  /\ agenda' = [agenda EXCEPT ![p].phase = "confirm"]
  /\ UNCHANGED <<job, target, sealed, worm, openWork, contentVars, erasureFaults>>

SinkFails(p) ==
  /\ agenda[p].phase \in {"ledger", "manifest"}
  /\ ErasureFault
  /\ agenda' = [agenda EXCEPT ![p] = Failed(p)]
  /\ UNCHANGED <<job, target, sealed, worm, manifest, openWork, contentVars>>

(* account_erasure_reconcile_open_work: work no provider admitted is         *)
(* cancelled, usable output is settled, started work is left to its owner.  *)
reconcile(p) ==
  LET r == agenda[p] IN
  /\ r.phase = "reconcile"
  /\ openWork' = IF /\ job[r.account].state = "intent_pending" \/ HoldsJob(r)
                /\ openWork[r.account] \in {"preparing", "usable"}
             THEN [openWork EXCEPT ![r.account] = "none"] ELSE openWork
  /\ agenda' = [agenda EXCEPT ![p].phase = "seal"]
  /\ UNCHANGED <<job, target, sealed, worm, manifest, contentVars, erasureFaults>>

MaySeal(r) == IF r.token = 0 THEN job[r.account].state = "intent_pending" ELSE HoldsJob(r)

HasOpenWork(a) == openWork[a] # "none"

sealInventory(p) ==
  LET r == agenda[p]
      a == r.account
  IN
  /\ r.phase = "seal"
  /\ \/ /\ ~MaySeal(r)
        /\ agenda' = [agenda EXCEPT ![p] = AtRest]
        /\ UNCHANGED <<job, target, sealed>>
     \/ /\ MaySeal(r) /\ HasOpenWork(a)
        /\ agenda' = [agenda EXCEPT ![p] = Failed(p)]
        /\ UNCHANGED <<job, target, sealed>>
     \/ /\ MaySeal(r) /\ ~HasOpenWork(a)
        /\ job' = [job EXCEPT ![a].state = "manifest_pending"]
        /\ target' = IF a \in rows THEN [target EXCEPT ![a].state = "pending"] ELSE target
        /\ sealed' = sealed \union {a}
        /\ agenda' = [agenda EXCEPT ![p].phase = "manifest"]
  /\ UNCHANGED <<worm, manifest, openWork, contentVars, erasureFaults>>

(* The confirmation of a claimed recovery passes mode 'unclaimed' like the   *)
(* request's.                                                               *)
confirmManifest(p) ==
  LET a == agenda[p].account IN
  /\ agenda[p].phase = "confirm"
  /\ job' = IF job[a].state = "manifest_pending"
            THEN [job EXCEPT ![a].state = IF ActiveTarget(a) THEN "pending" ELSE "succeeded"]
            ELSE job
  /\ agenda' = [agenda EXCEPT ![p] = AtRest]
  /\ UNCHANGED <<target, sealed, worm, manifest, openWork, contentVars, erasureFaults>>

-----------------------------------------------------------------------------
(* The recovery worker.                                                     *)

Reopened(j, next, max) ==
  [j EXCEPT !.state = IF j.attempts >= max THEN "attention" ELSE next, !.lapsed = FALSE]

RetryState ==
  [a \in Users |-> IF a \in sealed THEN "manifest_pending" ELSE "intent_pending"]

Claimed(j) == [j EXCEPT !.state = "claimed", !.attempts = @ + 1]

\* Mutant: expired claims stay.
AsItIs(table, next, max) == {table}

(* A tick first recovers one expired claim; if that did not end in attention *)
(* it claims a pending job in the same transaction.                         *)
AfterRecovery(table, next, max) ==
  LET expired == {a \in Users : table[a].state = "claimed" /\ table[a].lapsed} IN
  IF expired = {} THEN {table}
  ELSE {[table EXCEPT ![a] = Reopened(@, next[a], max)] : a \in expired}

NewAttention(old, new) ==
  \E a \in Users : new[a].state = "attention" /\ old[a].state # "attention"

claimIntentForRecovery(w) ==
  /\ agenda[w] = AtRest
  /\ \E jobs \in AfterRecovery(job, RetryState, MaxRecoveryAttempts) :
       \/ NewAttention(job, jobs) /\ job' = jobs /\ UNCHANGED agenda
       \/ /\ ~NewAttention(job, jobs)
          /\ \E a \in Users :
               /\ jobs[a].state \in {"intent_pending", "manifest_pending"}
               /\ job' = [jobs EXCEPT ![a] = Claimed(@)]
               /\ agenda' = [agenda EXCEPT ![w] =
                    [phase |-> IF a \in sealed THEN "manifest" ELSE "ledger",
                     account |-> a, token |-> jobs[a].attempts + 1]]
  /\ UNCHANGED <<target, sealed, worm, manifest, openWork, contentVars, erasureFaults>>

recordRecoveryFailure(w) ==
  LET r == agenda[w] IN
  /\ r.phase = "failed"
  /\ job' = IF HoldsJob(r)
            THEN [job EXCEPT ![r.account] = Reopened(@, RetryState[r.account], MaxRecoveryAttempts)]
            ELSE job
  /\ agenda' = [agenda EXCEPT ![w] = AtRest]
  /\ UNCHANGED <<target, sealed, worm, manifest, openWork, contentVars, erasureFaults>>

-----------------------------------------------------------------------------
(* The target worker.                                                       *)

(* The file goes with the last reference: every row that names it is being   *)
(* erased, and this target is the first of theirs.                          *)
legacyDispositionElection(a) ==
  /\ \A b \in rows : ActiveTarget(b)
  /\ \A b \in rows : TargetId[a] <= TargetId[b]

ToPending == [a \in Users |-> "pending"]

\* Mutant: the confirmation of the manifest is not awaited.
IsSealed(a) == job[a].state \in {"manifest_pending", "pending"}
IsConfirmed(a) == job[a].state = "pending"

claimTarget(w) ==
  /\ agenda[w] = AtRest
  /\ \E targets \in AfterRecovery(target, ToPending, MaxTargetAttempts) :
       \/ NewAttention(target, targets) /\ target' = targets /\ UNCHANGED agenda
       \/ /\ ~NewAttention(target, targets)
          /\ \E a \in Users :
               /\ IsConfirmed(a)
               /\ targets[a].state = "pending"
               /\ target' = [targets EXCEPT ![a] = Claimed(@)]
               /\ agenda' = [agenda EXCEPT ![w] =
                    [phase |-> "erase", account |-> a, token |-> targets[a].attempts + 1,
                     deletePhysical |-> legacyDispositionElection(a)]]
  /\ UNCHANGED <<job, sealed, worm, manifest, openWork, contentVars, erasureFaults>>

HoldsTarget(r) ==
  LET t == target[r.account] IN t.state = "claimed" /\ t.attempts = r.token /\ ~t.lapsed

erase(w) ==
  /\ agenda[w].phase = "erase"
  /\ fileExists' = (fileExists /\ ~agenda[w].deletePhysical)
  /\ agenda' = [agenda EXCEPT ![w].phase = "erased"]
  /\ UNCHANGED <<job, target, sealed, worm, manifest, openWork, rows, arriving, unlinking, erasureFaults>>

(* The erasure throws, or misses its deadline: the executor ignores the      *)
(* signal, so that the unlink of a slow one is still to come.               *)
eraseFails(w) ==
  /\ agenda[w].phase = "erase"
  /\ ErasureFault
  /\ \/ UNCHANGED unlinking
     \/ /\ agenda[w].deletePhysical
        /\ unlinking' = [unlinking EXCEPT ![w] = @ \union {agenda[w].account}]
  /\ agenda' = [agenda EXCEPT ![w].phase = "not_erased"]
  /\ UNCHANGED <<job, target, sealed, worm, manifest, openWork, rows, fileExists, arriving>>

LateUnlink(w) ==
  /\ \E a \in unlinking[w] : unlinking' = [unlinking EXCEPT ![w] = @ \ {a}]
  /\ fileExists' = FALSE
  /\ UNCHANGED <<job, target, sealed, worm, manifest, openWork, rows, arriving, agenda, erasureFaults>>

completeTarget(w) ==
  LET r == agenda[w]
      a == r.account
  IN
  /\ r.phase = "erased"
  /\ IF HoldsTarget(r)
     THEN /\ rows' = rows \ {a}
          /\ target' = [target EXCEPT ![a].state = "succeeded"]
          /\ job' = [job EXCEPT ![a].state = "succeeded"]
     ELSE UNCHANGED <<rows, target, job>>
  /\ agenda' = [agenda EXCEPT ![w] = AtRest]
  /\ UNCHANGED <<sealed, worm, manifest, openWork, fileExists, arriving, unlinking, erasureFaults>>

failTarget(w) ==
  LET r == agenda[w] IN
  /\ r.phase = "not_erased"
  /\ target' = IF HoldsTarget(r)
               THEN [target EXCEPT ![r.account] = Reopened(@, "pending", MaxTargetAttempts)]
               ELSE target
  /\ agenda' = [agenda EXCEPT ![w] = AtRest]
  /\ UNCHANGED <<job, sealed, worm, manifest, openWork, contentVars, erasureFaults>>

-----------------------------------------------------------------------------
(* Time and processes. A lease outlives the deadlines of the sinks and of    *)
(* the erasure, so a claim lapses under a worker only when its process       *)
(* stalls.                                                                  *)

Holder(a, phases) ==
  {w \in Sweepers : agenda[w].phase \in phases /\ agenda[w].account = a}

JobPhases    == {"ledger", "reconcile", "seal", "manifest", "confirm", "failed"}
TargetPhases == {"erase", "erased", "not_erased"}

LeaseEnds(a) ==
  /\ \/ /\ job[a].state = "claimed" /\ ~job[a].lapsed
        /\ IF \E w \in Holder(a, JobPhases) : agenda[w].token = job[a].attempts
           THEN ErasureFault ELSE UNCHANGED erasureFaults
        /\ job' = [job EXCEPT ![a].lapsed = TRUE]
        /\ UNCHANGED target
     \/ /\ target[a].state = "claimed" /\ ~target[a].lapsed
        /\ IF Holder(a, TargetPhases) = {} THEN UNCHANGED erasureFaults ELSE ErasureFault
        /\ target' = [target EXCEPT ![a].lapsed = TRUE]
        /\ UNCHANGED job
  /\ UNCHANGED <<sealed, worm, manifest, openWork, contentVars, agenda>>

ProcessDies(p) ==
  /\ agenda[p] # AtRest \/ unlinking[p] # {}
  /\ ErasureFault
  /\ agenda' = [agenda EXCEPT ![p] = AtRest]
  /\ unlinking' = [unlinking EXCEPT ![p] = {}]
  /\ UNCHANGED <<job, target, sealed, worm, manifest, openWork, rows, fileExists, arriving>>

RunStep(p) ==
  \/ confirmedLedgerInput(p) \/ reconcile(p) \/ sealInventory(p)
  \/ confirmedRecoveryManifest(p) \/ confirmManifest(p)

SweeperStep(w) ==
  \/ claimIntentForRecovery(w) \/ RunStep(w) \/ recordRecoveryFailure(w)
  \/ claimTarget(w) \/ erase(w) \/ completeTarget(w) \/ failTarget(w)

ErasureNext ==
  \/ \E a \in Users :
       \/ WorkMoves(a) \/ WorkEnds(a) \/ StoreFile(a) \/ InsertReference(a)
       \/ acceptIntent(a) \/ RunStep(a) \/ LeaseEnds(a)
  \/ \E w \in Sweepers : SweeperStep(w) \/ eraseFails(w) \/ LateUnlink(w)
  \/ \E p \in Runners : SinkFails(p) \/ ProcessDies(p)

(* Work that was begun ends (its own services see to that); the two workers  *)
(* tick for ever; a lease runs out.                                         *)
ErasureFairness ==
  /\ \A a \in Users : WF_erasureVars(WorkEnds(a)) /\ WF_erasureVars(LeaseEnds(a))
  /\ \A w \in Sweepers : WF_erasureVars(SweeperStep(w))

ErasureSpec == ErasureInit /\ [][ErasureNext]_erasureVars /\ ErasureFairness

-----------------------------------------------------------------------------
(* Nothing of an account is removed before its erasure can be replayed from  *)
(* a restored backup: the ledger and the manifest hold it, the inventory is *)
(* sealed and the account's work has ended, and none begins afterwards      *)
(* (account-erasure-postgres.ts claimTarget, sealInventory).                *)
ErasedWhenRecoverable ==
  \A a \in Users :
    target[a].state \in {"claimed", "succeeded", "attention"} =>
      /\ a \in worm \intersect manifest \intersect sealed
      /\ ~HasOpenWork(a)

\* The step is an unlink for a's target, in time or late.
Unlinks(a) ==
  \E w \in Sweepers :
    \/ agenda[w].phase = "erase" /\ agenda[w].account = a /\ agenda'[w].phase = "erased"
    \/ a \in unlinking[w] \ unlinking'[w]

RemovesItsOwn ==
  fileExists /\ ~fileExists' =>
    \E a \in Users :
      Unlinks(a) /\ (target[a].state = "succeeded" \/ \A b \in rows : ActiveTarget(b))

(* The shared file is removed only for a target whose claim elected it, and  *)
(* as long as that target has not succeeded, only when every row that names  *)
(* the file at that moment belongs to an account that is being erased: no    *)
(* other account loses its content, whatever is ingested between the         *)
(* election and the unlink, though the lease lapses under it, the unlink     *)
(* outlives its deadline and other claims of the target come and go.         *)
SharedFileSurvives == [][RemovesItsOwn]_erasureVars

(* An accepted erasure that has not succeeded, and that neither it nor its   *)
(* target waits at 'attention' for an operator.                              *)
ErasureIsOpen ==
  \E a \in Users :
    /\ job[a].state \notin {"none", "succeeded", "attention"}
    /\ target[a].state # "attention"

(* An erasure whose manifest waits for its confirmation is confirmed by the  *)
(* recovery worker, as account-erasure.test.ts:570-606 has it.               *)
EveryManifestIsConfirmed ==
  \A a \in Users :
    job[a].state = "manifest_pending" ~> job[a].state \in {"pending", "succeeded"}
=============================================================================
