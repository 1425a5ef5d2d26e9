----------------------------- MODULE AccountProofs -----------------------------
(***************************************************************************)
(* Theorems of the parts that keep an account's own things right, for any  *)
(* accounts, calls and bounds: its erasure (AccountErasure), its plan and  *)
(* its vouchers (Billing), its gateway session (SubscriptionTurnClaims),   *)
(* and its channels: a credential is one connection's                      *)
(* (ChannelCredentials), and an account of the gateway whose calls the API *)
(* accepts admits exactly whom the owner decided on (ChannelConnections).  *)
(***************************************************************************)
EXTENDS AccountErasure, Billing, SubscriptionTurnClaims, ChannelCredentials,
        ChannelConnections, FiniteSetTheorems, SequenceTheorems, TLAPS

-----------------------------------------------------------------------------
(* Erasure: the parts of the invariant. Nothing is erased that a restored  *)
(* backup could bring back, and a file two accounts share is not removed under*)
(* the one that stays.                                                     *)

JobStates == {"none", "intent_pending", "manifest_pending", "claimed", "pending",
              "succeeded", "attention"}
JobRow == [state : JobStates, attempts : Nat, lapsed : BOOLEAN]
Work == {"none", "preparing", "voice", "started", "usable"}
JobRun == [phase : JobPhases, account : Users, token : Nat]
TargetRun == [phase : TargetPhases, account : Users, token : Nat, deletePhysical : BOOLEAN]

\* The rows, and what a runner can be doing.
ErasureTypeOK ==
  /\ job \in [Users -> JobRow]
  /\ target \in [Users -> JobRow]
  /\ sealed \subseteq Users /\ worm \subseteq Users /\ manifest \subseteq Users
  /\ openWork \in [Users -> Work]
  /\ agenda \in [Runners -> {AtRest} \cup JobRun \cup TargetRun]

-----------------------------------------------------------------------------
(* The parts of the invariant.                                             *)

\* A sealed account was written to the ledger, has no work, and goes back
\* neither to its intent nor to nothing.
SealedIsClosed ==
  \A a \in sealed :
    /\ a \in worm
    /\ openWork[a] = "none"
    /\ job[a].state \notin {"none", "intent_pending"}

\* A job waits for its manifest only when it is sealed, and for its targets
\* only when the manifest is confirmed as well.
JobMatchesSinks ==
  \A a \in Users :
    /\ job[a].state = "manifest_pending" => a \in sealed
    /\ job[a].state \in {"pending", "succeeded"} => a \in sealed \cap manifest

\* A target is claimed only of a confirmed job.
TargetIsConfirmed ==
  \A a \in Users :
    /\ target[a].state # "none" => a \in sealed
    /\ target[a].state \in {"claimed", "succeeded", "attention"} => a \in manifest

\* A runner is only as far as the sinks have confirmed; a token was given once;
\* who still holds a job before its seal finds it unsealed.
BeforeSeal == {"ledger", "reconcile", "seal"}
RunMatchesSinks(p) ==
  LET r == agenda[p] IN
  r.phase \in JobPhases =>
    /\ r.phase \in {"reconcile", "seal"} => r.account \in worm
    /\ r.phase = "confirm" => r.account \in manifest
    /\ r.token <= job[r.account].attempts
    /\ /\ r.phase \in BeforeSeal
       /\ job[r.account].state = "claimed" /\ job[r.account].attempts = r.token
       => r.account \notin sealed

JobInv ==
  /\ ErasureTypeOK
  /\ SealedIsClosed
  /\ JobMatchesSinks
  /\ TargetIsConfirmed
  /\ \A p \in Runners : RunMatchesSinks(p)

-----------------------------------------------------------------------------
LEMMA InitJobInv == ErasureInit => JobInv
  BY DEF ErasureInit, JobInv, ErasureTypeOK, SealedIsClosed, JobMatchesSinks,
         TargetIsConfirmed, RunMatchesSinks, Blank, AtRest, JobRow, JobStates, Work,
         JobPhases

\* A runner whose agenda is a job's has the fields of one.
LEMMA JobRunFields ==
  ASSUME ErasureTypeOK, NEW p \in Runners
  PROVE  /\ agenda[p].phase \in JobPhases => agenda[p] \in JobRun
         /\ agenda[p].phase \in TargetPhases => agenda[p] \in TargetRun
         /\ agenda[p] = AtRest => agenda[p].phase \notin JobPhases \cup TargetPhases
  BY DEF ErasureTypeOK, JobRun, TargetRun, AtRest, JobPhases, TargetPhases

LEMMA WorkKeepsJobInv ==
  ASSUME JobInv, NEW a \in Users, WorkMoves(a) \/ WorkEnds(a)
  PROVE  JobInv'
<1>1. UNCHANGED <<job, target, sealed, worm, manifest, agenda>>
  BY DEF WorkMoves, WorkEnds
<1>2. openWork' \in [Users -> Work] /\ (a \in sealed => openWork'[a] = "none")
      /\ \A b \in Users \ {a} : openWork'[b] = openWork[b]
  BY DEF WorkMoves, WorkEnds, JobInv, ErasureTypeOK, SealedIsClosed, Work, AccountIsWritable
<1> QED
  BY <1>1, <1>2 DEF JobInv, ErasureTypeOK, SealedIsClosed, JobMatchesSinks,
                    TargetIsConfirmed, RunMatchesSinks

\* An ingest leaves everything of an erasure alone.
LEMMA IngestKeepsJobInv ==
  ASSUME JobInv, UNCHANGED <<job, target, sealed, worm, manifest, openWork, agenda>>
  PROVE  JobInv'
  BY DEF JobInv, ErasureTypeOK, SealedIsClosed, JobMatchesSinks, TargetIsConfirmed,
         RunMatchesSinks

LEMMA AcceptKeepsJobInv ==
  ASSUME JobInv, NEW a \in Users, acceptIntent(a)
  PROVE  JobInv'
<1> DEFINE r == [phase |-> "ledger", account |-> a, token |-> 0]
<1>1. /\ a \notin sealed /\ job[a].state \in {"none", "intent_pending"}
      /\ job' = [job EXCEPT ![a].state = "intent_pending"]
      /\ agenda' = [agenda EXCEPT ![a] = r]
      /\ UNCHANGED <<target, sealed, worm, manifest, openWork>>
  BY DEF acceptIntent
<1>2. r \in JobRun /\ a \in Runners
  BY DEF JobRun, JobPhases, Runners
<1>3. ErasureTypeOK'
  BY <1>1, <1>2 DEF JobInv, ErasureTypeOK, JobRow, JobStates
<1>4. /\ \A b \in Users \ {a} : job'[b] = job[b]
      /\ job'[a].state = "intent_pending" /\ job'[a].attempts = job[a].attempts
      /\ job'[a].attempts \in Nat
  BY <1>1 DEF JobInv, ErasureTypeOK, JobRow
<1>5. \A p \in Runners : RunMatchesSinks(p)'
  <2> SUFFICES ASSUME NEW p \in Runners PROVE RunMatchesSinks(p)'
    OBVIOUS
  <2>1. CASE p = a
    BY <1>1, <1>2, <1>4, <2>1 DEF JobInv, ErasureTypeOK, RunMatchesSinks, BeforeSeal
  <2>2. CASE p # a
    <3>1. agenda'[p] = agenda[p] /\ (agenda[p].phase \in JobPhases => agenda[p] \in JobRun)
      BY <1>1, <2>2, JobRunFields DEF JobInv, ErasureTypeOK
    <3> QED
      BY <1>1, <1>4, <3>1 DEF JobInv, RunMatchesSinks, JobRun
  <2> QED
    BY <2>1, <2>2
<1> QED
  BY <1>1, <1>3, <1>4, <1>5 DEF JobInv, SealedIsClosed, JobMatchesSinks, TargetIsConfirmed

\* What keeps a runner's promise through the step of another one.
LEMMA RunnersKeep ==
  ASSUME JobInv, NEW q \in Runners, agenda'[q] = agenda[q],
         worm \subseteq worm', manifest \subseteq manifest',
         \A a \in Users :
           /\ job'[a].attempts \in Nat
           /\ job[a].attempts <= job'[a].attempts
           /\ job'[a].state = "claimed" =>
                \/ job[a].attempts < job'[a].attempts
                \/ job[a].state = "claimed" /\ (a \in sealed' => a \in sealed)
  PROVE  RunMatchesSinks(q)'
<1>1. agenda[q].phase \in JobPhases => agenda[q] \in JobRun
  BY JobRunFields DEF JobInv
<1>2. \A a \in Users : job[a].attempts \in Nat
  BY DEF JobInv, ErasureTypeOK, JobRow
<1> QED
  BY <1>1, <1>2 DEF JobInv, RunMatchesSinks, JobRun

\* A step of one runner that leaves jobs and targets alone.
LEMMA RunAdvances ==
  ASSUME JobInv, NEW p \in Runners, NEW r \in {AtRest} \cup JobRun \cup TargetRun,
         agenda' = [agenda EXCEPT ![p] = r],
         UNCHANGED <<job, target, sealed>>,
         openWork' \in [Users -> Work],
         \A a \in Users : openWork'[a] \in {openWork[a], "none"},
         worm' \subseteq Users, manifest' \subseteq Users,
         worm \subseteq worm', manifest \subseteq manifest',
         RunMatchesSinks(p)'
  PROVE  JobInv'
<1>1. ErasureTypeOK'
  BY DEF JobInv, ErasureTypeOK
<1>2. ASSUME NEW q \in Runners PROVE RunMatchesSinks(q)'
  <2>1. CASE q = p
    BY <2>1
  <2>2. CASE q # p
    <3>1. agenda'[q] = agenda[q]
      BY <2>2 DEF JobInv, ErasureTypeOK
    <3>2. \A a \in Users : job[a].attempts \in Nat
      BY DEF JobInv, ErasureTypeOK, JobRow
    <3> QED
      BY <3>1, <3>2, RunnersKeep
  <2> QED
    BY <2>1, <2>2
<1>3. SealedIsClosed'
  BY DEF JobInv, SealedIsClosed, ErasureTypeOK
<1> QED
  BY <1>1, <1>2, <1>3 DEF JobInv, JobMatchesSinks, TargetIsConfirmed

\* The same when the run is over, or an erasure's.
LEMMA RunEnds ==
  ASSUME JobInv, NEW p \in Runners, NEW r \in {AtRest} \cup TargetRun,
         agenda' = [agenda EXCEPT ![p] = r],
         UNCHANGED <<job, target, sealed, worm, manifest, openWork>>
  PROVE  JobInv'
<1>1. agenda'[p] = r /\ r.phase \notin JobPhases
  BY DEF JobInv, ErasureTypeOK, AtRest, TargetRun, JobPhases, TargetPhases
<1>2. RunMatchesSinks(p)'
  BY <1>1 DEF RunMatchesSinks
<1>3. worm \subseteq Users /\ manifest \subseteq Users /\ openWork \in [Users -> Work]
  BY DEF JobInv, ErasureTypeOK
<1> QED
  BY <1>2, <1>3, RunAdvances

LEMMA LedgerKeepsJobInv ==
  ASSUME JobInv, NEW p \in Runners, confirmedLedgerInput(p)
  PROVE  JobInv'
<1> DEFINE r == [agenda[p] EXCEPT !.phase = "reconcile"]
<1>1. /\ agenda[p].phase = "ledger" /\ worm' = worm \cup {agenda[p].account}
      /\ agenda' = [agenda EXCEPT ![p] = r]
      /\ UNCHANGED <<job, target, sealed, manifest, openWork>>
  BY DEF confirmedLedgerInput
<1>2. agenda[p] \in JobRun
  BY <1>1, JobRunFields DEF JobInv, JobPhases
<1>3. /\ r \in JobRun /\ r.phase = "reconcile"
      /\ r.account = agenda[p].account /\ r.token = agenda[p].token
  BY <1>2 DEF JobRun, JobPhases
<1>4. agenda'[p] = r
  BY <1>1 DEF JobInv, ErasureTypeOK
<1>5. RunMatchesSinks(p)'
  BY <1>1, <1>3, <1>4 DEF JobInv, RunMatchesSinks, JobPhases, BeforeSeal
<1>6. worm' \subseteq Users /\ manifest' \subseteq Users /\ openWork \in [Users -> Work]
  BY <1>1, <1>2 DEF JobInv, ErasureTypeOK, JobRun
<1> QED
  BY <1>1, <1>3, <1>5, <1>6, RunAdvances

LEMMA ManifestKeepsJobInv ==
  ASSUME JobInv, NEW p \in Runners, confirmedRecoveryManifest(p)
  PROVE  JobInv'
<1> DEFINE r == [agenda[p] EXCEPT !.phase = "confirm"]
<1>1. /\ agenda[p].phase = "manifest" /\ manifest' = manifest \cup {agenda[p].account}
      /\ agenda' = [agenda EXCEPT ![p] = r]
      /\ UNCHANGED <<job, target, sealed, worm, openWork>>
  BY DEF confirmedRecoveryManifest
<1>2. agenda[p] \in JobRun
  BY <1>1, JobRunFields DEF JobInv, JobPhases
<1>3. /\ r \in JobRun /\ r.phase = "confirm"
      /\ r.account = agenda[p].account /\ r.token = agenda[p].token
  BY <1>2 DEF JobRun, JobPhases
<1>4. agenda'[p] = r
  BY <1>1 DEF JobInv, ErasureTypeOK
<1>5. RunMatchesSinks(p)'
  BY <1>1, <1>3, <1>4 DEF JobInv, RunMatchesSinks, JobPhases, BeforeSeal
<1>6. worm' \subseteq Users /\ manifest' \subseteq Users /\ openWork \in [Users -> Work]
  BY <1>1, <1>2 DEF JobInv, ErasureTypeOK, JobRun
<1> QED
  BY <1>1, <1>3, <1>5, <1>6, RunAdvances

\* A failed run stays with its job until the worker has recorded it.
LEMMA FailedRun ==
  ASSUME JobInv, NEW p \in Runners, agenda[p].phase \in JobPhases,
         agenda' = [agenda EXCEPT ![p] = Failed(p)],
         UNCHANGED <<job, target, sealed, worm, manifest, openWork>>
  PROVE  JobInv'
<1>1. CASE p \in Sweepers
  <2> DEFINE r == [agenda[p] EXCEPT !.phase = "failed"]
  <2>1. agenda[p] \in JobRun
    BY JobRunFields DEF JobInv
  <2>2. /\ r \in JobRun /\ r.phase = "failed"
        /\ r.account = agenda[p].account /\ r.token = agenda[p].token
    BY <2>1 DEF JobRun, JobPhases
  <2>3. agenda' = [agenda EXCEPT ![p] = r] /\ agenda'[p] = r
    BY <1>1 DEF Failed, JobInv, ErasureTypeOK
  <2>4. RunMatchesSinks(p)'
    BY <2>2, <2>3 DEF JobInv, RunMatchesSinks, JobPhases, BeforeSeal
  <2>5. worm \subseteq Users /\ manifest \subseteq Users /\ openWork \in [Users -> Work]
    BY DEF JobInv, ErasureTypeOK
  <2> QED
    BY <2>2, <2>3, <2>4, <2>5, RunAdvances
<1>2. CASE p \notin Sweepers
  BY <1>2, RunEnds DEF Failed
<1> QED
  BY <1>1, <1>2

\* A step that changes jobs, targets of confirmed accounts, and runs for which
\* it shows what they promise.
LEMMA JobsMove ==
  ASSUME JobInv,
         job' \in [Users -> JobRow],
         agenda' \in [Runners -> {AtRest} \cup JobRun \cup TargetRun],
         target' \in [Users -> JobRow],
         UNCHANGED <<sealed, worm, manifest, openWork>>,
         \A a \in Users : target'[a].state = target[a].state \/ a \in sealed \cap manifest,
         \A a \in Users :
           \/ job'[a].state = job[a].state /\ job'[a].attempts = job[a].attempts
           \/ /\ job'[a].state \in {"attention", "claimed",
                                    IF a \in sealed THEN "manifest_pending" ELSE "intent_pending"}
              /\ job[a].attempts <= job'[a].attempts
              /\ job'[a].state = "claimed" => job[a].attempts < job'[a].attempts
           \/ /\ job'[a].state \in {"pending", "succeeded"} /\ a \in sealed \cap manifest
              /\ job'[a].attempts = job[a].attempts,
         \A p \in Runners : agenda'[p] = agenda[p] \/ RunMatchesSinks(p)'
  PROVE  JobInv'
<1>1. ErasureTypeOK'
  BY DEF JobInv, ErasureTypeOK
<1>2. \A a \in Users : job[a].attempts \in Nat /\ job'[a].attempts \in Nat
  BY DEF JobInv, ErasureTypeOK, JobRow
<1>3. \A a \in Users : job[a].attempts <= job'[a].attempts
  BY <1>2
<1>4. ASSUME NEW p \in Runners PROVE RunMatchesSinks(p)'
  <2>1. \A a \in Users : job'[a].state = "claimed" =>
          \/ job[a].attempts < job'[a].attempts
          \/ job[a].state = "claimed"
    OBVIOUS
  <2> QED
    BY <1>2, <1>3, <2>1, RunnersKeep
<1>5. SealedIsClosed'
  BY DEF JobInv, SealedIsClosed, ErasureTypeOK
<1>6. JobMatchesSinks'
  BY DEF JobInv, JobMatchesSinks
<1>7. TargetIsConfirmed'
  BY DEF JobInv, TargetIsConfirmed
<1> QED
  BY <1>1, <1>4, <1>5, <1>6, <1>7 DEF JobInv

LEMMA ReopenedRow ==
  ASSUME NEW j \in JobRow, NEW next \in JobStates, NEW max
  PROVE  /\ Reopened(j, next, max) \in JobRow
         /\ Reopened(j, next, max).attempts = j.attempts
         /\ Reopened(j, next, max).state \in {"attention", next}
         /\ ~Reopened(j, next, max).lapsed
  BY DEF Reopened, JobRow, JobStates

\* A tick reopens no row but one whose claim has lapsed.
LEMMA RecoveredRows ==
  ASSUME NEW table \in [Users -> JobRow], NEW next \in [Users -> JobStates], NEW max,
         NEW new \in AfterRecovery(table, next, max)
  PROVE  /\ new \in [Users -> JobRow]
         /\ \A a \in Users :
              \/ new[a] = table[a]
              \/ /\ table[a].state = "claimed" /\ table[a].lapsed
                 /\ new[a].state \in {"attention", next[a]}
                 /\ new[a].attempts = table[a].attempts
                 /\ ~new[a].lapsed
<1>1. CASE new = table
  BY <1>1
<1>2. CASE new # table
  <2>1. PICK a \in Users :
          /\ table[a].state = "claimed" /\ table[a].lapsed
          /\ new = [table EXCEPT ![a] = Reopened(table[a], next[a], max)]
    BY <1>2 DEF AfterRecovery
  <2>2. /\ Reopened(table[a], next[a], max) \in JobRow
        /\ Reopened(table[a], next[a], max).attempts = table[a].attempts
        /\ Reopened(table[a], next[a], max).state \in {"attention", next[a]}
        /\ ~Reopened(table[a], next[a], max).lapsed
    BY ReopenedRow
  <2> QED
    BY <2>1, <2>2
<1> QED
  BY <1>1, <1>2

LEMMA ClaimedRow ==
  ASSUME NEW j \in JobRow
  PROVE  /\ Claimed(j) \in JobRow
         /\ Claimed(j).state = "claimed" /\ Claimed(j).attempts = j.attempts + 1
        /\ Claimed(j).lapsed = j.lapsed
<1> DEFINE n == j.attempts + 1
<1>1. Claimed(j) = [j EXCEPT !.state = "claimed", !.attempts = n]
  BY DEF Claimed
<1>2. n \in Nat
  BY DEF JobRow
<1> HIDE DEF n
<1>3. /\ [j EXCEPT !.state = "claimed", !.attempts = n] \in JobRow
      /\ [j EXCEPT !.state = "claimed", !.attempts = n].state = "claimed"
      /\ [j EXCEPT !.state = "claimed", !.attempts = n].attempts = n
      /\ [j EXCEPT !.state = "claimed", !.attempts = n].lapsed = j.lapsed
  BY <1>2 DEF JobRow, JobStates
<1> QED
  BY <1>1, <1>3 DEF n

LEMMA ClaimJobKeepsJobInv ==
  ASSUME JobInv, NEW w \in Sweepers, claimIntentForRecovery(w)
  PROVE  JobInv'
<1>1. w \in Runners /\ job \in [Users -> JobRow] /\ RetryState \in [Users -> JobStates]
  BY DEF Runners, JobInv, ErasureTypeOK, RetryState, JobStates
<1>2. PICK jobs \in AfterRecovery(job, RetryState, MaxRecoveryAttempts) :
        \/ job' = jobs /\ agenda' = agenda
        \/ \E a \in Users :
             /\ jobs[a].state \in {"intent_pending", "manifest_pending"}
             /\ job' = [jobs EXCEPT ![a] = Claimed(jobs[a])]
             /\ agenda' = [agenda EXCEPT ![w] =
                  [phase |-> IF a \in sealed THEN "manifest" ELSE "ledger",
                   account |-> a, token |-> jobs[a].attempts + 1]]
  BY DEF claimIntentForRecovery
<1>3. /\ jobs \in [Users -> JobRow]
      /\ \A a \in Users :
           \/ jobs[a] = job[a]
           \/ /\ jobs[a].state \in {"attention", RetryState[a]}
              /\ jobs[a].attempts = job[a].attempts
  BY <1>1, RecoveredRows
<1>4. \A a \in Users :
        /\ job[a].attempts \in Nat /\ jobs[a].attempts = job[a].attempts
        /\ \/ jobs[a].state = job[a].state
           \/ jobs[a].state \in {"attention", IF a \in sealed THEN "manifest_pending"
                                                              ELSE "intent_pending"}
  BY <1>1, <1>3 DEF JobRow, RetryState
<1>5. UNCHANGED <<target, sealed, worm, manifest, openWork>>
  BY DEF claimIntentForRecovery
<1>6. /\ agenda \in [Runners -> {AtRest} \cup JobRun \cup TargetRun]
      /\ target \in [Users -> JobRow]
  BY DEF JobInv, ErasureTypeOK
<1>7. CASE job' = jobs /\ agenda' = agenda
  BY <1>3, <1>4, <1>5, <1>6, <1>7, JobsMove
<1>8. ASSUME NEW a \in Users,
             jobs[a].state \in {"intent_pending", "manifest_pending"},
             job' = [jobs EXCEPT ![a] = Claimed(jobs[a])],
             agenda' = [agenda EXCEPT ![w] =
               [phase |-> IF a \in sealed THEN "manifest" ELSE "ledger",
                account |-> a, token |-> jobs[a].attempts + 1]]
      PROVE  JobInv'
  <2> DEFINE r == [phase |-> IF a \in sealed THEN "manifest" ELSE "ledger",
                   account |-> a, token |-> jobs[a].attempts + 1]
  <2>1. /\ Claimed(jobs[a]) \in JobRow /\ Claimed(jobs[a]).state = "claimed"
        /\ Claimed(jobs[a]).attempts = jobs[a].attempts + 1
    BY <1>3, ClaimedRow
  <2>2. /\ job' \in [Users -> JobRow]
        /\ job'[a].state = "claimed" /\ job'[a].attempts = job[a].attempts + 1
        /\ \A b \in Users \ {a} : job'[b] = jobs[b]
    BY <1>3, <1>4, <1>8, <2>1
  <2>3. r \in JobRun /\ r.token = job[a].attempts + 1
    BY <1>4 DEF JobRun, JobPhases
  <2>4. /\ agenda' \in [Runners -> {AtRest} \cup JobRun \cup TargetRun]
        /\ agenda'[w] = r
        /\ \A q \in Runners \ {w} : agenda'[q] = agenda[q]
    BY <1>1, <1>6, <1>8, <2>3
  <2>5. RunMatchesSinks(w)'
    BY <1>4, <1>5, <2>2, <2>3, <2>4 DEF RunMatchesSinks, BeforeSeal
  <2> QED
    BY <1>4, <1>5, <1>6, <2>2, <2>4, <2>5, JobsMove
<1> QED
  BY <1>2, <1>7, <1>8

LEMMA RecordFailureKeepsJobInv ==
  ASSUME JobInv, NEW w \in Sweepers, recordRecoveryFailure(w)
  PROVE  JobInv'
<1> DEFINE r == agenda[w]
<1>1. /\ w \in Runners /\ r.phase = "failed" /\ r \in JobRun
      /\ agenda' = [agenda EXCEPT ![w] = AtRest]
      /\ UNCHANGED <<target, sealed, worm, manifest, openWork>>
  BY JobRunFields DEF recordRecoveryFailure, Runners, JobInv, JobPhases
<1>2. CASE HoldsJob(r)
  <2> DEFINE a == r.account
  <2> DEFINE new == Reopened(job[a], RetryState[a], MaxRecoveryAttempts)
  <2>1. a \in Users /\ job[a] \in JobRow
        /\ RetryState[a] = (IF a \in sealed THEN "manifest_pending" ELSE "intent_pending")
    BY <1>1 DEF JobRun, JobInv, ErasureTypeOK, RetryState
  <2>2. RetryState[a] \in JobStates
    BY <2>1 DEF JobStates
  <2>3. new \in JobRow /\ new.attempts = job[a].attempts
        /\ new.state \in {"attention", RetryState[a]}
    BY <2>1, <2>2, ReopenedRow
  <2>4. job' = [job EXCEPT ![a] = new]
    BY <1>2 DEF recordRecoveryFailure
  <2> HIDE DEF new
  <2>5. /\ job' \in [Users -> JobRow] /\ job'[a] = new
        /\ \A b \in Users \ {a} : job'[b] = job[b]
    BY <2>1, <2>3, <2>4 DEF JobInv, ErasureTypeOK
  <2>6. job[a].attempts \in Nat /\ target \in [Users -> JobRow]
    BY <2>1 DEF JobRow, JobInv, ErasureTypeOK
  <2>7. /\ agenda' \in [Runners -> {AtRest} \cup JobRun \cup TargetRun]
        /\ \A p \in Runners : agenda'[p] = agenda[p] \/ RunMatchesSinks(p)'
    BY <1>1 DEF JobInv, ErasureTypeOK, RunMatchesSinks, AtRest, JobPhases
  <2> QED
    BY <1>1, <2>1, <2>3, <2>5, <2>6, <2>7, JobsMove
<1>3. CASE ~HoldsJob(r)
  <2>1. job' = job
    BY <1>3 DEF recordRecoveryFailure
  <2> QED
    BY <1>1, <2>1, RunEnds
<1> QED
  BY <1>2, <1>3

LEMMA ConfirmKeepsJobInv ==
  ASSUME JobInv, NEW p \in Runners, confirmManifest(p)
  PROVE  JobInv'
<1> DEFINE a == agenda[p].account
<1>1. /\ agenda[p].phase = "confirm" /\ agenda[p] \in JobRun
      /\ agenda' = [agenda EXCEPT ![p] = AtRest]
      /\ UNCHANGED <<target, sealed, worm, manifest, openWork>>
  BY JobRunFields DEF confirmManifest, JobInv, JobPhases
<1>2. a \in manifest /\ a \in Users
  BY <1>1 DEF JobInv, RunMatchesSinks, JobRun
<1>3. CASE job[a].state = "manifest_pending"
  <2>1. PICK s \in {"pending", "succeeded"} : job' = [job EXCEPT ![a].state = s]
    BY <1>3 DEF confirmManifest
  <2>2. a \in sealed
    BY <1>2, <1>3 DEF JobInv, JobMatchesSinks
  <2>3. /\ job' \in [Users -> JobRow]
        /\ job'[a].state = s /\ job'[a].attempts = job[a].attempts
        /\ \A b \in Users \ {a} : job'[b] = job[b]
        /\ target \in [Users -> JobRow]
    BY <1>2, <2>1 DEF JobInv, ErasureTypeOK, JobRow, JobStates
  <2>4. /\ agenda' \in [Runners -> {AtRest} \cup JobRun \cup TargetRun]
        /\ \A q \in Runners : agenda'[q] = agenda[q] \/ RunMatchesSinks(q)'
    BY <1>1 DEF JobInv, ErasureTypeOK, RunMatchesSinks, AtRest, JobPhases
  <2> QED
    BY <1>1, <1>2, <2>2, <2>3, <2>4, JobsMove
<1>4. CASE job[a].state # "manifest_pending"
  <2>1. job' = job
    BY <1>4 DEF confirmManifest
  <2> QED
    BY <1>1, <2>1, RunEnds
<1> QED
  BY <1>3, <1>4

LEMMA ReconcileKeepsJobInv ==
  ASSUME JobInv, NEW p \in Runners, reconcile(p)
  PROVE  JobInv'
<1> DEFINE r == [agenda[p] EXCEPT !.phase = "seal"]
<1>1. /\ agenda[p].phase = "reconcile" /\ agenda' = [agenda EXCEPT ![p] = r]
      /\ UNCHANGED <<job, target, sealed, worm, manifest>>
  BY DEF reconcile
<1>2. agenda[p] \in JobRun
  BY <1>1, JobRunFields DEF JobInv, JobPhases
<1>3. /\ r \in JobRun /\ r.phase = "seal"
      /\ r.account = agenda[p].account /\ r.token = agenda[p].token
  BY <1>2 DEF JobRun, JobPhases
<1>4. agenda'[p] = r
  BY <1>1 DEF JobInv, ErasureTypeOK
<1>5. RunMatchesSinks(p)'
  BY <1>1, <1>3, <1>4 DEF JobInv, RunMatchesSinks, JobPhases, BeforeSeal
<1>6. /\ openWork' \in [Users -> Work]
      /\ \A a \in Users : openWork'[a] \in {openWork[a], "none"}
  BY <1>1, <1>2 DEF reconcile, JobInv, ErasureTypeOK, JobRun, Work
<1>7. worm \subseteq Users /\ manifest \subseteq Users
  BY DEF JobInv, ErasureTypeOK
<1> QED
  BY <1>1, <1>3, <1>5, <1>6, <1>7, RunAdvances

LEMMA SealKeepsJobInv ==
  ASSUME JobInv, NEW p \in Runners, sealInventory(p)
  PROVE  JobInv'
<1> DEFINE r == [agenda[p] EXCEPT !.phase = "manifest"]
<1>1. agenda[p].phase = "seal" /\ UNCHANGED <<worm, manifest, openWork>>
  BY DEF sealInventory
<1>2. agenda[p] \in JobRun /\ agenda[p].account \in worm
  BY <1>1, JobRunFields DEF JobInv, JobPhases, RunMatchesSinks
<1> PICK a \in Users : a = agenda[p].account
  BY <1>2 DEF JobRun
<1>3. CASE ~MaySeal(agenda[p])
  <2>1. agenda' = [agenda EXCEPT ![p] = AtRest] /\ UNCHANGED <<job, target, sealed>>
    BY <1>3 DEF sealInventory
  <2> QED
    BY <1>1, <2>1, RunEnds
<1>4. CASE MaySeal(agenda[p]) /\ HasOpenWork(a)
  <2>1. agenda' = [agenda EXCEPT ![p] = Failed(p)] /\ UNCHANGED <<job, target, sealed>>
    BY <1>4 DEF sealInventory
  <2> QED
    BY <1>1, <2>1, FailedRun DEF JobPhases
<1>5. CASE MaySeal(agenda[p]) /\ ~HasOpenWork(a)
  <2>1. /\ job' = [job EXCEPT ![a].state = "manifest_pending"]
        /\ target' = target \/ target' = [target EXCEPT ![a].state = "pending"]
        /\ sealed' = sealed \cup {a}
        /\ agenda' = [agenda EXCEPT ![p] = r]
        /\ openWork[a] = "none"
    BY <1>5 DEF sealInventory, HasOpenWork
  <2>2. /\ job' \in [Users -> JobRow] /\ target' \in [Users -> JobRow]
        /\ job'[a].state = "manifest_pending" /\ job'[a].attempts = job[a].attempts
        /\ target'[a].state \in {target[a].state, "pending"}
        /\ \A b \in Users \ {a} : job'[b] = job[b] /\ target'[b] = target[b]
    <3>1. /\ job' \in [Users -> JobRow]
          /\ job'[a].state = "manifest_pending" /\ job'[a].attempts = job[a].attempts
          /\ \A b \in Users \ {a} : job'[b] = job[b]
      <4>1. /\ job' = [job EXCEPT ![a].state = "manifest_pending"]
            /\ job \in [Users -> JobRow]
        BY <2>1 DEF JobInv, ErasureTypeOK
      <4>2. \A j \in JobRow :
              /\ [j EXCEPT !.state = "manifest_pending"] \in JobRow
              /\ [j EXCEPT !.state = "manifest_pending"].state = "manifest_pending"
              /\ [j EXCEPT !.state = "manifest_pending"].attempts = j.attempts
        BY DEF JobRow, JobStates
      <4> QED
        BY <4>1, <4>2
    <3>2. /\ target' \in [Users -> JobRow]
          /\ target'[a].state \in {target[a].state, "pending"}
          /\ \A b \in Users \ {a} : target'[b] = target[b]
      <4>1. CASE target' = target
        BY <4>1 DEF JobInv, ErasureTypeOK
      <4>2. CASE target' = [target EXCEPT ![a].state = "pending"]
        BY <4>2 DEF JobInv, ErasureTypeOK, JobRow, JobStates
      <4> QED
        BY <2>1, <4>1, <4>2
    <3> QED
      BY <3>1, <3>2
  <2>3. /\ r \in JobRun /\ r.phase = "manifest"
        /\ r.account = a /\ r.token = agenda[p].token
    BY <1>2 DEF JobRun, JobPhases
  <2>4. agenda'[p] = r /\ \A q \in Runners \ {p} : agenda'[q] = agenda[q]
    BY <2>1 DEF JobInv, ErasureTypeOK
  <2>5. ErasureTypeOK'
    BY <1>1, <1>2, <2>1, <2>2, <2>3 DEF JobInv, ErasureTypeOK
  <2>6. SealedIsClosed'
    BY <1>1, <1>2, <2>1, <2>2 DEF JobInv, SealedIsClosed, ErasureTypeOK
  <2>7. JobMatchesSinks' /\ TargetIsConfirmed'
    BY <1>1, <1>2, <2>1, <2>2 DEF JobInv, JobMatchesSinks, TargetIsConfirmed
  <2>8. ASSUME NEW q \in Runners PROVE RunMatchesSinks(q)'
    <3>1. CASE q = p
      <4>1. agenda[p].token <= job[a].attempts
        BY <1>1 DEF JobInv, RunMatchesSinks, JobPhases
      <4>2. /\ agenda'[q].phase = "manifest" /\ agenda'[q].account = a
            /\ agenda'[q].token <= job'[a].attempts
        BY <2>2, <2>3, <2>4, <3>1, <4>1
      <4> QED
        BY <4>2 DEF RunMatchesSinks, BeforeSeal
    <3>2. CASE q # p
      <4>1. \A b \in Users : job[b].attempts \in Nat /\ job'[b].attempts = job[b].attempts
        BY <2>2 DEF JobInv, ErasureTypeOK, JobRow
      <4>2. \A b \in Users : job'[b].state = "claimed" =>
              job[b].state = "claimed" /\ (b \in sealed' => b \in sealed)
        BY <2>1, <2>2
      <4> QED
        BY <1>1, <2>4, <3>2, <4>1, <4>2, RunnersKeep
    <3> QED
      BY <3>1, <3>2
  <2> QED
    BY <2>5, <2>6, <2>7, <2>8 DEF JobInv
<1> QED
  BY <1>3, <1>4, <1>5

-----------------------------------------------------------------------------
(* The target worker.                                                      *)

\* What a step of the target worker must show.
LEMMA TargetsMove ==
  ASSUME JobInv, target' \in [Users -> JobRow], NEW p \in Runners,
         NEW r \in {AtRest} \cup TargetRun, agenda' = [agenda EXCEPT ![p] = r],
         UNCHANGED <<job, sealed, worm, manifest, openWork>>,
         \A a \in Users : target'[a].state = target[a].state \/ a \in sealed \cap manifest
  PROVE  JobInv'
<1>1. r.phase \notin JobPhases
  BY DEF AtRest, TargetRun, JobPhases, TargetPhases
<1>2. /\ agenda' \in [Runners -> {AtRest} \cup JobRun \cup TargetRun]
      /\ \A q \in Runners : agenda'[q] = agenda[q] \/ RunMatchesSinks(q)'
      /\ job \in [Users -> JobRow]
  BY <1>1 DEF JobInv, ErasureTypeOK, RunMatchesSinks
<1> QED
  BY <1>2, JobsMove

LEMMA ClaimTargetKeepsJobInv ==
  ASSUME JobInv, NEW w \in Sweepers, claimTarget(w)
  PROVE  JobInv'
<1>1. w \in Runners /\ target \in [Users -> JobRow] /\ ToPending \in [Users -> JobStates]
  BY DEF Runners, JobInv, ErasureTypeOK, ToPending, JobStates
<1>2. PICK targets \in AfterRecovery(target, ToPending, MaxTargetAttempts) :
        \/ target' = targets /\ agenda' = agenda
        \/ \E a \in Users :
             /\ IsConfirmed(a)
             /\ target' = [targets EXCEPT ![a] = Claimed(targets[a])]
             /\ agenda' = [agenda EXCEPT ![w] =
                  [phase |-> "erase", account |-> a, token |-> targets[a].attempts + 1,
                   deletePhysical |-> legacyDispositionElection(a)]]
  BY DEF claimTarget
<1>3. /\ targets \in [Users -> JobRow]
      /\ \A a \in Users : targets[a] = target[a] \/ target[a].state = "claimed"
  BY <1>1, RecoveredRows
<1>4. \A a \in Users : targets[a].state = target[a].state \/ a \in sealed \cap manifest
  BY <1>3 DEF JobInv, TargetIsConfirmed
<1>5. UNCHANGED <<job, sealed, worm, manifest, openWork>>
  BY DEF claimTarget
<1>6. CASE target' = targets /\ agenda' = agenda
  <2>1. /\ agenda' \in [Runners -> {AtRest} \cup JobRun \cup TargetRun]
        /\ job \in [Users -> JobRow]
    BY <1>6 DEF JobInv, ErasureTypeOK
  <2> QED
    BY <1>3, <1>4, <1>5, <1>6, <2>1, JobsMove
<1>7. ASSUME NEW a \in Users, IsConfirmed(a),
             target' = [targets EXCEPT ![a] = Claimed(targets[a])],
             agenda' = [agenda EXCEPT ![w] =
               [phase |-> "erase", account |-> a, token |-> targets[a].attempts + 1,
                deletePhysical |-> legacyDispositionElection(a)]]
      PROVE  JobInv'
  <2>1. a \in sealed \cap manifest
    BY <1>7 DEF IsConfirmed, JobInv, JobMatchesSinks
  <2>2. Claimed(targets[a]) \in JobRow /\ targets[a].attempts + 1 \in Nat
    BY <1>3, ClaimedRow DEF JobRow
  <2>3. /\ target' \in [Users -> JobRow]
        /\ \A b \in Users : target'[b].state = target[b].state \/ b \in sealed \cap manifest
    BY <1>3, <1>4, <1>7, <2>1, <2>2
  <2>4. [phase |-> "erase", account |-> a, token |-> targets[a].attempts + 1,
         deletePhysical |-> legacyDispositionElection(a)] \in TargetRun
    BY <2>2 DEF TargetRun, TargetPhases, legacyDispositionElection
  <2> QED
    BY <1>1, <1>5, <1>7, <2>3, <2>4, TargetsMove
<1> QED
  BY <1>2, <1>6, <1>7

\* An erasure ends one way or the other, and leaves the rows alone.
LEMMA EraseKeepsJobInv ==
  ASSUME JobInv, NEW w \in Sweepers, erase(w) \/ eraseFails(w)
  PROVE  JobInv'
<1>1. /\ w \in Runners /\ agenda[w].phase = "erase"
      /\ UNCHANGED <<job, target, sealed, worm, manifest, openWork>>
  BY DEF erase, eraseFails, Runners
<1>2. PICK ph \in {"erased", "not_erased"} : agenda' = [agenda EXCEPT ![w].phase = ph]
  BY DEF erase, eraseFails
<1> DEFINE r == [agenda[w] EXCEPT !.phase = ph]
<1>3. agenda[w] \in TargetRun
  BY <1>1, JobRunFields DEF JobInv, TargetPhases
<1>4. r \in TargetRun
  BY <1>3 DEF TargetRun, TargetPhases
<1>5. agenda' = [agenda EXCEPT ![w] = r]
  BY <1>2
<1>6. target \in [Users -> JobRow]
  BY DEF JobInv, ErasureTypeOK
<1> HIDE DEF r
<1> QED
  BY <1>1, <1>4, <1>5, <1>6, TargetsMove

\* The claim that a target run holds is of a confirmed account.
LEMMA HeldTarget ==
  ASSUME JobInv, NEW w \in Sweepers, agenda[w].phase \in TargetPhases, HoldsTarget(agenda[w])
  PROVE  /\ agenda[w].account \in Users
         /\ agenda[w].account \in sealed \cap manifest
<1>1. agenda[w] \in TargetRun
  BY JobRunFields DEF JobInv, Runners
<1> QED
  BY <1>1 DEF HoldsTarget, TargetRun, JobInv, TargetIsConfirmed

LEMMA CompleteKeepsJobInv ==
  ASSUME JobInv, NEW w \in Sweepers, completeTarget(w)
  PROVE  JobInv'
<1>1. /\ w \in Runners /\ agenda[w].phase = "erased"
      /\ agenda' = [agenda EXCEPT ![w] = AtRest]
      /\ UNCHANGED <<sealed, worm, manifest, openWork>>
  BY DEF completeTarget, Runners
<1>2. CASE HoldsTarget(agenda[w])
  <2>1. PICK a \in Users : a = agenda[w].account /\ a \in sealed \cap manifest
    BY <1>1, <1>2, HeldTarget DEF TargetPhases
  <2>2. /\ target' = [target EXCEPT ![a].state = "succeeded"]
        /\ job' = [job EXCEPT ![a].state = "succeeded"]
    BY <1>2, <2>1 DEF completeTarget
  <2>3. /\ job \in [Users -> JobRow] /\ target \in [Users -> JobRow]
    BY DEF JobInv, ErasureTypeOK
  <2>4. \A j \in JobRow :
          /\ [j EXCEPT !.state = "succeeded"] \in JobRow
          /\ [j EXCEPT !.state = "succeeded"].state = "succeeded"
          /\ [j EXCEPT !.state = "succeeded"].attempts = j.attempts
    BY DEF JobRow, JobStates
  <2>5. /\ job' \in [Users -> JobRow] /\ target' \in [Users -> JobRow]
        /\ job'[a].state = "succeeded" /\ job'[a].attempts = job[a].attempts
        /\ \A b \in Users \ {a} : job'[b] = job[b] /\ target'[b] = target[b]
    BY <2>2, <2>3, <2>4
  <2>6. /\ agenda' \in [Runners -> {AtRest} \cup JobRun \cup TargetRun]
        /\ \A p \in Runners : agenda'[p] = agenda[p] \/ RunMatchesSinks(p)'
    BY <1>1 DEF JobInv, ErasureTypeOK, RunMatchesSinks, AtRest, JobPhases
  <2> QED
    BY <1>1, <2>1, <2>5, <2>6, JobsMove
<1>3. CASE ~HoldsTarget(agenda[w])
  <2>1. UNCHANGED <<job, target>>
    BY <1>3 DEF completeTarget
  <2> QED
    BY <1>1, <2>1, RunEnds
<1> QED
  BY <1>2, <1>3

LEMMA FailTargetKeepsJobInv ==
  ASSUME JobInv, NEW w \in Sweepers, failTarget(w)
  PROVE  JobInv'
<1>1. /\ w \in Runners /\ agenda[w].phase = "not_erased"
      /\ agenda' = [agenda EXCEPT ![w] = AtRest]
      /\ UNCHANGED <<job, sealed, worm, manifest, openWork>>
  BY DEF failTarget, Runners
<1>2. CASE HoldsTarget(agenda[w])
  <2>1. PICK a \in Users : a = agenda[w].account /\ a \in sealed \cap manifest
    BY <1>1, <1>2, HeldTarget DEF TargetPhases
  <2>2. target' = [target EXCEPT ![a] = Reopened(target[a], "pending", MaxTargetAttempts)]
    BY <1>2, <2>1 DEF failTarget
  <2>3. target \in [Users -> JobRow] /\ "pending" \in JobStates
    BY DEF JobInv, ErasureTypeOK, JobStates
  <2>4. Reopened(target[a], "pending", MaxTargetAttempts) \in JobRow
    BY <2>3, ReopenedRow
  <2>5. /\ target' \in [Users -> JobRow]
        /\ \A b \in Users : target'[b].state = target[b].state \/ b \in sealed \cap manifest
    BY <2>1, <2>2, <2>3, <2>4
  <2> QED
    BY <1>1, <2>5, TargetsMove
<1>3. CASE ~HoldsTarget(agenda[w])
  <2>1. target' = target
    BY <1>3 DEF failTarget
  <2> QED
    BY <1>1, <2>1, RunEnds
<1> QED
  BY <1>2, <1>3

LEMMA LeaseKeepsJobInv ==
  ASSUME JobInv, NEW a \in Users, LeaseEnds(a)
  PROVE  JobInv'
<1>1. /\ UNCHANGED <<sealed, worm, manifest, openWork, agenda>>
      /\ \/ job' = [job EXCEPT ![a].lapsed = TRUE] /\ target' = target
         \/ target' = [target EXCEPT ![a].lapsed = TRUE] /\ job' = job
  BY DEF LeaseEnds
<1>2. job \in [Users -> JobRow] /\ target \in [Users -> JobRow]
  BY DEF JobInv, ErasureTypeOK
<1>3. \A j \in JobRow :
        /\ [j EXCEPT !.lapsed = TRUE] \in JobRow
        /\ [j EXCEPT !.lapsed = TRUE].state = j.state
        /\ [j EXCEPT !.lapsed = TRUE].attempts = j.attempts
  BY DEF JobRow
<1>4. CASE job' = [job EXCEPT ![a].lapsed = TRUE] /\ target' = target
  <2>1. /\ job' \in [Users -> JobRow]
        /\ \A b \in Users :
             job'[b].state = job[b].state /\ job'[b].attempts = job[b].attempts
    BY <1>2, <1>3, <1>4
  <2>2. agenda' \in [Runners -> {AtRest} \cup JobRun \cup TargetRun]
    BY <1>1 DEF JobInv, ErasureTypeOK
  <2> QED
    BY <1>1, <1>2, <1>4, <2>1, <2>2, JobsMove
<1>5. CASE target' = [target EXCEPT ![a].lapsed = TRUE] /\ job' = job
  <2>1. /\ target' \in [Users -> JobRow]
        /\ \A b \in Users : target'[b].state = target[b].state
    BY <1>2, <1>3, <1>5
  <2>2. agenda' \in [Runners -> {AtRest} \cup JobRun \cup TargetRun]
    BY <1>1 DEF JobInv, ErasureTypeOK
  <2> QED
    BY <1>1, <1>2, <1>5, <2>1, <2>2, JobsMove
<1> QED
  BY <1>1, <1>4, <1>5

LEMMA FaultKeepsJobInv ==
  ASSUME JobInv, NEW p \in Runners, SinkFails(p) \/ ProcessDies(p)
  PROVE  JobInv'
<1>1. CASE SinkFails(p)
  BY <1>1, FailedRun DEF SinkFails, JobPhases
<1>2. CASE ProcessDies(p)
  BY <1>2, RunEnds DEF ProcessDies
<1> QED
  BY <1>1, <1>2

-----------------------------------------------------------------------------
LEMMA RunStepKeepsJobInv ==
  ASSUME JobInv, NEW p \in Runners, RunStep(p)
  PROVE  JobInv'
  BY LedgerKeepsJobInv, ReconcileKeepsJobInv, SealKeepsJobInv, ManifestKeepsJobInv,
     ConfirmKeepsJobInv DEF RunStep

LEMMA JobStep ==
  ASSUME JobInv, [ErasureNext]_erasureVars
  PROVE  JobInv'
<1>1. ASSUME NEW a \in Users, WorkMoves(a) \/ WorkEnds(a)
      PROVE  JobInv'
  BY <1>1, WorkKeepsJobInv
<1>2. ASSUME NEW a \in Users, StoreFile(a) \/ InsertReference(a)
      PROVE  JobInv'
  BY <1>2, IngestKeepsJobInv DEF StoreFile, InsertReference
<1>3. ASSUME NEW a \in Users, acceptIntent(a) \/ RunStep(a) \/ LeaseEnds(a)
      PROVE  JobInv'
  BY <1>3, AcceptKeepsJobInv, RunStepKeepsJobInv, LeaseKeepsJobInv DEF Runners
<1>4. ASSUME NEW w \in Sweepers, SweeperStep(w) \/ eraseFails(w) \/ LateUnlink(w)
      PROVE  JobInv'
  BY <1>4, IngestKeepsJobInv, ClaimJobKeepsJobInv, RunStepKeepsJobInv, RecordFailureKeepsJobInv,
     ClaimTargetKeepsJobInv, EraseKeepsJobInv, CompleteKeepsJobInv, FailTargetKeepsJobInv
     DEF SweeperStep, Runners, LateUnlink
<1>5. ASSUME NEW p \in Runners, SinkFails(p) \/ ProcessDies(p)
      PROVE  JobInv'
  BY <1>5, FaultKeepsJobInv
<1>6. CASE UNCHANGED erasureVars
  BY <1>6, IngestKeepsJobInv DEF erasureVars
<1> QED
  BY <1>1, <1>2, <1>3, <1>4, <1>5, <1>6 DEF ErasureNext

\* claimTarget touches nothing of an account before the ledger and the manifest
\* hold it, its inventory is sealed and its work has ended.
THEOREM ErasedWhenRecoverableThm == ErasureSpec => []ErasedWhenRecoverable
<1>1. JobInv => ErasedWhenRecoverable
  BY DEF JobInv, ErasedWhenRecoverable, TargetIsConfirmed, SealedIsClosed, HasOpenWork,
         ErasureTypeOK
<1>2. JobInv /\ [ErasureNext]_erasureVars => JobInv'
  BY JobStep
<1> QED
  BY <1>1, <1>2, InitJobInv, PTL DEF ErasureSpec

-----------------------------------------------------------------------------
(* The shared file.                                                        *)

\* Whose target is active has the row that the ingest fence looks at.
RowsOfTargets ==
  /\ rows \subseteq Users
  /\ \A a \in Users : ActiveTarget(a) => a \in rows

\* The election of a's claim stands: every row is still being erased, unless a's
\* own erasure is over.
ElectionStands(a) ==
  /\ target[a].state # "none"
  /\ target[a].state = "succeeded" \/ \A b \in rows : ActiveTarget(b)

RunIsElected(w) ==
  agenda[w].phase = "erase" /\ agenda[w].deletePhysical => ElectionStands(agenda[w].account)

\* The election stands of every unlink that is under way, in time or late.
FileInv ==
  /\ RowsOfTargets
  /\ unlinking \in [Runners -> SUBSET Users]
  /\ \A w \in Sweepers : RunIsElected(w)
  /\ \A p \in Runners : \A a \in unlinking[p] : ElectionStands(a)

LEMMA InitFileInv == ErasureInit => FileInv
  BY ErasureAssumption DEF ErasureInit, FileInv, RowsOfTargets, RunIsElected, ActiveTarget, Blank,
     AtRest, Runners

LEMMA TargetRunFields ==
  ASSUME JobInv, NEW w \in Sweepers, agenda[w].phase \in TargetPhases
  PROVE  /\ agenda[w] \in TargetRun /\ agenda[w].account \in Users
         /\ agenda[w].token \in Nat
<1>1. agenda[w] \in TargetRun
  BY JobRunFields DEF JobInv, Runners
<1> QED
  BY <1>1 DEF TargetRun

\* How targets and rows move: a target becomes active over a row, stays active,
\* or succeeds as its row goes.
LEMMA ElectionsStand ==
  ASSUME RowsOfTargets, rows' \subseteq rows,
         \A a \in Users :
           \/ target'[a].state = target[a].state
           \/ ActiveTarget(a) /\ ActiveTarget(a)'
           \/ target[a].state = "none" /\ ActiveTarget(a)' /\ a \in rows
           \/ ActiveTarget(a) /\ target'[a].state = "succeeded" /\ a \notin rows',
         \A a \in rows \ rows' : target'[a].state = "succeeded"
  PROVE  RowsOfTargets' /\ \A a \in Users : ElectionStands(a) => ElectionStands(a)'
<1>1. \A a \in Users : ActiveTarget(a)' => a \in rows'
  BY DEF RowsOfTargets, ActiveTarget
<1>2. \A b \in rows' : ActiveTarget(b) => ActiveTarget(b)'
  BY DEF RowsOfTargets, ActiveTarget
<1>3. ASSUME NEW a \in Users, ElectionStands(a) PROVE ElectionStands(a)'
  <2>1. CASE target[a].state = "succeeded"
    BY <2>1 DEF ElectionStands, ActiveTarget
  <2>2. CASE target[a].state # "succeeded"
    <3>1. \A b \in rows' : ActiveTarget(b)'
      BY <1>2, <1>3, <2>2 DEF ElectionStands
    <3>2. target'[a].state # "none"
      BY <1>3 DEF ElectionStands, ActiveTarget
    <3> QED
      BY <3>1, <3>2 DEF ElectionStands
  <2> QED
    BY <2>1, <2>2
<1>4. rows' \subseteq Users
  BY DEF RowsOfTargets
<1> QED
  BY <1>1, <1>3, <1>4 DEF RowsOfTargets

\* A step that begins no unlink.
LEMMA NoNewUnlink ==
  ASSUME JobInv, FileInv, RowsOfTargets',
         \A a \in Users : ElectionStands(a) => ElectionStands(a)',
         \A w \in Sweepers : agenda'[w] = agenda[w] \/ agenda'[w].phase # "erase",
         unlinking' \in [Runners -> SUBSET Users],
         \A p \in Runners : unlinking'[p] \subseteq unlinking[p]
  PROVE  FileInv'
<1>1. ASSUME NEW w \in Sweepers PROVE RunIsElected(w)'
  <2>1. CASE agenda'[w].phase # "erase"
    BY <2>1 DEF RunIsElected
  <2>2. CASE agenda'[w] = agenda[w] /\ agenda[w].phase = "erase"
    <3>1. PICK a \in Users : a = agenda[w].account
      BY <2>2, TargetRunFields DEF TargetPhases
    <3>2. agenda[w].deletePhysical => ElectionStands(a)
      BY <2>2, <3>1 DEF FileInv, RunIsElected
    <3>3. ElectionStands(a) => ElectionStands(a)'
      OBVIOUS
    <3> QED
      BY <2>2, <3>1, <3>2, <3>3 DEF RunIsElected
  <2> QED
    BY <2>1, <2>2
<1>2. ASSUME NEW p \in Runners, NEW a \in unlinking'[p] PROVE ElectionStands(a)'
  <2>1. a \in unlinking[p] /\ a \in Users /\ ElectionStands(a)
    BY DEF FileInv
  <2> QED
    BY <2>1
<1> QED
  BY <1>1, <1>2 DEF FileInv

\* A step that leaves targets and rows alone, and begins no unlink.
LEMMA TargetsAlone ==
  ASSUME JobInv, FileInv, UNCHANGED <<target, rows, unlinking>>,
         \A w \in Sweepers : agenda'[w] = agenda[w] \/ agenda'[w].phase # "erase"
  PROVE  FileInv'
<1>1. RowsOfTargets' /\ \A a \in Users : ElectionStands(a) => ElectionStands(a)'
  BY DEF FileInv, RowsOfTargets, ActiveTarget, ElectionStands
<1>2. unlinking' \in [Runners -> SUBSET Users] /\ \A p \in Runners : unlinking'[p] \subseteq unlinking[p]
  BY DEF FileInv
<1> QED
  BY <1>1, <1>2, NoNewUnlink

\* A runner's step sets its own agenda only.
LEMMA OwnAgenda ==
  ASSUME JobInv, NEW p \in Runners, NEW r, agenda' = [agenda EXCEPT ![p] = r]
  PROVE  agenda'[p] = r /\ \A q \in Runners \ {p} : agenda'[q] = agenda[q]
  BY DEF JobInv, ErasureTypeOK

\* The steps of a request or of the recovery worker, but for the seal.
LEMMA JobRunKeepsFileInv ==
  ASSUME JobInv, FileInv, NEW p \in Runners, NEW r,
         agenda' = [agenda EXCEPT ![p] = r], r.phase # "erase",
         UNCHANGED <<target, rows, unlinking>>
  PROVE  FileInv'
<1>1. \A w \in Sweepers : agenda'[w] = agenda[w] \/ agenda'[w].phase # "erase"
  BY OwnAgenda DEF Runners
<1> QED
  BY <1>1, TargetsAlone

LEMMA RunAdvancesFile ==
  ASSUME JobInv, FileInv, NEW p \in Runners, agenda[p].phase \in JobPhases,
         NEW ph \in JobPhases, agenda' = [agenda EXCEPT ![p].phase = ph],
         UNCHANGED <<target, rows, unlinking>>
  PROVE  FileInv'
<1> DEFINE r == [agenda[p] EXCEPT !.phase = ph]
<1>1. agenda[p] \in JobRun
  BY JobRunFields DEF JobInv
<1>2. r.phase = ph
  BY <1>1 DEF JobRun
<1>3. agenda' = [agenda EXCEPT ![p] = r]
  OBVIOUS
<1>4. r.phase # "erase"
  BY <1>2 DEF JobPhases
<1> HIDE DEF r
<1> QED
  BY <1>3, <1>4, JobRunKeepsFileInv

LEMMA FailedRunFile ==
  ASSUME JobInv, FileInv, NEW p \in Runners, agenda[p].phase \in JobPhases,
         agenda' = [agenda EXCEPT ![p] = Failed(p)], UNCHANGED <<target, rows, unlinking>>
  PROVE  FileInv'
<1>1. CASE p \in Sweepers
  BY <1>1, RunAdvancesFile DEF Failed, JobPhases
<1>2. CASE p \notin Sweepers
  <2>1. AtRest.phase # "erase"
    BY DEF AtRest
  <2> QED
    BY <1>2, <2>1, JobRunKeepsFileInv DEF Failed
<1> QED
  BY <1>1, <1>2

LEMMA SealKeepsFileInv ==
  ASSUME JobInv, FileInv, NEW p \in Runners, sealInventory(p)
  PROVE  FileInv'
<1>1. /\ agenda[p].phase = "seal" /\ agenda[p].phase \in JobPhases
      /\ UNCHANGED <<rows, unlinking>>
  BY DEF sealInventory, contentVars, JobPhases
<1>2. agenda[p] \in JobRun
  BY <1>1, JobRunFields DEF JobInv
<1> PICK a \in Users : a = agenda[p].account
  BY <1>2 DEF JobRun
<1>3. CASE ~MaySeal(agenda[p])
  <2>1. agenda' = [agenda EXCEPT ![p] = AtRest] /\ UNCHANGED target
    BY <1>3 DEF sealInventory
  <2>2. AtRest.phase # "erase"
    BY DEF AtRest
  <2> QED
    BY <1>1, <2>1, <2>2, JobRunKeepsFileInv
<1>4. CASE MaySeal(agenda[p]) /\ HasOpenWork(a)
  <2>1. agenda' = [agenda EXCEPT ![p] = Failed(p)] /\ UNCHANGED target
    BY <1>4 DEF sealInventory
  <2> QED
    BY <1>1, <2>1, FailedRunFile
<1>5. CASE MaySeal(agenda[p]) /\ ~HasOpenWork(a)
  <2>1. /\ target' = IF a \in rows THEN [target EXCEPT ![a].state = "pending"] ELSE target
        /\ agenda' = [agenda EXCEPT ![p].phase = "manifest"]
    BY <1>5 DEF sealInventory
  <2>2. a \notin sealed
    <3>1. CASE agenda[p].token = 0
      BY <1>5, <3>1 DEF MaySeal, JobInv, SealedIsClosed
    <3>2. CASE agenda[p].token # 0
      BY <1>1, <1>5, <3>2 DEF MaySeal, HoldsJob, JobInv, RunMatchesSinks, BeforeSeal
    <3> QED
      BY <3>1, <3>2
  <2>3. target[a].state = "none" /\ target \in [Users -> JobRow]
    BY <2>2 DEF JobInv, TargetIsConfirmed, ErasureTypeOK
  <2>4. CASE a \notin rows
    BY <1>1, <2>1, <2>4, RunAdvancesFile DEF JobPhases
  <2>5. CASE a \in rows
    <3>1. target' = [target EXCEPT ![a].state = "pending"]
      BY <2>1, <2>5
    <3>2. \A j \in JobRow : [j EXCEPT !.state = "pending"].state = "pending"
      BY DEF JobRow
    <3>3. target'[a].state = "pending" /\ \A b \in Users \ {a} : target'[b] = target[b]
      BY <2>3, <3>1, <3>2
    <3>4. RowsOfTargets' /\ \A b \in Users : ElectionStands(b) => ElectionStands(b)'
      BY <1>1, <2>3, <2>5, <3>3, ElectionsStand DEF FileInv, ActiveTarget
    <3>5. ASSUME NEW w \in Sweepers
          PROVE  agenda'[w] = agenda[w] \/ agenda'[w].phase # "erase"
      <4> DEFINE r == [agenda[p] EXCEPT !.phase = "manifest"]
      <4>1. agenda' = [agenda EXCEPT ![p] = r] /\ r.phase # "erase"
        BY <1>2, <2>1 DEF JobRun
      <4> HIDE DEF r
      <4> QED
        BY <4>1, OwnAgenda DEF Runners
    <3>6. /\ unlinking' \in [Runners -> SUBSET Users]
          /\ \A q \in Runners : unlinking'[q] \subseteq unlinking[q]
      BY <1>1 DEF FileInv
    <3> QED
      BY <3>4, <3>5, <3>6, NoNewUnlink
  <2> QED
    BY <2>4, <2>5
<1> QED
  BY <1>3, <1>4, <1>5

\* The fence: while an election stands whose target is active, the row of that
\* target is there and nothing is ingested.
LEMMA IngestKeepsFileInv ==
  ASSUME JobInv, FileInv, NEW a \in Users, InsertReference(a)
  PROVE  FileInv'
<1>1. /\ UNCHANGED <<target, agenda, unlinking>>
      /\ \/ rows' = rows
         \/ ContentIsFree /\ rows' = rows \cup {a}
  BY DEF InsertReference
<1>2. CASE rows' = rows
  BY <1>1, <1>2, TargetsAlone
<1>3. CASE ContentIsFree /\ rows' = rows \cup {a}
  <2>1. RowsOfTargets'
    BY <1>1, <1>3 DEF FileInv, RowsOfTargets, ActiveTarget
  <2>2. ASSUME NEW b \in Users, ElectionStands(b) PROVE ElectionStands(b)'
    <3>1. target[b].state = "succeeded"
      BY <1>3, <2>2 DEF FileInv, RowsOfTargets, ElectionStands, ContentIsFree, ActiveTarget
    <3> QED
      BY <1>1, <3>1 DEF ElectionStands
  <2>3. /\ unlinking' \in [Runners -> SUBSET Users]
        /\ \A q \in Runners : unlinking'[q] \subseteq unlinking[q]
    BY <1>1 DEF FileInv
  <2> QED
    BY <1>1, <2>1, <2>2, <2>3, NoNewUnlink
<1> QED
  BY <1>1, <1>2, <1>3

LEMMA EraseKeepsFileInv ==
  ASSUME JobInv, FileInv, NEW w \in Sweepers, erase(w) \/ eraseFails(w)
  PROVE  FileInv'
<1>1. /\ w \in Runners /\ agenda[w].phase = "erase" /\ UNCHANGED <<target, rows>>
  BY DEF erase, eraseFails, Runners
<1>2. agenda[w] \in TargetRun /\ agenda[w].account \in Users
  BY <1>1, TargetRunFields DEF TargetPhases
<1>3. PICK ph \in {"erased", "not_erased"} : agenda' = [agenda EXCEPT ![w].phase = ph]
  BY DEF erase, eraseFails
<1> DEFINE r == [agenda[w] EXCEPT !.phase = ph]
<1>4. agenda' = [agenda EXCEPT ![w] = r] /\ r.phase # "erase"
  BY <1>2, <1>3 DEF TargetRun
<1> HIDE DEF r
<1>5. CASE UNCHANGED unlinking
  BY <1>1, <1>4, <1>5, JobRunKeepsFileInv
<1>6. CASE /\ agenda[w].deletePhysical
           /\ unlinking' = [unlinking EXCEPT ![w] = unlinking[w] \cup {agenda[w].account}]
  <2>1. ElectionStands(agenda[w].account)
    BY <1>1, <1>6 DEF FileInv, RunIsElected
  <2>2. \A v \in Sweepers : agenda'[v] = agenda[v] \/ agenda'[v].phase # "erase"
    BY <1>1, <1>4, OwnAgenda DEF Runners
  <2>3. unlinking' \in [Runners -> SUBSET Users]
    BY <1>1, <1>2, <1>6 DEF FileInv
  <2>4. \A p \in Runners : \A a \in unlinking'[p] : ElectionStands(a)
    BY <1>1, <1>6, <2>1 DEF FileInv
  <2>6. RowsOfTargets'
    BY <1>1 DEF FileInv, RowsOfTargets, ActiveTarget
  <2>7. \A v \in Sweepers : RunIsElected(v)'
    BY <1>1, <2>2 DEF FileInv, RunIsElected, ElectionStands, ActiveTarget
  <2> QED
    BY <1>1, <2>3, <2>4, <2>6, <2>7 DEF FileInv, ElectionStands, ActiveTarget
<1> QED
  BY <1>5, <1>6 DEF erase, eraseFails

LEMMA LateUnlinkKeepsFileInv ==
  ASSUME JobInv, FileInv, NEW w \in Sweepers, LateUnlink(w)
  PROVE  FileInv'
<1>1. UNCHANGED <<target, rows, agenda>>
  BY DEF LateUnlink
<1>2. RowsOfTargets' /\ \A a \in Users : ElectionStands(a) => ElectionStands(a)'
  BY <1>1 DEF FileInv, RowsOfTargets, ActiveTarget, ElectionStands
<1>3. PICK a : unlinking' = [unlinking EXCEPT ![w] = unlinking[w] \ {a}]
  BY DEF LateUnlink
<1>4. /\ unlinking' \in [Runners -> SUBSET Users]
      /\ \A p \in Runners : unlinking'[p] \subseteq unlinking[p]
  BY <1>3 DEF FileInv, Runners
<1> QED
  BY <1>1, <1>2, <1>4, NoNewUnlink

\* A target run that records its end changes the target it holds and no other.
LEMMA EndKeepsFileInv ==
  ASSUME JobInv, FileInv, NEW w \in Sweepers, NEW a \in Users, a = agenda[w].account,
         HoldsTarget(agenda[w]), agenda' = [agenda EXCEPT ![w] = AtRest],
         UNCHANGED unlinking,
         NEW row \in JobRow, target' = [target EXCEPT ![a] = row],
         \/ rows' = rows /\ row.state \in {"pending", "attention"}
         \/ rows' = rows \ {a} /\ row.state = "succeeded"
  PROVE  FileInv'
<1>1. target \in [Users -> JobRow] /\ w \in Runners
  BY DEF JobInv, ErasureTypeOK, Runners
<1>2. target'[a] = row /\ \A b \in Users \ {a} : target'[b] = target[b]
  BY <1>1
<1>3. target[a].state = "claimed"
  BY DEF HoldsTarget
<1>4. RowsOfTargets' /\ \A b \in Users : ElectionStands(b) => ElectionStands(b)'
  BY <1>2, <1>3, ElectionsStand DEF FileInv, ActiveTarget
<1>5. \A v \in Sweepers : agenda'[v] = agenda[v] \/ agenda'[v].phase # "erase"
  BY <1>1, OwnAgenda DEF AtRest, Runners
<1>6. /\ unlinking' \in [Runners -> SUBSET Users]
      /\ \A q \in Runners : unlinking'[q] \subseteq unlinking[q]
  BY DEF FileInv
<1> QED
  BY <1>4, <1>5, <1>6, NoNewUnlink

LEMMA CompleteKeepsFileInv ==
  ASSUME JobInv, FileInv, NEW w \in Sweepers, completeTarget(w)
  PROVE  FileInv'
<1>1. /\ w \in Runners /\ agenda[w].phase = "erased" /\ agenda[w].phase \in TargetPhases
      /\ agenda' = [agenda EXCEPT ![w] = AtRest] /\ UNCHANGED unlinking
  BY DEF completeTarget, Runners, TargetPhases
<1>2. CASE HoldsTarget(agenda[w])
  <2>1. PICK a \in Users : a = agenda[w].account
    BY <1>1, <1>2, HeldTarget
  <2> DEFINE row == [target[a] EXCEPT !.state = "succeeded"]
  <2>2. target[a] \in JobRow
    BY DEF JobInv, ErasureTypeOK
  <2>3. row \in JobRow /\ row.state = "succeeded"
    BY <2>2 DEF JobRow, JobStates
  <2>4. target' = [target EXCEPT ![a] = row] /\ rows' = rows \ {a}
    BY <1>2, <2>1 DEF completeTarget
  <2> HIDE DEF row
  <2> QED
    BY <1>1, <1>2, <2>1, <2>3, <2>4, EndKeepsFileInv
<1>3. CASE ~HoldsTarget(agenda[w])
  <2>1. UNCHANGED <<target, rows>>
    BY <1>3 DEF completeTarget
  <2>2. AtRest.phase # "erase"
    BY DEF AtRest
  <2> QED
    BY <1>1, <2>1, <2>2, JobRunKeepsFileInv
<1> QED
  BY <1>2, <1>3

LEMMA FailTargetKeepsFileInv ==
  ASSUME JobInv, FileInv, NEW w \in Sweepers, failTarget(w)
  PROVE  FileInv'
<1>1. /\ w \in Runners /\ agenda[w].phase \in TargetPhases
      /\ agenda' = [agenda EXCEPT ![w] = AtRest] /\ UNCHANGED <<rows, unlinking>>
  BY DEF failTarget, Runners, TargetPhases, contentVars
<1>2. CASE HoldsTarget(agenda[w])
  <2>1. PICK a \in Users : a = agenda[w].account
    BY <1>1, <1>2, HeldTarget
  <2> DEFINE row == Reopened(target[a], "pending", MaxTargetAttempts)
  <2>2. target[a] \in JobRow /\ "pending" \in JobStates
    BY DEF JobInv, ErasureTypeOK, JobStates
  <2>3. row \in JobRow /\ row.state \in {"pending", "attention"}
    BY <2>2, ReopenedRow
  <2>4. target' = [target EXCEPT ![a] = row]
    BY <1>2, <2>1 DEF failTarget
  <2> HIDE DEF row
  <2> QED
    BY <1>1, <1>2, <2>1, <2>3, <2>4, EndKeepsFileInv
<1>3. CASE ~HoldsTarget(agenda[w])
  <2>1. target' = target
    BY <1>3 DEF failTarget
  <2>2. AtRest.phase # "erase"
    BY DEF AtRest
  <2> QED
    BY <1>1, <2>1, <2>2, JobRunKeepsFileInv
<1> QED
  BY <1>2, <1>3

\* A lease may run out at any step of a run, the unlink included: elections do
\* not rest on it.
LEMMA LeaseKeepsFileInv ==
  ASSUME JobInv, FileInv, NEW a \in Users, LeaseEnds(a)
  PROVE  FileInv'
<1>1. UNCHANGED <<rows, agenda, unlinking>>
  BY DEF LeaseEnds, contentVars
<1>2. target \in [Users -> JobRow]
  BY DEF JobInv, ErasureTypeOK
<1>3. \A j \in JobRow : [j EXCEPT !.lapsed = TRUE].state = j.state
  BY DEF JobRow
<1>4. \A b \in Users : target'[b].state = target[b].state
  BY <1>2, <1>3 DEF LeaseEnds
<1>5. RowsOfTargets' /\ \A b \in Users : ElectionStands(b) => ElectionStands(b)'
  BY <1>1, <1>4, ElectionsStand DEF FileInv
<1>6. /\ unlinking' \in [Runners -> SUBSET Users]
      /\ \A q \in Runners : unlinking'[q] \subseteq unlinking[q]
  BY <1>1 DEF FileInv
<1> QED
  BY <1>1, <1>5, <1>6, NoNewUnlink

LEMMA ClaimTargetKeepsFileInv ==
  ASSUME JobInv, FileInv, NEW w \in Sweepers, claimTarget(w)
  PROVE  FileInv'
<1>1. w \in Runners /\ target \in [Users -> JobRow] /\ ToPending \in [Users -> JobStates]
  BY DEF Runners, JobInv, ErasureTypeOK, ToPending, JobStates
<1>2. PICK targets \in AfterRecovery(target, ToPending, MaxTargetAttempts) :
        \/ target' = targets /\ agenda' = agenda
        \/ \E a \in Users :
             /\ targets[a].state = "pending"
             /\ target' = [targets EXCEPT ![a] = Claimed(targets[a])]
             /\ agenda' = [agenda EXCEPT ![w] =
                  [phase |-> "erase", account |-> a, token |-> targets[a].attempts + 1,
                   deletePhysical |-> legacyDispositionElection(a)]]
  BY DEF claimTarget
<1>3. /\ targets \in [Users -> JobRow]
      /\ \A a \in Users :
           \/ targets[a] = target[a]
           \/ target[a].state = "claimed" /\ targets[a].state \in {"attention", "pending"}
  BY <1>1, RecoveredRows DEF ToPending
<1>4. UNCHANGED <<rows, unlinking>>
  BY DEF claimTarget, contentVars
<1>5. /\ unlinking' \in [Runners -> SUBSET Users]
      /\ \A q \in Runners : unlinking'[q] \subseteq unlinking[q]
  BY <1>4 DEF FileInv
<1>6. CASE target' = targets /\ agenda' = agenda
  <2>1. RowsOfTargets' /\ \A b \in Users : ElectionStands(b) => ElectionStands(b)'
    BY <1>3, <1>4, <1>6, ElectionsStand DEF FileInv, ActiveTarget
  <2> QED
    BY <1>5, <1>6, <2>1, NoNewUnlink
<1>7. ASSUME NEW a \in Users, targets[a].state = "pending",
             target' = [targets EXCEPT ![a] = Claimed(targets[a])],
             agenda' = [agenda EXCEPT ![w] =
               [phase |-> "erase", account |-> a, token |-> targets[a].attempts + 1,
                deletePhysical |-> legacyDispositionElection(a)]]
      PROVE  FileInv'
  <2> DEFINE r == [phase |-> "erase", account |-> a, token |-> targets[a].attempts + 1,
                   deletePhysical |-> legacyDispositionElection(a)]
  <2> HIDE DEF r
  <2>1. Claimed(targets[a]) \in JobRow /\ Claimed(targets[a]).state = "claimed"
    BY <1>3, ClaimedRow
  <2>2. /\ target'[a].state = "claimed" /\ \A b \in Users \ {a} : target'[b] = targets[b]
    BY <1>3, <1>7, <2>1
  <2>3. /\ r.account = a
        /\ r.deletePhysical => legacyDispositionElection(a)
    BY DEF r
  <2>4. agenda'[w] = r /\ \A v \in Sweepers \ {w} : agenda'[v] = agenda[v]
    BY <1>1, <1>7, OwnAgenda DEF Runners, r
  <2>5. ActiveTarget(a)
    BY <1>3, <1>7 DEF ActiveTarget
  <2>6. RowsOfTargets' /\ \A b \in Users : ElectionStands(b) => ElectionStands(b)'
    BY <1>3, <1>4, <2>2, <2>5, ElectionsStand DEF FileInv, ActiveTarget
  <2>7. legacyDispositionElection(a) => ElectionStands(a)
    BY <2>5 DEF legacyDispositionElection, ElectionStands, ActiveTarget
  <2>8. ASSUME NEW v \in Sweepers PROVE RunIsElected(v)'
    <3>1. CASE v = w
      <4>1. agenda'[v].deletePhysical => ElectionStands(a)'
        BY <2>3, <2>4, <2>6, <2>7, <3>1
      <4>2. agenda'[v].account = a
        BY <2>3, <2>4, <3>1
      <4> QED
        BY <4>1, <4>2 DEF RunIsElected
    <3>2. CASE v # w /\ agenda[v].phase = "erase"
      <4>1. PICK b \in Users : b = agenda[v].account
        BY <3>2, TargetRunFields DEF TargetPhases
      <4>2. agenda'[v] = agenda[v] /\ (agenda[v].deletePhysical => ElectionStands(b))
        BY <2>4, <3>2, <4>1 DEF FileInv, RunIsElected
      <4>3. ElectionStands(b) => ElectionStands(b)'
        BY <2>6
      <4> QED
        BY <4>1, <4>2, <4>3 DEF RunIsElected
    <3>3. CASE v # w /\ agenda[v].phase # "erase"
      BY <2>4, <3>3 DEF RunIsElected
    <3> QED
      BY <3>1, <3>2, <3>3
  <2>9. ASSUME NEW p \in Runners, NEW b \in unlinking'[p] PROVE ElectionStands(b)'
    <3>1. b \in Users /\ ElectionStands(b)
      BY <1>4 DEF FileInv
    <3> QED
      BY <2>6, <3>1
  <2> QED
    BY <1>5, <2>6, <2>8, <2>9 DEF FileInv
<1> QED
  BY <1>2, <1>6, <1>7

LEMMA RunStepKeepsFileInv ==
  ASSUME JobInv, FileInv, NEW p \in Runners, RunStep(p)
  PROVE  FileInv'
<1>1. CASE confirmedLedgerInput(p)
  BY <1>1, RunAdvancesFile DEF confirmedLedgerInput, contentVars, JobPhases
<1>2. CASE reconcile(p)
  BY <1>2, RunAdvancesFile DEF reconcile, contentVars, JobPhases
<1>3. CASE confirmedRecoveryManifest(p)
  BY <1>3, RunAdvancesFile DEF confirmedRecoveryManifest, contentVars, JobPhases
<1>4. CASE confirmManifest(p)
  <2>1. AtRest.phase # "erase"
    BY DEF AtRest
  <2> QED
    BY <1>4, <2>1, JobRunKeepsFileInv DEF confirmManifest, contentVars
<1> QED
  BY <1>1, <1>2, <1>3, <1>4, SealKeepsFileInv DEF RunStep

LEMMA RecoveryKeepsFileInv ==
  ASSUME JobInv, FileInv, NEW w \in Sweepers,
         claimIntentForRecovery(w) \/ recordRecoveryFailure(w)
  PROVE  FileInv'
<1>1. w \in Runners /\ UNCHANGED <<target, rows, unlinking>>
  BY DEF Runners, claimIntentForRecovery, recordRecoveryFailure, contentVars
<1>2. CASE agenda' = agenda
  BY <1>1, <1>2, TargetsAlone
<1>3. CASE \E r : r.phase # "erase" /\ agenda' = [agenda EXCEPT ![w] = r]
  BY <1>1, <1>3, JobRunKeepsFileInv
<1>4. CASE recordRecoveryFailure(w)
  <2>1. AtRest.phase # "erase"
    BY DEF AtRest
  <2> QED
    BY <1>3, <1>4, <2>1 DEF recordRecoveryFailure
<1>5. ASSUME claimIntentForRecovery(w), agenda' # agenda
      PROVE  \E r : r.phase # "erase" /\ agenda' = [agenda EXCEPT ![w] = r]
  <2>1. PICK jobs \in AfterRecovery(job, RetryState, MaxRecoveryAttempts), a \in Users :
          agenda' = [agenda EXCEPT ![w] =
                      [phase |-> IF a \in sealed THEN "manifest" ELSE "ledger",
                       account |-> a, token |-> jobs[a].attempts + 1]]
    BY <1>5 DEF claimIntentForRecovery
  <2> DEFINE r == [phase |-> IF a \in sealed THEN "manifest" ELSE "ledger",
                   account |-> a, token |-> jobs[a].attempts + 1]
  <2>2. r.phase # "erase"
    OBVIOUS
  <2> HIDE DEF r
  <2>3. agenda' = [agenda EXCEPT ![w] = r]
    BY <2>1 DEF r
  <2> QED
    BY <2>2, <2>3
<1> QED
  BY <1>2, <1>3, <1>4, <1>5

LEMMA DeathKeepsFileInv ==
  ASSUME JobInv, FileInv, NEW p \in Runners, ProcessDies(p)
  PROVE  FileInv'
<1>1. /\ UNCHANGED <<target, rows>> /\ agenda' = [agenda EXCEPT ![p] = AtRest]
      /\ unlinking' = [unlinking EXCEPT ![p] = {}]
  BY DEF ProcessDies
<1>2. RowsOfTargets' /\ \A a \in Users : ElectionStands(a) => ElectionStands(a)'
  BY <1>1 DEF FileInv, RowsOfTargets, ActiveTarget, ElectionStands
<1>3. \A w \in Sweepers : agenda'[w] = agenda[w] \/ agenda'[w].phase # "erase"
  BY <1>1, OwnAgenda DEF AtRest, Runners
<1>4. /\ unlinking' \in [Runners -> SUBSET Users]
      /\ \A q \in Runners : unlinking'[q] \subseteq unlinking[q]
  BY <1>1 DEF FileInv
<1> QED
  BY <1>2, <1>3, <1>4, NoNewUnlink

LEMMA FileStep ==
  ASSUME JobInv, FileInv, [ErasureNext]_erasureVars
  PROVE  FileInv'
<1>1. ASSUME NEW a \in Users, WorkMoves(a) \/ WorkEnds(a) \/ StoreFile(a)
      PROVE  FileInv'
  BY <1>1, TargetsAlone DEF WorkMoves, WorkEnds, StoreFile, contentVars
<1>2. ASSUME NEW a \in Users, acceptIntent(a)
      PROVE  FileInv'
  <2> DEFINE r == [phase |-> "ledger", account |-> a, token |-> 0]
  <2>1. r.phase # "erase"
    OBVIOUS
  <2>2. a \in Runners /\ UNCHANGED <<target, rows, unlinking>> /\ agenda' = [agenda EXCEPT ![a] = r]
    BY <1>2 DEF acceptIntent, contentVars, Runners
  <2> HIDE DEF r
  <2> QED
    BY <2>1, <2>2, JobRunKeepsFileInv
<1>3. ASSUME NEW a \in Users, InsertReference(a) \/ RunStep(a) \/ LeaseEnds(a)
      PROVE  FileInv'
  BY <1>3, IngestKeepsFileInv, RunStepKeepsFileInv, LeaseKeepsFileInv DEF Runners
<1>4. ASSUME NEW w \in Sweepers, SweeperStep(w) \/ eraseFails(w) \/ LateUnlink(w)
      PROVE  FileInv'
  BY <1>4, RunStepKeepsFileInv, RecoveryKeepsFileInv, ClaimTargetKeepsFileInv,
     EraseKeepsFileInv, CompleteKeepsFileInv, FailTargetKeepsFileInv, LateUnlinkKeepsFileInv
     DEF SweeperStep, Runners
<1>5. ASSUME NEW p \in Runners, SinkFails(p) \/ ProcessDies(p)
      PROVE  FileInv'
  BY <1>5, FailedRunFile, DeathKeepsFileInv DEF SinkFails, contentVars, JobPhases
<1>6. CASE UNCHANGED erasureVars
  BY <1>6, TargetsAlone DEF erasureVars, contentVars
<1> QED
  BY <1>1, <1>2, <1>3, <1>4, <1>5, <1>6 DEF ErasureNext

\* Only the unlink of a claim that was elected removes the file, and when it
\* does, in time or late, the election stands: every row is still being erased,
\* unless that target has succeeded under another claim in the meantime.
THEOREM SharedFileSurvivesThm == ErasureSpec => SharedFileSurvives
<1>1. ASSUME JobInv, FileInv, [ErasureNext]_erasureVars PROVE RemovesItsOwn
  <2> SUFFICES ASSUME fileExists, ~fileExists'
               PROVE  \E a \in Users :
                        /\ Unlinks(a)
                        /\ target[a].state = "succeeded" \/ \A b \in rows : ActiveTarget(b)
    BY DEF RemovesItsOwn
  <2>1. ASSUME NEW p \in Runners, RunStep(p) PROVE fileExists'
    BY <2>1 DEF RunStep, confirmedLedgerInput, reconcile, sealInventory,
       confirmedRecoveryManifest, confirmManifest, contentVars
  <2>2. ASSUME NEW a \in Users, WorkMoves(a) \/ WorkEnds(a) \/ acceptIntent(a) \/ LeaseEnds(a)
        PROVE fileExists'
    BY <2>2 DEF WorkMoves, WorkEnds, acceptIntent, LeaseEnds, contentVars
  <2>3. ASSUME NEW a \in Users, StoreFile(a) \/ InsertReference(a) PROVE fileExists'
    BY <2>3 DEF StoreFile, InsertReference
  <2>4. ASSUME NEW p \in Runners, SinkFails(p) \/ ProcessDies(p) PROVE fileExists'
    BY <2>4 DEF SinkFails, ProcessDies, contentVars
  <2>5. ASSUME NEW w \in Sweepers,
               claimIntentForRecovery(w) \/ recordRecoveryFailure(w) \/ claimTarget(w)
                 \/ completeTarget(w) \/ failTarget(w) \/ eraseFails(w)
        PROVE fileExists'
    BY <2>5 DEF claimIntentForRecovery, recordRecoveryFailure, claimTarget, completeTarget,
       failTarget, eraseFails, contentVars
  <2>6. ASSUME UNCHANGED erasureVars PROVE fileExists'
    <3>1. UNCHANGED contentVars
      BY <2>6 DEF erasureVars
    <3> QED
      BY <3>1 DEF contentVars
  <2>7. PICK w \in Sweepers : erase(w) \/ LateUnlink(w)
    BY <1>1, <2>1, <2>2, <2>3, <2>4, <2>5, <2>6 DEF ErasureNext, SweeperStep, Runners
  <2>8. CASE erase(w)
    <3>1. agenda[w].phase = "erase" /\ agenda[w].deletePhysical
      BY <2>8 DEF erase
    <3>2. agenda[w] \in TargetRun /\ agenda[w].account \in Users
      BY <1>1, <3>1, TargetRunFields DEF TargetPhases
    <3> DEFINE r == [agenda[w] EXCEPT !.phase = "erased"]
    <3>3. r.phase = "erased" /\ agenda' = [agenda EXCEPT ![w] = r]
      BY <2>8, <3>2 DEF erase, TargetRun
    <3> HIDE DEF r
    <3>4. agenda'[w].phase = "erased"
      BY <1>1, <3>3, OwnAgenda DEF Runners
    <3>5. Unlinks(agenda[w].account)
      BY <3>1, <3>4 DEF Unlinks
    <3>6. ElectionStands(agenda[w].account)
      BY <1>1, <3>1 DEF FileInv, RunIsElected
    <3> QED
      BY <3>2, <3>5, <3>6 DEF ElectionStands
  <2>9. CASE LateUnlink(w)
    <3>1. PICK a \in unlinking[w] : unlinking' = [unlinking EXCEPT ![w] = unlinking[w] \ {a}]
      BY <2>9 DEF LateUnlink
    <3>2. a \in Users /\ ElectionStands(a) /\ a \notin unlinking'[w]
      BY <1>1, <3>1 DEF FileInv, Runners
    <3>3. Unlinks(a)
      BY <3>1, <3>2 DEF Unlinks
    <3> QED
      BY <3>2, <3>3 DEF ElectionStands
  <2> QED
    BY <2>7, <2>8, <2>9
<1>2. JobInv /\ FileInv /\ [ErasureNext]_erasureVars => JobInv' /\ FileInv'
  BY JobStep, FileStep
<1> QED
  BY <1>1, <1>2, InitJobInv, InitFileInv, PTL DEF ErasureSpec, SharedFileSurvives

-----------------------------------------------------------------------------
(* Billing: the plan is what the set of events says that arrived, and the slots*)
(* of a voucher are the accounts it credited.                              *)

Places == {"idle", "locked", "counted", "ended"}
Accounted == {RedeemerOf[v] : v \in Redeemers}

\* Only an event that was applied is credited as an invoice, so a delivery that
\* finds its credit brings nothing new.
CreditsAreApplied == credited \cap Events \subseteq applied

PlanInv ==
  /\ applied \subseteq Events
  /\ CreditsAreApplied
  /\ PlanFollowsEvents

\* The lock keeps the redemptions of one account apart, and the row's lock lets
\* one at a time hold a counted slot; neither has credited its account yet.
SlotInv ==
  /\ redeeming \in [Redeemers -> Places]
  /\ \A u, v \in Redeemers :
       u # v /\ InTransaction(u) /\ InTransaction(v) => RedeemerOf[u] # RedeemerOf[v]
  /\ \A v \in Redeemers : InTransaction(v) => RedeemerOf[v] \notin credited
  /\ \A u, v \in Redeemers : redeeming[u] = "counted" /\ redeeming[v] = "counted" => u = v
  /\ \A v \in Redeemers : redeeming[v] = "counted" => redeemed < MaxRedemptions
  /\ SlotsAreCredits

-----------------------------------------------------------------------------
(* The plan.                                                               *)

\* An event that is applied leaves the plan as the set with it says.
LEMMA DeliveryFollows ==
  ASSUME PlanInv, NEW e \in Events, handleSubscriptionEvent(e)
  PROVE  PlanInv'
<1>1. Created[e] \in Nat /\ Rank[e] \in Nat
  BY BillingAssumption
<1>2. applied' = applied \cup {e}
  BY DEF handleSubscriptionEvent
<1>3. applied' \subseteq Events
  BY <1>2 DEF PlanInv
<1>4. CASE e \in credited
  <2>1. applied' = applied /\ plan' = plan /\ credited' = credited
    BY <1>2, <1>4 DEF handleSubscriptionEvent, PlanInv, CreditsAreApplied
  <2> QED
    BY <2>1 DEF PlanInv, CreditsAreApplied, PlanFollowsEvents, NoPlan
<1>5. CASE e \notin credited
  <2>1. CreditsAreApplied'
    BY <1>2, <1>5 DEF handleSubscriptionEvent, PlanInv, CreditsAreApplied
  <2>2. plan' = IF Supersedes(e) THEN [at |-> Created[e], rank |-> Rank[e]] ELSE plan
    BY <1>5 DEF handleSubscriptionEvent, upsertSubscription
  <2>3. CASE applied = {}
    <3>1. plan.at = -1
      BY <2>3 DEF PlanInv, PlanFollowsEvents, NoPlan
    <3>2. plan' = [at |-> Created[e], rank |-> Rank[e]]
      BY <1>1, <2>2, <3>1 DEF Supersedes
    <3>3. applied' = {e}
      BY <1>2, <2>3
    <3> QED
      BY <1>1, <1>3, <2>1, <3>2, <3>3 DEF PlanInv, PlanFollowsEvents
  <2>4. CASE applied # {}
    <3>1. PICK d \in applied :
            /\ plan = [at |-> Created[d], rank |-> Rank[d]]
            /\ \A f \in applied :
                 \/ Created[f] < Created[d]
                 \/ Created[f] = Created[d] /\ Rank[f] >= Rank[d]
      BY <2>4 DEF PlanInv, PlanFollowsEvents
    <3>2. plan.at = Created[d] /\ plan.rank = Rank[d]
      BY <3>1
    <3>3. \A f \in applied' : Created[f] \in Nat /\ Rank[f] \in Nat
      BY <1>3, BillingAssumption
    <3>4. d \in applied' /\ e \in applied'
      BY <1>2
    <3>5. CASE Supersedes(e)
      <4>1. plan' = [at |-> Created[e], rank |-> Rank[e]]
        BY <2>2, <3>5
      <4>2. \A f \in applied' :
              \/ Created[f] < Created[e]
              \/ Created[f] = Created[e] /\ Rank[f] >= Rank[e]
        BY <1>2, <3>1, <3>2, <3>3, <3>4, <3>5 DEF Supersedes
      <4> QED
        BY <1>3, <2>1, <3>4, <4>1, <4>2 DEF PlanInv, PlanFollowsEvents
    <3>6. CASE ~Supersedes(e)
      <4>1. plan' = [at |-> Created[d], rank |-> Rank[d]]
        BY <2>2, <3>1, <3>6
      <4>2. \A f \in applied' :
              \/ Created[f] < Created[d]
              \/ Created[f] = Created[d] /\ Rank[f] >= Rank[d]
        BY <1>2, <3>1, <3>2, <3>3, <3>4, <3>6 DEF Supersedes
      <4> QED
        BY <1>3, <2>1, <3>4, <4>1, <4>2 DEF PlanInv, PlanFollowsEvents
    <3> QED
      BY <3>5, <3>6
  <2> QED
    BY <2>3, <2>4
<1> QED
  BY <1>4, <1>5

\* What is not an event credits keys of its own and leaves the plan.
LEMMA OthersLeavePlan ==
  ASSUME PlanInv, plan' = plan, applied' = applied,
         NEW key, key \notin Events,
         credited' \subseteq credited \cup {key}
  PROVE  PlanInv'
  BY DEF PlanInv, CreditsAreApplied, PlanFollowsEvents, NoPlan

LEMMA PlanStep ==
  ASSUME PlanInv, [BillingNext]_billingVars
  PROVE  PlanInv'
<1>1. CASE \E e \in Events : deliver(e)
  BY <1>1, DeliveryFollows DEF deliver
<1>2. ASSUME NEW k \in Checkouts,
             \/ prepareIntent(k) \/ startProvider(k) \/ createSession(k)
             \/ recordSession(k) \/ pay(k) \/ payLate(k) \/ handleCheckoutCompleted(k)
      PROVE  PlanInv'
  <2>1. k \notin Events
    BY KeysAssumption
  <2>2. plan' = plan /\ applied' = applied /\ credited' \subseteq credited \cup {k}
    BY <1>2 DEF prepareIntent, startProvider, createSession, recordSession, pay, payLate,
                handleCheckoutCompleted, Record
  <2> QED
    BY <2>1, <2>2, OthersLeavePlan
<1>3. ASSUME NEW v \in Redeemers,
             lockVoucher(v) \/ countRedemption(v) \/ creditVoucher(v)
      PROVE  PlanInv'
  <2>1. RedeemerOf[v] \notin Events
    BY KeysAssumption
  <2>2. /\ plan' = plan /\ applied' = applied
        /\ credited' \subseteq credited \cup {RedeemerOf[v]}
    BY <1>3 DEF lockVoucher, countRedemption, creditVoucher
  <2> QED
    BY <2>1, <2>2, OthersLeavePlan
<1>4. CASE UNCHANGED billingVars
  BY <1>4 DEF billingVars, PlanInv, CreditsAreApplied, PlanFollowsEvents, NoPlan
<1> QED
  BY <1>1, <1>2, <1>3, <1>4 DEF BillingNext

\* The plan is what the events say that arrived, whatever their order and
\* however often upsertSubscription saw them.
THEOREM PlanFollowsEventsThm == BillingSpec => []PlanFollowsEvents
<1>1. BillingInit => PlanInv
  BY DEF BillingInit, PlanInv, CreditsAreApplied, PlanFollowsEvents
<1>2. PlanInv /\ [BillingNext]_billingVars => PlanInv'
  BY PlanStep
<1>3. PlanInv => PlanFollowsEvents
  BY DEF PlanInv
<1> QED
  BY <1>1, <1>2, <1>3, PTL DEF BillingSpec

-----------------------------------------------------------------------------
(* The voucher's slots.                                                    *)

LEMMA AccountedFinite ==
  IsFiniteSet(Accounted)
<1> DEFINE account == [v \in Redeemers |-> RedeemerOf[v]]
<1>1. account \in Surjection(Redeemers, Accounted)
  <2>1. account \in [Redeemers -> Accounted]
    BY DEF Accounted
  <2>2. \A a \in Accounted : \E v \in Redeemers : account[v] = a
    BY DEF Accounted
  <2> QED
    BY <2>1, <2>2 DEF Surjection
<1> HIDE DEF account
<1> QED
  BY <1>1, KeysAssumption, FS_Surjection

\* A key that is no account's leaves the slots as they are.
LEMMA OthersLeaveSlots ==
  ASSUME SlotInv, NEW key, key \notin Accounted,
         credited' = credited \/ credited' = credited \cup {key},
         redeemed' = redeemed, redeeming' = redeeming
  PROVE  SlotInv'
<1>1. Accounted \cap credited' = Accounted \cap credited
  OBVIOUS
<1>2. \A v \in Redeemers : RedeemerOf[v] \in Accounted
  BY DEF Accounted
<1>3. SlotsAreCredits'
  BY <1>1 DEF SlotInv, SlotsAreCredits, Accounted
<1> QED
  BY <1>2, <1>3 DEF SlotInv, InTransaction

LEMMA LockKeepsSlots ==
  ASSUME SlotInv, NEW v \in Redeemers, lockVoucher(v)
  PROVE  SlotInv'
<1>1. /\ redeeming[v] = "idle" /\ LockIsFree(v)
      /\ credited' = credited /\ redeemed' = redeemed
      /\ redeeming' = [redeeming EXCEPT ![v] = IF RedeemerOf[v] \in credited
                                               THEN "ended" ELSE "locked"]
  BY DEF lockVoucher, Goes
<1>2. redeeming' \in [Redeemers -> Places]
  BY <1>1 DEF SlotInv, Places
<1>3. \A u \in Redeemers : u # v => redeeming'[u] = redeeming[u]
  BY <1>1 DEF SlotInv
<1>4. redeeming'[v] # "counted" /\ (redeeming'[v] = "locked" => RedeemerOf[v] \notin credited)
  BY <1>1 DEF SlotInv
<1>5. SlotsAreCredits'
  BY <1>1 DEF SlotInv, SlotsAreCredits
<1> QED
  BY <1>1, <1>2, <1>3, <1>4, <1>5 DEF SlotInv, InTransaction, LockIsFree

LEMMA CountKeepsSlots ==
  ASSUME SlotInv, NEW v \in Redeemers, countRedemption(v)
  PROVE  SlotInv'
<1>1. /\ redeeming[v] = "locked"
      /\ \A u \in Redeemers : redeeming[u] # "counted"
      /\ credited' = credited /\ redeemed' = redeemed
      /\ redeeming' = [redeeming EXCEPT ![v] = IF redeemed < MaxRedemptions
                                               THEN "counted" ELSE "ended"]
  BY DEF countRedemption, Goes
<1>2. redeeming' \in [Redeemers -> Places]
  BY <1>1 DEF SlotInv, Places
<1>3. \A u \in Redeemers : u # v => redeeming'[u] = redeeming[u]
  BY <1>1 DEF SlotInv
<1>4. redeeming'[v] = "counted" => redeemed < MaxRedemptions
  BY <1>1 DEF SlotInv
<1>5. SlotsAreCredits'
  BY <1>1 DEF SlotInv, SlotsAreCredits
<1> QED
  BY <1>1, <1>2, <1>3, <1>4, <1>5 DEF SlotInv, InTransaction

LEMMA CreditKeepsSlots ==
  ASSUME SlotInv, NEW v \in Redeemers, creditVoucher(v)
  PROVE  SlotInv'
<1>1. /\ redeeming[v] = "counted"
      /\ \/ redeemed' = redeemed + 1 /\ credited' = credited \cup {RedeemerOf[v]}
         \/ redeemed' = redeemed /\ credited' = credited
      /\ redeeming' = [redeeming EXCEPT ![v] = "ended"]
  BY DEF creditVoucher, Goes
<1>2. redeeming' \in [Redeemers -> Places] /\ redeeming'[v] = "ended"
  BY <1>1 DEF SlotInv, Places
<1>3. \A u \in Redeemers : u # v => redeeming'[u] = redeeming[u]
  BY <1>1 DEF SlotInv
<1>4. \A u \in Redeemers : redeeming'[u] # "counted"
  BY <1>1, <1>2, <1>3 DEF SlotInv
<1>5. \A u \in Redeemers :
        u # v /\ InTransaction(u) => RedeemerOf[u] # RedeemerOf[v]
  BY <1>1 DEF SlotInv, InTransaction
<1>6. \A u \in Redeemers : InTransaction(u)' => RedeemerOf[u] \notin credited'
  BY <1>1, <1>2, <1>3, <1>5 DEF SlotInv, InTransaction
<1>7. SlotsAreCredits'
  <2> DEFINE C == Accounted \cap credited
  <2>1. /\ IsFiniteSet(C) /\ RedeemerOf[v] \in Accounted /\ RedeemerOf[v] \notin C
    BY <1>1, AccountedFinite, FS_Subset DEF SlotInv, InTransaction, Accounted
  <2>2. redeemed = Cardinality(C) /\ redeemed < MaxRedemptions
    BY <1>1 DEF SlotInv, SlotsAreCredits, Accounted
  <2>3. Cardinality(C) \in Nat
    BY <2>1, FS_CardinalityType
  <2>4. Cardinality(C \cup {RedeemerOf[v]}) = Cardinality(C) + 1
    BY <2>1, FS_AddElement
  <2>5. CASE redeemed' = redeemed + 1 /\ credited' = credited \cup {RedeemerOf[v]}
    <3>1. Accounted \cap credited' = C \cup {RedeemerOf[v]}
      BY <2>1, <2>5
    <3>2. redeemed' = Cardinality(Accounted \cap credited')
      BY <2>2, <2>4, <2>5, <3>1
    <3>3. redeemed' <= MaxRedemptions
      <4> HIDE DEF C
      <4> QED
        BY <2>2, <2>3, <2>5, BillingAssumption
    <3> QED
      BY <3>2, <3>3 DEF SlotsAreCredits, Accounted
  <2>6. CASE redeemed' = redeemed /\ credited' = credited
    BY <2>6 DEF SlotInv, SlotsAreCredits
  <2> QED
    BY <1>1, <2>5, <2>6
<1> QED
  BY <1>2, <1>3, <1>4, <1>6, <1>7 DEF SlotInv, InTransaction

LEMMA SlotStep ==
  ASSUME SlotInv, [BillingNext]_billingVars
  PROVE  SlotInv'
<1>1. ASSUME NEW e \in Events, deliver(e)
      PROVE  SlotInv'
  <2>1. e \notin Accounted
    BY KeysAssumption DEF Accounted
  <2>2. /\ credited' = credited \/ credited' = credited \cup {e}
        /\ redeemed' = redeemed /\ redeeming' = redeeming
    BY <1>1 DEF deliver, handleSubscriptionEvent
  <2> QED
    BY <2>1, <2>2, OthersLeaveSlots
<1>2. ASSUME NEW k \in Checkouts,
             \/ prepareIntent(k) \/ startProvider(k) \/ createSession(k)
             \/ recordSession(k) \/ pay(k) \/ payLate(k) \/ handleCheckoutCompleted(k)
      PROVE  SlotInv'
  <2>1. k \notin Accounted
    BY KeysAssumption DEF Accounted
  <2>2. /\ credited' = credited \/ credited' = credited \cup {k}
        /\ redeemed' = redeemed /\ redeeming' = redeeming
    BY <1>2 DEF prepareIntent, startProvider, createSession, recordSession, pay, payLate,
                handleCheckoutCompleted, Record
  <2> QED
    BY <2>1, <2>2, OthersLeaveSlots
<1>3. ASSUME NEW v \in Redeemers,
             lockVoucher(v) \/ countRedemption(v) \/ creditVoucher(v)
      PROVE  SlotInv'
  BY <1>3, LockKeepsSlots, CountKeepsSlots, CreditKeepsSlots
<1>4. CASE UNCHANGED billingVars
  BY <1>4 DEF billingVars, SlotInv, InTransaction, SlotsAreCredits
<1> QED
  BY <1>1, <1>2, <1>3, <1>4 DEF BillingNext

\* Every slot that the guarded UPDATE of a redemption counts is the credit of
\* another account, and there are no more than the voucher allows.
THEOREM SlotsAreCreditsThm == BillingSpec => []SlotsAreCredits
<1>1. BillingInit => SlotInv
  <2> SUFFICES ASSUME BillingInit PROVE SlotInv
    OBVIOUS
  <2>1. SlotsAreCredits
    <3>1. Accounted \cap credited = {}
      BY DEF BillingInit
    <3>2. Cardinality({}) = 0
      BY FS_EmptySet
    <3> QED
      BY <3>1, <3>2, BillingAssumption DEF BillingInit, SlotsAreCredits, Accounted
  <2> QED
    BY <2>1 DEF BillingInit, SlotInv, InTransaction, Places
<1>2. SlotInv /\ [BillingNext]_billingVars => SlotInv'
  BY SlotStep
<1>3. SlotInv => SlotsAreCredits
  BY DEF SlotInv
<1> QED
  BY <1>1, <1>2, <1>3, PTL DEF BillingSpec

-----------------------------------------------------------------------------
(* Sessions of the gateway: the lease of one excludes two turns at once, for*)
(* every number of turns and every bounds that satisfy LeaseAssumption.    *)

\* The row of t shows its last committed reading; whatever t has sent is not
\* older than that reading, and a turn without the row has not had it.
RowShowsReading(t) ==
  /\ turnClaim.turn = t => turnClaim.expires = Reading(t, fresh[t]) + Lease
  /\ ~Acquiring(t) => \A r \in reads[t] : fresh[t] <= r
  /\ pc[t] = "idle" \/ Acquiring(t) => turnClaim.turn # t /\ ~AtProvider(t)

\* A turn that uses the session has the row, and the time since its last
\* committed reading is bounded, also after its process has died.
KeepsRow(t) ==
  /\ Active(t) => turnClaim.turn = t
  /\ pc[t] = "claimed" => now <= fresh[t] + Gap
  /\ pc[t] = "acquiring" => \A r \in reads[t] : now <= r + Gap
  /\ AtProvider(t) => started[t] <= fresh[t] + Gap /\ now <= started[t] + MaxTurn

SessionInv ==
  /\ SessionTypeOK
  /\ \A t \in SessionTurns : RowShowsReading(t) /\ KeepsRow(t)

-----------------------------------------------------------------------------
(* The argument.                                                           *)

\* Whoever uses the session has a lease no reading of any process, not even
\* the clock that is farthest ahead, finds expired.
LEMMA ActiveLeaseHolds ==
  ASSUME SessionInv, NEW t \in SessionTurns, NEW u \in SessionTurns, NEW r \in 0..now, Active(t)
  PROVE  ~Available(u, r)
<1>1. turnClaim.turn = t /\ turnClaim.expires = Reading(t, fresh[t]) + Lease
  BY DEF SessionInv, RowShowsReading, KeepsRow
<1>2. now <= fresh[t] + Gap + MaxTurn
  BY BoundsAssumption DEF SessionInv, SessionTypeOK, KeepsRow, Active, AtProvider
<1>3. Skew[t] \in 0..MaxSkew /\ Skew[u] \in 0..MaxSkew
  BY BoundsAssumption
<1>4. turnClaim.expires > Reading(u, r)
  BY <1>1, <1>2, <1>3, LeaseAssumption, BoundsAssumption DEF SessionInv, SessionTypeOK, Reading
<1>5. turnClaim.expires \in Int /\ Reading(u, r) \in Int
  BY <1>3, BoundsAssumption DEF SessionInv, SessionTypeOK, Reading
<1> QED
  BY <1>1, <1>4, <1>5, NobodyAssumption DEF Available

\* Initially nobody has the row and nothing has been sent.
LEMMA SessionInitInv ==
  SessionInit => SessionInv
<1> SUFFICES ASSUME SessionInit PROVE SessionInv
  OBVIOUS
<1>1. SessionTypeOK
  BY BoundsAssumption DEF SessionInit, SessionTypeOK, Free
<1>2. ASSUME NEW t \in SessionTurns PROVE RowShowsReading(t) /\ KeepsRow(t)
  BY NobodyAssumption
  DEF SessionInit, Free, RowShowsReading, KeepsRow, Active, AtProvider, Acquiring
<1> QED
  BY <1>1, <1>2 DEF SessionInv

-----------------------------------------------------------------------------
(* The steps.                                                              *)

\* A step of another turn that leaves the clock and the row alone keeps what
\* is said of this one.
LEMMA OtherTurn ==
  ASSUME NEW u \in SessionTurns, RowShowsReading(u), KeepsRow(u),
         UNCHANGED <<now, turnClaim>>, pc'[u] = pc[u], reads'[u] = reads[u],
         fresh'[u] = fresh[u], started'[u] = started[u]
  PROVE  RowShowsReading(u)' /\ KeepsRow(u)'
BY DEF RowShowsReading, KeepsRow, Active, AtProvider, Acquiring, Reading

\* A turn that begins to acquire has no row and nothing under way.
LEMMA BeginAcquireKeeps ==
  ASSUME SessionInv, NEW t \in SessionTurns, beginAcquire(t)
  PROVE  SessionInv'
<1> USE DEF beginAcquire
<1>1. SessionTypeOK'
  BY DEF SessionInv, SessionTypeOK
<1>2. ASSUME NEW u \in SessionTurns PROVE RowShowsReading(u)' /\ KeepsRow(u)'
  <2>1. CASE u # t
    BY <2>1, OtherTurn DEF SessionInv, SessionTypeOK
  <2>2. CASE u = t
    BY <2>2, BoundsAssumption
    DEF SessionInv, SessionTypeOK, RowShowsReading, KeepsRow, Active, AtProvider, Acquiring,
        Reading
  <2> QED
    BY <2>1, <2>2
<1> QED
  BY <1>1, <1>2 DEF SessionInv

\* The heart of the matter: nobody acquires while a turn uses the session.
LEMMA AcquireKeeps ==
  ASSUME SessionInv, NEW t \in SessionTurns, NEW r \in reads[t], acquireClaim(t, r)
  PROVE  SessionInv'
<1>1. r \in 0..now /\ now \in Nat /\ Skew[t] \in 0..MaxSkew /\ Lease \in Nat /\ MaxSkew \in Nat
  BY BoundsAssumption DEF SessionInv, SessionTypeOK
<1>2. ~AtProvider(t) /\ turnClaim.turn # t
  BY DEF SessionInv, RowShowsReading, acquireClaim
<1>3. CASE Available(t, r)
  <2>1. /\ turnClaim' = [turn |-> t, expires |-> Reading(t, r) + Lease]
        /\ pc' = [pc EXCEPT ![t] = IF @ = "acquiring" THEN "claimed" ELSE "ended"]
        /\ fresh' = [fresh EXCEPT ![t] = r]
        /\ reads' = [reads EXCEPT ![t] = {}]
        /\ now' = now /\ started' = started
    BY <1>3 DEF acquireClaim
  <2>2. SessionTypeOK'
    BY <2>1, <1>1 DEF SessionInv, SessionTypeOK, Reading
  <2>3. ASSUME NEW u \in SessionTurns, u # t PROVE RowShowsReading(u)' /\ KeepsRow(u)'
    <3>1. ~Active(u)
      BY <1>1, <1>3, ActiveLeaseHolds
    <3>2. /\ pc'[u] = pc[u] /\ fresh'[u] = fresh[u] /\ reads'[u] = reads[u]
          /\ started'[u] = started[u] /\ now' = now /\ turnClaim'.turn = t
      BY <2>1, <2>3 DEF SessionInv, SessionTypeOK
    <3> QED
      BY <3>1, <3>2, <2>3
      DEF SessionInv, RowShowsReading, KeepsRow, Active, AtProvider, Acquiring
  <2>4. RowShowsReading(t)' /\ KeepsRow(t)'
    <3>1. /\ pc'[t] = (IF pc[t] = "acquiring" THEN "claimed" ELSE "ended")
          /\ fresh'[t] = r /\ reads'[t] = {} /\ started'[t] = started[t] /\ now' = now
          /\ turnClaim'.turn = t /\ turnClaim'.expires = Reading(t, r) + Lease
      BY <2>1 DEF SessionInv, SessionTypeOK
    <3>2. pc[t] = "acquiring" => now <= r + Gap
      BY DEF SessionInv, KeepsRow
    <3> QED
      BY <3>1, <3>2, <1>2
      DEF RowShowsReading, KeepsRow, Active, AtProvider, Acquiring, Reading
  <2> QED
    BY <2>2, <2>3, <2>4 DEF SessionInv
<1>4. CASE ~Available(t, r)
  <2>1. /\ pc' = [pc EXCEPT ![t] = "ended"] /\ reads' = [reads EXCEPT ![t] = {}]
        /\ UNCHANGED <<now, turnClaim, fresh, started>>
    BY <1>4 DEF acquireClaim
  <2>2. SessionTypeOK'
    BY <2>1 DEF SessionInv, SessionTypeOK
  <2>3. ASSUME NEW u \in SessionTurns PROVE RowShowsReading(u)' /\ KeepsRow(u)'
    <3>1. CASE u # t
      BY <3>1, <2>1, OtherTurn DEF SessionInv, SessionTypeOK
    <3>2. CASE u = t
      BY <3>2, <2>1, <1>2
      DEF SessionInv, SessionTypeOK, RowShowsReading, KeepsRow, Active, AtProvider, Acquiring,
        Reading
    <3> QED
      BY <3>1, <3>2
  <2> QED
    BY <2>2, <2>3 DEF SessionInv
<1> QED
  BY <1>3, <1>4

\* A heartbeat is sent with a reading not older than the last committed one.
LEMMA BeginRenewKeeps ==
  ASSUME SessionInv, NEW t \in SessionTurns, beginRenew(t)
  PROVE  SessionInv'
<1> USE DEF beginRenew
<1>1. SessionTypeOK'
  BY DEF SessionInv, SessionTypeOK
<1>2. ASSUME NEW u \in SessionTurns PROVE RowShowsReading(u)' /\ KeepsRow(u)'
  <2>1. CASE u # t
    BY <2>1, OtherTurn DEF SessionInv, SessionTypeOK
  <2>2. CASE u = t
    BY <2>2
    DEF SessionInv, SessionTypeOK, RowShowsReading, KeepsRow, Active, AtProvider, Acquiring,
        Reading
  <2> QED
    BY <2>1, <2>2
<1> QED
  BY <1>1, <1>2 DEF SessionInv

\* A renewal commits a reading that is not older than the one before.
LEMMA RenewKeeps ==
  ASSUME SessionInv, NEW t \in SessionTurns, NEW r \in reads[t], renew(t, r)
  PROVE  SessionInv'
<1>1. /\ r \in 0..now /\ now \in Nat /\ Skew[t] \in 0..MaxSkew /\ Lease \in Nat
      /\ MaxSkew \in Nat /\ Gap \in Nat /\ fresh[t] <= r /\ ~Acquiring(t)
      /\ fresh[t] \in 0..now /\ started[t] \in -1..now
  BY BoundsAssumption DEF SessionInv, SessionTypeOK, RowShowsReading, renew
<1>2. CASE turnClaim.turn = t
  <2>1. /\ turnClaim' = [turnClaim EXCEPT !.expires = Reading(t, r) + Lease]
        /\ fresh' = [fresh EXCEPT ![t] = r]
        /\ reads' = [reads EXCEPT ![t] = @ \ {r}]
        /\ UNCHANGED <<now, pc, started>>
    BY <1>2 DEF renew
  <2>2. SessionTypeOK'
    BY <2>1, <1>1 DEF SessionInv, SessionTypeOK, Reading
  <2>3. ASSUME NEW u \in SessionTurns, u # t PROVE RowShowsReading(u)' /\ KeepsRow(u)'
    <3>1. /\ fresh'[u] = fresh[u] /\ reads'[u] = reads[u] /\ turnClaim'.turn = turnClaim.turn
          /\ pc' = pc /\ started' = started /\ now' = now
      BY <2>1, <2>3 DEF SessionInv, SessionTypeOK
    <3> QED
      BY <3>1, <2>3, <1>2
      DEF SessionInv, RowShowsReading, KeepsRow, Active, AtProvider, Acquiring
  <2>4. RowShowsReading(t)' /\ KeepsRow(t)'
    <3>1. /\ fresh'[t] = r /\ reads'[t] = {} /\ turnClaim'.turn = turnClaim.turn
          /\ turnClaim'.expires = Reading(t, r) + Lease
          /\ pc' = pc /\ started' = started /\ now' = now
      BY <2>1 DEF SessionInv, SessionTypeOK
    <3>2. RowShowsReading(t) /\ KeepsRow(t)
      BY DEF SessionInv
    <3>3. RowShowsReading(t)'
      BY <3>1, <3>2, <1>1 DEF RowShowsReading, AtProvider, Acquiring, Reading
    <3>4. KeepsRow(t)'
      BY <3>1, <3>2, <1>1 DEF KeepsRow, Active, AtProvider, Acquiring
    <3> QED
      BY <3>3, <3>4
  <2> QED
    BY <2>2, <2>3, <2>4 DEF SessionInv
<1>3. CASE turnClaim.turn # t
  <2>1. reads' = [reads EXCEPT ![t] = @ \ {r}] /\ UNCHANGED <<now, pc, started, turnClaim, fresh>>
    BY <1>3 DEF renew
  <2>2. SessionTypeOK'
    BY <2>1 DEF SessionInv, SessionTypeOK
  <2>3. ASSUME NEW u \in SessionTurns PROVE RowShowsReading(u)' /\ KeepsRow(u)'
    <3>1. CASE u # t
      BY <3>1, <2>1, OtherTurn DEF SessionInv, SessionTypeOK
    <3>2. CASE u = t
      BY <3>2, <2>1
      DEF SessionInv, SessionTypeOK, RowShowsReading, KeepsRow, Active, AtProvider, Acquiring,
        Reading
    <3> QED
      BY <3>1, <3>2
  <2> QED
    BY <2>2, <2>3 DEF SessionInv
<1> QED
  BY <1>2, <1>3

\* A statement that fails takes nothing from the turn that holds the row.
LEMMA FailKeeps ==
  ASSUME SessionInv, NEW t \in SessionTurns, fail(t)
  PROVE  SessionInv'
<1> USE DEF fail
<1>1. SessionTypeOK'
  BY DEF SessionInv, SessionTypeOK
<1>2. ASSUME NEW u \in SessionTurns PROVE RowShowsReading(u)' /\ KeepsRow(u)'
  <2>1. CASE u # t
    BY <2>1, OtherTurn DEF SessionInv, SessionTypeOK
  <2>2. CASE u = t
    BY <2>2
    DEF SessionInv, SessionTypeOK, RowShowsReading, KeepsRow, Active, AtProvider, Acquiring,
        Reading
  <2> QED
    BY <2>1, <2>2
<1> QED
  BY <1>1, <1>2 DEF SessionInv

\* A run starts while its process lives, within Gap of its last commit.
LEMMA BeginProviderKeeps ==
  ASSUME SessionInv, NEW t \in SessionTurns, beginProvider(t)
  PROVE  SessionInv'
<1> USE DEF beginProvider
<1>1. SessionTypeOK'
  BY DEF SessionInv, SessionTypeOK
<1>2. ASSUME NEW u \in SessionTurns PROVE RowShowsReading(u)' /\ KeepsRow(u)'
  <2>1. CASE u # t
    BY <2>1, OtherTurn DEF SessionInv, SessionTypeOK
  <2>2. CASE u = t
    BY <2>2, BoundsAssumption
    DEF SessionInv, SessionTypeOK, RowShowsReading, KeepsRow, Active, AtProvider, Acquiring,
        Reading
  <2> QED
    BY <2>1, <2>2
<1> QED
  BY <1>1, <1>2 DEF SessionInv

\* The end of a run leaves the row to the process that has it.
LEMMA EndProviderKeeps ==
  ASSUME SessionInv, NEW t \in SessionTurns, endProvider(t)
  PROVE  SessionInv'
<1> USE DEF endProvider
<1>1. SessionTypeOK'
  BY DEF SessionInv, SessionTypeOK
<1>2. ASSUME NEW u \in SessionTurns PROVE RowShowsReading(u)' /\ KeepsRow(u)'
  <2>1. CASE u # t
    BY <2>1, OtherTurn DEF SessionInv, SessionTypeOK
  <2>2. CASE u = t
    BY <2>2
    DEF SessionInv, SessionTypeOK, RowShowsReading, KeepsRow, Active, AtProvider, Acquiring,
        Reading
  <2> QED
    BY <2>1, <2>2
<1> QED
  BY <1>1, <1>2 DEF SessionInv

\* The DELETE removes no row but its own.
LEMMA ReleaseKeeps ==
  ASSUME SessionInv, NEW t \in SessionTurns, releaseClaim(t)
  PROVE  SessionInv'
<1>1. /\ pc' = [pc EXCEPT ![t] = "ended"] /\ ~AtProvider(t)
      /\ UNCHANGED <<now, reads, fresh, started>>
      /\ turnClaim' = turnClaim \/ (turnClaim' = Free /\ turnClaim.turn = t)
  BY DEF releaseClaim, DeleteClaim
<1>2. SessionTypeOK'
  BY <1>1 DEF SessionInv, SessionTypeOK, Free
<1>3. ASSUME NEW u \in SessionTurns, u # t PROVE RowShowsReading(u)' /\ KeepsRow(u)'
  <2>1. pc'[u] = pc[u] /\ (turnClaim'.turn = u <=> turnClaim.turn = u)
        /\ (turnClaim'.turn = u => turnClaim' = turnClaim)
    BY <1>1, <1>3, NobodyAssumption DEF SessionInv, SessionTypeOK, Free
  <2> QED
    BY <1>1, <2>1 DEF SessionInv, RowShowsReading, KeepsRow, Active, AtProvider, Acquiring, Reading
<1>4. RowShowsReading(t)' /\ KeepsRow(t)'
  <2>1. pc'[t] = "ended" /\ (turnClaim'.turn = t => turnClaim' = turnClaim)
    BY <1>1, NobodyAssumption DEF SessionInv, SessionTypeOK, Free
  <2>2. pc[t] = "claimed"
    BY DEF releaseClaim
  <2> QED
    BY <1>1, <2>1, <2>2
    DEF SessionInv, RowShowsReading, KeepsRow, Active, AtProvider, Acquiring, Reading
<1> QED
  BY <1>2, <1>3, <1>4 DEF SessionInv

\* The run that outlives its process keeps the bounds it had at its start.
LEMMA CrashKeeps ==
  ASSUME SessionInv, NEW t \in SessionTurns, crash(t)
  PROVE  SessionInv'
<1> USE DEF crash
<1>1. SessionTypeOK'
  BY DEF SessionInv, SessionTypeOK
<1>2. ASSUME NEW u \in SessionTurns PROVE RowShowsReading(u)' /\ KeepsRow(u)'
  <2>1. CASE u # t
    BY <2>1, OtherTurn DEF SessionInv, SessionTypeOK
  <2>2. CASE u = t
    BY <2>2
    DEF SessionInv, SessionTypeOK, RowShowsReading, KeepsRow, Active, AtProvider, Acquiring,
        Reading
  <2> QED
    BY <2>1, <2>2
<1> QED
  BY <1>1, <1>2 DEF SessionInv

\* The clock waits for the heartbeat of the living and the run of the dead.
LEMMA TickKeeps ==
  ASSUME SessionInv, Tick
  PROVE  SessionInv'
<1>1. SessionTypeOK'
  BY DEF Tick, SessionInv, SessionTypeOK
<1>2. ASSUME NEW t \in SessionTurns PROVE RowShowsReading(t)' /\ KeepsRow(t)'
  <2>1. RowShowsReading(t)'
    BY DEF Tick, SessionInv, RowShowsReading, AtProvider, Acquiring, Reading
  <2>2. KeepsRow(t)'
    BY BoundsAssumption DEF Tick, SessionInv, SessionTypeOK, KeepsRow, Active, AtProvider
  <2> QED
    BY <2>1, <2>2
<1> QED
  BY <1>1, <1>2 DEF SessionInv

\* Every step keeps the invariant.
LEMMA SessionNextInv ==
  SessionInv /\ [SessionNext]_sessionVars => SessionInv'
<1> SUFFICES ASSUME SessionInv, [SessionNext]_sessionVars PROVE SessionInv'
  OBVIOUS
<1>1. CASE Tick
  BY <1>1, TickKeeps
<1>2. ASSUME NEW t \in SessionTurns,
             \/ beginAcquire(t) \/ beginRenew(t) \/ fail(t)
             \/ \E r \in reads[t] : acquireClaim(t, r) \/ renew(t, r)
             \/ beginProvider(t) \/ endProvider(t) \/ releaseClaim(t) \/ crash(t)
      PROVE  SessionInv'
  BY <1>2, BeginAcquireKeeps, BeginRenewKeeps, FailKeeps, AcquireKeeps, RenewKeeps,
     BeginProviderKeeps, EndProviderKeeps, ReleaseKeeps, CrashKeeps
<1>3. CASE UNCHANGED sessionVars
  BY <1>3
  DEF sessionVars, SessionInv, SessionTypeOK, RowShowsReading, KeepsRow, Active, AtProvider,
      Acquiring, Reading
<1> QED
  BY <1>1, <1>2, <1>3 DEF SessionNext

\* The inductive invariant holds in every reachable state.
LEMMA Invariance ==
  SessionSpec => []SessionInv
BY SessionInitInv, SessionNextInv, PTL DEF SessionSpec

-----------------------------------------------------------------------------
(* The theorems.                                                           *)

\* The state keeps its type: no process ever has two statements under way.
THEOREM TypeCorrect ==
  SessionSpec => []SessionTypeOK
<1>1. SessionInv => SessionTypeOK
  BY DEF SessionInv
<1> QED
  BY <1>1, Invariance, PTL

\* With a lease longer than a run, a silence and the skew together, no two
\* turns ever use a gateway session at once.
THEOREM OneTurnPerSessionThm ==
  SessionSpec => []OneTurnPerSession
<1>1. SessionInv => OneTurnPerSession
  BY DEF SessionInv, OneTurnPerSession, KeepsRow
<1> QED
  BY <1>1, Invariance, PTL

\* No late or reordered statement cuts the owner's lease short.
THEOREM LeaseOnlyGrowsThm ==
  SessionSpec => LeaseOnlyGrows
<1> DEFINE Grows == turnClaim'.turn = turnClaim.turn => turnClaim'.expires >= turnClaim.expires
<1>1. ASSUME SessionInv, [SessionNext]_sessionVars PROVE [Grows]_sessionVars
  <2>1. turnClaim.expires \in Nat
    BY <1>1 DEF SessionInv, SessionTypeOK
  <2>2. CASE turnClaim' = turnClaim
    BY <2>1, <2>2
  <2>3. ASSUME NEW t \in SessionTurns, NEW r \in reads[t], acquireClaim(t, r) PROVE Grows
    <3>1. turnClaim.turn # t
      BY <1>1, <2>3 DEF SessionInv, RowShowsReading, acquireClaim
    <3> QED
      BY <2>1, <2>3, <3>1 DEF acquireClaim
  <2>4. ASSUME NEW t \in SessionTurns, NEW r \in reads[t], renew(t, r) PROVE Grows
    <3>1. SessionTypeOK /\ RowShowsReading(t) /\ ~Acquiring(t)
      BY <1>1, <2>4 DEF SessionInv, renew
    <3>2. Skew[t] \in 0..MaxSkew /\ MaxSkew \in Nat /\ Lease \in Nat
      BY BoundsAssumption
    <3>3. reads[t] \subseteq 0..now /\ fresh[t] \in 0..now /\ now \in Nat
      BY <3>1 DEF SessionTypeOK
    <3>4. /\ r \in Nat /\ fresh[t] \in Nat /\ Skew[t] \in Nat /\ Lease \in Nat
          /\ fresh[t] <= r
          /\ turnClaim.turn = t => turnClaim.expires = Reading(t, fresh[t]) + Lease
      BY <3>1, <3>2, <3>3 DEF RowShowsReading
    <3>5. turnClaim' = turnClaim \/ (turnClaim.turn = t /\ turnClaim'.expires = Reading(t, r) + Lease)
      BY <1>1, <2>4 DEF renew, SessionInv, SessionTypeOK
    <3> QED
      BY <2>1, <3>4, <3>5 DEF Reading
  <2>5. ASSUME NEW t \in SessionTurns, releaseClaim(t) PROVE Grows
    BY <1>1, <2>1, <2>5, NobodyAssumption DEF releaseClaim, DeleteClaim, Free
  <2> QED
    BY <1>1, <2>2, <2>3, <2>4, <2>5
    DEF SessionNext, sessionVars, Tick, beginAcquire, beginRenew, fail, beginProvider,
        endProvider, crash
<1> QED
  BY <1>1, Invariance, PTL DEF SessionSpec, LeaseOnlyGrows

-----------------------------------------------------------------------------
(* Custody: the parts of the invariant.                                    *)

OwnerKey(c) == <<"account", OwnerOf[c]>>
LeaseKey(c) == <<"lease", TargetOf[c]>>
BotKey(c) == <<"bot", credential[c].bot>>
TokenKey(c) == <<"token", credential[c].token>>

LockKey ==
  ({"account"} \X Owners) \cup ({"bot"} \X Bots) \cup ({"token"} \X Tokens)
    \cup ({"lease", "use"} \X Storing)

CredentialStage ==
  {"idle", "exchanging", "locking", "write", "announce", "admitted", "started", "posting",
   "revoking", "done"}

IntentState ==
  {"none", "pending_owner", "awaiting_bot", "exchanging", "stored", "failed", "expired"}

CustodyTypeOK ==
  /\ custody \in [Storing -> [token : Tokens \cup {NoToken}, bot : Bots \cup {NoBot},
                              state : {"none", "stored", "active", "revoked"}]]
  /\ credential \in [CredentialCalls ->
       [at : CredentialStage, token : Tokens \cup {NoToken}, bot : Bots \cup {NoBot},
        todo : Seq(LockKey), held : SUBSET LockKey]]
  /\ DOMAIN intents \subseteq Onboardings
  /\ intents \in [DOMAIN intents ->
       [state : IntentState, granter : SUBSET Granters, exchange : SUBSET Exchanges]]

\* Where a call of each kind can be.
StageOfKind(c) ==
  LET at == credential[c].at IN
  /\ c \in Creates \cup Rotations => at \in {"idle", "locking", "write", "done"}
  /\ c \in Exchanges => at \in {"idle", "exchanging", "locking", "write", "done"}
  /\ c \in Seals => at \in {"idle", "locking", "write", "announce", "revoking", "done"}
  /\ c \in Posts => at \in {"idle", "admitted", "started", "posting", "revoking", "done"}
  /\ c \in Revocations => at \in {"idle", "done"}

StoredHaveTokens == \A c \in Stored : custody[c].token \in Tokens

\* The locks are taken in one order, and what a call holds says how far it is.
FirstLock(c) == {IF c \in Rotations THEN LeaseKey(c) ELSE OwnerKey(c)}
BotLock(c) == IF credential[c].bot = NoBot THEN {} ELSE {BotKey(c)}

AllLocked(c) ==
  credential[c].todo = <<>> /\ credential[c].held = FirstLock(c) \cup BotLock(c) \cup {TokenKey(c)}

TokenLeft(c) ==
  credential[c].todo = <<TokenKey(c)>> /\ credential[c].held = FirstLock(c) \cup BotLock(c)

BotLeft(c) ==
  /\ credential[c].bot # NoBot
  /\ credential[c].todo = <<BotKey(c), TokenKey(c)>> /\ credential[c].held = FirstLock(c)

NothingLocked(c) ==
  /\ c \in Storing /\ credential[c].held = {}
  /\ credential[c].todo = IF credential[c].bot = NoBot THEN <<OwnerKey(c), TokenKey(c)>>
                          ELSE <<OwnerKey(c), BotKey(c), TokenKey(c)>>

LocksMatchStage(c) ==
  LET at == credential[c].at IN
  /\ at = "locking" => AllLocked(c) \/ TokenLeft(c) \/ BotLeft(c) \/ NothingLocked(c)
  /\ at = "write" => AllLocked(c)
  /\ at \in {"locking", "write"} => credential[c].token \in Tokens
  /\ at = "posting" => credential[c].held = {UseLock(c)}
  /\ at \notin {"locking", "write", "posting"} => credential[c].held = {}

\* A lock has one holder.
LocksAreExclusive ==
  /\ \A c \in CredentialCalls : credential[c].held \subseteq locks
  /\ \A c, d \in CredentialCalls : c # d => credential[c].held \cap credential[d].held = {}

\* What a call has looked at under its locks stays so until it commits.
LookIsValid(c) ==
  /\ credential[c].at = "write" => Conflicts(c) = {}
  /\ c \in Storing /\ OwnerKey(c) \in credential[c].held => ~Full(OwnerOf[c])
  /\ c \in Posts /\ CredentialAt(c, "posting") => IsUsable(c)

\* A row is there from the moment its call has committed.
RowsMatchStage(c) ==
  LET at == credential[c].at IN
  /\ c \in Stored => at \in {"announce", "revoking", "done"}
  /\ c \in Seals /\ at \in {"announce", "revoking"} => c \in Stored
  /\ c \in Rotations \cup Posts /\ at \notin {"idle", "done"} => TargetOf[c] \in Stored

\* An exchange works for one intent, which was not taken up before.
IntentsMatchStage ==
  /\ \A i \in DOMAIN intents :
       /\ intents[i].state \in {"none", "pending_owner", "awaiting_bot"} =>
            intents[i].exchange = {}
       /\ \A c \in Exchanges : c \in intents[i].exchange =>
            /\ intents[i].exchange = {c}
            /\ credential[c].at # "idle"
            /\ \A j \in DOMAIN intents : c \in intents[j].exchange => i = j
       /\ intents[i].state = "stored" => intents[i].exchange \subseteq Stored
  /\ \A c \in Exchanges :
       /\ credential[c].at \in {"exchanging", "locking", "write"} =>
            \E i \in DOMAIN intents : intents[i].exchange = {c}
       /\ c \in Stored =>
            \E i \in DOMAIN intents : intents[i].state = "stored" /\ intents[i].exchange = {c}

CustodyInv ==
  /\ CustodyTypeOK /\ StoredHaveTokens
  /\ OneConnectionPerBot
  /\ QuotaHolds /\ IsFiniteSet(Stored)
  /\ LocksAreExclusive
  /\ IntentsMatchStage
  /\ \A c \in CredentialCalls :
       StageOfKind(c) /\ LocksMatchStage(c) /\ LookIsValid(c) /\ RowsMatchStage(c)

-----------------------------------------------------------------------------
(* Custody: what a step of one call keeps.                                 *)

CallRow ==
  [at : CredentialStage, token : Tokens \cup {NoToken}, bot : Bots \cup {NoBot},
   todo : Seq(LockKey), held : SUBSET LockKey]

\* A call is of one kind.
LEMMA Kinds ==
  /\ Creates \subseteq Storing /\ Seals \subseteq Storing /\ Exchanges \subseteq Storing
  /\ Storing \subseteq CredentialCalls /\ Rotations \subseteq CredentialCalls
  /\ Posts \subseteq CredentialCalls /\ Revocations \subseteq CredentialCalls
  /\ Exchanges \subseteq CredentialCalls
BY DEF Storing, CredentialCalls

\* Nobody asked for anything yet.
LEMMA InitCustodyInv ==
  ASSUME NEW what \in SUBSET (CredentialCalls \cup Onboardings), Asked(what)
  PROVE  CustodyInv
<1>1. CustodyTypeOK
  BY DEF Asked, CustodyTypeOK, NoCredential, CredentialStage, IntentState
<1>2. Stored = {}
  <2>1. \A c \in Storing : custody[c].state = "none"
    BY DEF Asked, NoCredential
  <2> QED
    BY <2>1 DEF Stored
<1>3. OneConnectionPerBot /\ QuotaHolds /\ IsFiniteSet(Stored) /\ StoredHaveTokens
  <2>1. \A a \in Owners : OwnedBy(a) = {}
    BY <1>2 DEF OwnedBy
  <2>2. IsFiniteSet({}) /\ Cardinality({}) = 0
    BY FS_EmptySet
  <2>3. QuotaHolds
    <3>1. Quota \in Nat
      BY ChannelCredentialsAssumption
    <3>2. \A a \in Owners : Cardinality(OwnedBy(a)) = 0
      BY <2>1, <2>2
    <3> QED
      BY <3>1, <3>2 DEF QuotaHolds
  <2> QED
    BY <1>2, <2>2, <2>3 DEF OneConnectionPerBot, StoredHaveTokens
<1>4. LocksAreExclusive /\ IntentsMatchStage
  BY <1>2, Kinds DEF Asked, LocksAreExclusive, IntentsMatchStage
<1>5. \A c \in CredentialCalls :
        StageOfKind(c) /\ LocksMatchStage(c) /\ LookIsValid(c) /\ RowsMatchStage(c)
  BY <1>2 DEF Asked, StageOfKind, LocksMatchStage, LookIsValid, RowsMatchStage, CredentialAt
<1> QED
  BY <1>1, <1>3, <1>4, <1>5 DEF CustodyInv

\* A call gives up locks or takes free ones.
LEMMA LocksStayExclusive ==
  ASSUME LocksAreExclusive, NEW c \in CredentialCalls,
         \A d \in CredentialCalls \ {c} : credential'[d].held = credential[d].held,
         locks' = (locks \ credential[c].held) \cup credential'[c].held,
         (credential'[c].held \ credential[c].held) \cap locks = {}
  PROVE  LocksAreExclusive'
BY DEF LocksAreExclusive

\* The intents do not hear of a call that goes on or ends.
LEMMA IntentsStay ==
  ASSUME IntentsMatchStage, NEW c \in CredentialCalls, UNCHANGED intents, Stored' = Stored,
         \A d \in CredentialCalls \ {c} : credential'[d] = credential[d],
         credential'[c].at # "idle",
         c \in Exchanges /\ credential'[c].at \in {"exchanging", "locking", "write"} =>
           credential[c].at \in {"exchanging", "locking", "write"}
  PROVE  IntentsMatchStage'
BY Kinds DEF IntentsMatchStage

\* Without a write the rows, and what was counted of them, stay.
LEMMA Unwritten ==
  ASSUME UNCHANGED custody
  PROVE  Stored' = Stored /\ \A a : OwnedBy(a)' = OwnedBy(a) /\ (Full(a)' <=> Full(a))
<1>1. Stored' = Stored
  BY DEF Stored
<1>2. \A a : OwnedBy(a)' = OwnedBy(a)
  BY <1>1 DEF OwnedBy
<1> QED
  BY <1>1, <1>2 DEF Full

Early == {"none", "pending_owner", "awaiting_bot"}

\* Intents go on or end without a row.
LEMMA IntentsMove ==
  ASSUME IntentsMatchStage, DOMAIN intents' = DOMAIN intents, Stored' = Stored,
         \A j \in DOMAIN intents :
           /\ intents'[j].exchange = intents[j].exchange
           /\ \/ intents'[j].state = intents[j].state
              \/ /\ "stored" \notin {intents[j].state, intents'[j].state}
                 /\ intents'[j].state \in Early => intents[j].state \in Early,
         \A c \in Exchanges :
           \/ credential'[c] = credential[c]
           \/ credential'[c].at = "done" /\ c \notin Stored
  PROVE  IntentsMatchStage'
<1>1. ASSUME NEW j \in DOMAIN intents'
      PROVE  /\ intents'[j].state \in {"none", "pending_owner", "awaiting_bot"} =>
                  intents'[j].exchange = {}
             /\ \A c \in Exchanges : c \in intents'[j].exchange =>
                  /\ intents'[j].exchange = {c}
                  /\ credential'[c].at # "idle"
                  /\ \A k \in DOMAIN intents' : c \in intents'[k].exchange => j = k
             /\ intents'[j].state = "stored" => intents'[j].exchange \subseteq Stored'
  <2>1. /\ intents[j].state \in Early => intents[j].exchange = {}
        /\ \A c \in Exchanges : c \in intents[j].exchange =>
             /\ intents[j].exchange = {c}
             /\ credential[c].at # "idle"
             /\ \A k \in DOMAIN intents : c \in intents[k].exchange => j = k
        /\ intents[j].state = "stored" => intents[j].exchange \subseteq Stored
    BY DEF IntentsMatchStage, Early
  <2> QED
    BY <2>1 DEF Early
<1>2. ASSUME NEW c \in Exchanges
      PROVE  /\ credential'[c].at \in {"exchanging", "locking", "write"} =>
                  \E j \in DOMAIN intents' : intents'[j].exchange = {c}
             /\ c \in Stored' =>
                  \E j \in DOMAIN intents' : intents'[j].state = "stored" /\ intents'[j].exchange = {c}
  BY DEF IntentsMatchStage
<1> QED
  BY <1>1, <1>2 DEF IntentsMatchStage

\* A step of one call that writes no row.
LEMMA CallStep ==
  ASSUME CustodyInv, NEW c \in CredentialCalls, NEW r \in CallRow, UNCHANGED custody,
         credential' = [credential EXCEPT ![c] = r],
         locks' = (locks \ credential[c].held) \cup r.held,
         (r.held \ credential[c].held) \cap locks = {},
         StageOfKind(c)', LocksMatchStage(c)', LookIsValid(c)', RowsMatchStage(c)',
         IntentsMatchStage',
         DOMAIN intents' = DOMAIN intents,
         intents' \in [DOMAIN intents ->
           [state : IntentState, granter : SUBSET Granters, exchange : SUBSET Exchanges]]
  PROVE  CustodyInv'
<1>1. credential \in [CredentialCalls -> CallRow]
  BY DEF CustodyInv, CustodyTypeOK, CallRow
<1>2. credential'[c] = r /\ \A d \in CredentialCalls \ {c} : credential'[d] = credential[d]
  BY <1>1
<1>3. CustodyTypeOK'
  BY <1>1 DEF CustodyInv, CustodyTypeOK, CallRow
<1>4. LocksAreExclusive'
  BY <1>2, LocksStayExclusive DEF CustodyInv
<1>5. Stored' = Stored /\ \A a : OwnedBy(a)' = OwnedBy(a) /\ (Full(a)' <=> Full(a))
  BY Unwritten
<1>6. /\ OneConnectionPerBot' /\ QuotaHolds' /\ IsFiniteSet(Stored)'
      /\ StoredHaveTokens'
  BY <1>5 DEF CustodyInv, OneConnectionPerBot, QuotaHolds, StoredHaveTokens
<1>7. ASSUME NEW d \in CredentialCalls
      PROVE  (StageOfKind(d) /\ LocksMatchStage(d) /\ LookIsValid(d) /\ RowsMatchStage(d))'
  <2>1. CASE d = c
    BY <2>1
  <2>2. CASE d # c
    <3>1. credential'[d] = credential[d]
      BY <1>2, <2>2
    <3>2. StageOfKind(d)' /\ RowsMatchStage(d)'
      BY <1>5, <3>1 DEF CustodyInv, StageOfKind, RowsMatchStage
    <3>3. LocksMatchStage(d)'
      BY <3>1 DEF CustodyInv, LocksMatchStage, AllLocked, TokenLeft, BotLeft, NothingLocked,
                  FirstLock, BotLock, TokenKey, BotKey, LeaseKey, OwnerKey, UseLock
    <3>4. LookIsValid(d)'
      BY <1>5, <3>1 DEF CustodyInv, LookIsValid, Conflicts, IsUsable, CredentialAt, OwnerKey
    <3> QED
      BY <3>2, <3>3, <3>4
  <2> QED
    BY <2>1, <2>2
<1> QED
  BY <1>3, <1>4, <1>6, <1>7 DEF CustodyInv

\* The rows of the calls and of the intents, as their types have them.
LEMMA CustodyRows ==
  ASSUME CustodyInv
  PROVE  /\ \A c \in CredentialCalls :
              StageOfKind(c) /\ LocksMatchStage(c) /\ LookIsValid(c) /\ RowsMatchStage(c)
         /\ credential \in [CredentialCalls -> CallRow]
         /\ intents \in [DOMAIN intents ->
              [state : IntentState, granter : SUBSET Granters, exchange : SUBSET Exchanges]]
         /\ \A c \in CredentialCalls : credential[c].held \subseteq locks
BY DEF CustodyInv, CustodyTypeOK, CallRow, LocksAreExclusive

\* The provers know no law of concatenation for tuples.
LEMMA ConcatPair ==
  ASSUME NEW S, NEW a \in S, NEW b \in S
  PROVE  <<a>> \o <<b>> = <<a, b>>
<1>1. <<a>> \in Seq(S) /\ <<b>> \in Seq(S) /\ <<a, b>> \in Seq(S)
  OBVIOUS
<1>2. /\ <<a>> \o <<b>> \in Seq(S) /\ Len(<<a>> \o <<b>>) = 2 /\ Len(<<a, b>>) = 2
      /\ (<<a>> \o <<b>>)[1] = a /\ (<<a>> \o <<b>>)[2] = b
  BY <1>1
<1>3. \A i \in 1 .. Len(<<a>> \o <<b>>) : (<<a>> \o <<b>>)[i] = <<a, b>>[i]
  <2>1. \A i \in 1..2 : i = 1 \/ i = 2
    OBVIOUS
  <2> QED
    BY <1>2, <2>1
<1> QED
  BY <1>1, <1>2, <1>3, SeqEqual

LEMMA ConcatTriple ==
  ASSUME NEW S, NEW a \in S, NEW b \in S, NEW d \in S
  PROVE  <<a>> \o <<b, d>> = <<a, b, d>>
<1>1. <<a>> \in Seq(S) /\ <<b, d>> \in Seq(S) /\ <<a, b, d>> \in Seq(S)
  OBVIOUS
<1>2. /\ <<a>> \o <<b, d>> \in Seq(S)
      /\ Len(<<a>> \o <<b, d>>) = 3 /\ Len(<<a, b, d>>) = 3
      /\ (<<a>> \o <<b, d>>)[1] = a /\ (<<a>> \o <<b, d>>)[2] = b /\ (<<a>> \o <<b, d>>)[3] = d
  BY <1>1
<1>3. \A i \in 1 .. Len(<<a>> \o <<b, d>>) : (<<a>> \o <<b, d>>)[i] = <<a, b, d>>[i]
  <2>1. \A i \in 1..3 : i = 1 \/ i = 2 \/ i = 3
    OBVIOUS
  <2> QED
    BY <1>2, <2>1
<1> QED
  BY <1>1, <1>2, <1>3, SeqEqual

\* The locks of a token and its bot, in their order, alone and after another.
LEMMA CredentialLocks ==
  ASSUME NEW token \in Tokens, NEW bot \in Bots \cup {NoBot}, NEW first \in LockKey
  PROVE  LET keys == channelCredentialLockKeys(token, bot) IN
         /\ keys = IF bot = NoBot THEN <<<<"token", token>>>>
                   ELSE <<<<"bot", bot>>, <<"token", token>>>>
         /\ <<first>> \o keys = IF bot = NoBot THEN <<first, <<"token", token>>>>
                                ELSE <<first, <<"bot", bot>>, <<"token", token>>>>
         /\ keys \in Seq(LockKey) /\ <<first>> \o keys \in Seq(LockKey)
<1>1. <<"token", token>> \in LockKey /\ (bot # NoBot => <<"bot", bot>> \in LockKey)
  BY DEF LockKey
<1>2. CASE bot = NoBot
  <2>1. channelCredentialLockKeys(token, bot) = <<<<"token", token>>>>
    BY <1>1, <1>2 DEF channelCredentialLockKeys
  <2> QED
    BY <1>1, <1>2, <2>1, ConcatPair
<1>3. CASE bot # NoBot
  <2>1. channelCredentialLockKeys(token, bot) = <<<<"bot", bot>>, <<"token", token>>>>
    BY <1>1, <1>3, ConcatPair DEF channelCredentialLockKeys
  <2> QED
    BY <1>1, <1>3, <2>1, ConcatTriple
<1> QED
  BY <1>2, <1>3

\* The end of a call, or of its transaction without a row.
LEMMA EndStep ==
  ASSUME CustodyInv, NEW c \in CredentialCalls, UNCHANGED custody, End(c),
         IntentsMatchStage', DOMAIN intents' = DOMAIN intents,
         intents' \in [DOMAIN intents ->
           [state : IntentState, granter : SUBSET Granters, exchange : SUBSET Exchanges]]
  PROVE  CustodyInv'
<1> DEFINE r == [credential[c] EXCEPT !.at = "done", !.todo = <<>>, !.held = {}]
<1>1. credential \in [CredentialCalls -> CallRow]
  BY CustodyRows
<1>2. r \in CallRow /\ r.held = {} /\ r.at = "done"
  <2>1. <<>> \in Seq(LockKey) /\ {} \in SUBSET LockKey /\ "done" \in CredentialStage
    BY DEF CredentialStage
  <2> QED
    BY <1>1, <2>1 DEF CallRow
<1>3. credential' = [credential EXCEPT ![c] = r] /\ locks' = (locks \ credential[c].held) \cup r.held
  BY <1>2 DEF End
<1>4. credential'[c] = r
  BY <1>1, <1>3
<1>5. StageOfKind(c)' /\ LocksMatchStage(c)' /\ LookIsValid(c)' /\ RowsMatchStage(c)'
  BY <1>2, <1>4 DEF StageOfKind, LocksMatchStage, LookIsValid, RowsMatchStage, CredentialAt
<1> QED
  BY <1>2, <1>3, <1>5, CallStep

LEMMA EndRow ==
  ASSUME CustodyInv, NEW c \in CredentialCalls, End(c)
  PROVE  /\ credential'[c].at = "done"
         /\ \A d \in CredentialCalls \ {c} : credential'[d] = credential[d]
BY CustodyRows DEF End, CallRow

LEMMA EndKeepsIntents ==
  ASSUME CustodyInv, NEW c \in CredentialCalls, UNCHANGED <<custody, intents>>, End(c)
  PROVE  CustodyInv'
<1>1. IntentsMatchStage'
  BY EndRow, IntentsStay, Unwritten DEF CustodyInv
<1> QED
  BY <1>1, EndStep, CustodyRows

\* A call goes on without a lock.
LEMMA MoveStep ==
  ASSUME CustodyInv, NEW c \in CredentialCalls, NEW at \in CredentialStage, Move(c, at),
         UNCHANGED <<custody, locks, intents>>,
         credential[c].held = {}, at \notin {"idle", "exchanging", "locking", "write", "posting"},
         StageOfKind(c)', RowsMatchStage(c)'
  PROVE  CustodyInv'
<1> DEFINE r == [credential[c] EXCEPT !.at = at]
<1>1. credential \in [CredentialCalls -> CallRow]
  BY CustodyRows
<1>2. r \in CallRow /\ r.held = {} /\ r.at = at
  BY <1>1 DEF CallRow
<1>3. credential' = [credential EXCEPT ![c] = r] /\ locks' = (locks \ credential[c].held) \cup r.held
  BY <1>2 DEF Move
<1>4. credential'[c] = r /\ \A d \in CredentialCalls \ {c} : credential'[d] = credential[d]
  BY <1>1, <1>3
<1>5. LocksMatchStage(c)' /\ LookIsValid(c)'
  BY <1>2, <1>4 DEF LocksMatchStage, LookIsValid, CredentialAt
<1>6. IntentsMatchStage'
  BY <1>2, <1>4, IntentsStay, Unwritten DEF CustodyInv
<1> QED
  BY <1>2, <1>3, <1>5, <1>6, CallStep, CustodyRows

\* The token is known, and the call asks for its locks.
LEMMA validateStep ==
  ASSUME CustodyInv, NEW c \in CredentialCalls, validate(c)
  PROVE  CustodyInv'
<1>1. c \in Storing /\ credential[c].at \in {"idle", "exchanging"} /\ TokenOf[c] \in Tokens
  BY ChannelCredentialsAssumption DEF validate, CredentialAt
<1>2. PICK bot \in Bots \cup {NoBot} :
        credential' = [credential EXCEPT ![c] =
          [@ EXCEPT !.at = "locking", !.token = TokenOf[c], !.bot = bot,
                    !.todo = <<<<"account", OwnerOf[c]>>>>
                               \o channelCredentialLockKeys(TokenOf[c], bot)]]
  <2> DEFINE known == IF c \in Creates THEN {NoBot, BotOf[TokenOf[c]]}
                      ELSE IF c \in Seals THEN {NoBot} ELSE {BotOf[TokenOf[c]]}
  <2>1. \A bot \in known : bot \in Bots \cup {NoBot}
    BY <1>1, ChannelCredentialsAssumption
  <2> QED
    BY <2>1, Zenon DEF validate
<1> DEFINE todo == <<<<"account", OwnerOf[c]>>>> \o channelCredentialLockKeys(TokenOf[c], bot)
           r == [credential[c] EXCEPT !.at = "locking", !.token = TokenOf[c], !.bot = bot,
                                      !.todo = todo]
<1>3. credential \in [CredentialCalls -> CallRow] /\ OwnerOf[c] \in Owners
  BY CustodyRows, ChannelCredentialsAssumption
<1>4. /\ todo = IF bot = NoBot THEN <<<<"account", OwnerOf[c]>>, <<"token", TokenOf[c]>>>>
                ELSE <<<<"account", OwnerOf[c]>>, <<"bot", bot>>, <<"token", TokenOf[c]>>>>
      /\ todo \in Seq(LockKey)
  <2>1. <<"account", OwnerOf[c]>> \in LockKey
    BY <1>3 DEF LockKey
  <2> QED
    BY <1>1, <2>1, CredentialLocks
<1>6. credential[c].held = {}
  BY <1>1 DEF CustodyInv, LocksMatchStage
<1>7. r \in CallRow /\ r.held = {} /\ r.at = "locking" /\ r.token = TokenOf[c]
      /\ r.bot = bot /\ r.todo = todo
  BY <1>1, <1>3, <1>4, <1>6 DEF CallRow, CredentialStage
<1>8. /\ credential' = [credential EXCEPT ![c] = r] /\ UNCHANGED <<custody, locks, intents>>
  BY <1>2 DEF validate
<1>9. credential'[c] = r /\ \A d \in CredentialCalls \ {c} : credential'[d] = credential[d]
  BY <1>3, <1>8
<1>10. NothingLocked(c)'
  BY <1>1, <1>4, <1>7, <1>9 DEF NothingLocked, OwnerKey, TokenKey, BotKey
<1>11. LocksMatchStage(c)'
  BY <1>1, <1>7, <1>9, <1>10 DEF LocksMatchStage
<1>12. StageOfKind(c)' /\ LookIsValid(c)'
  BY <1>1, <1>7, <1>9, Kinds, ChannelCredentialsAssumption
     DEF StageOfKind, LookIsValid, CredentialAt
<1>13. RowsMatchStage(c)'
  <2>1. c \notin Stored /\ Stored' = Stored /\ c \notin Rotations \cup Posts
    BY <1>1, <1>8, ChannelCredentialsAssumption DEF CustodyInv, RowsMatchStage, Stored
  <2> QED
    BY <1>7, <1>9, <2>1 DEF RowsMatchStage
<1>14. IntentsMatchStage'
  <2>1. c \in Exchanges => credential[c].at = "exchanging"
    BY ChannelCredentialsAssumption DEF validate, CredentialAt
  <2> QED
    BY <1>7, <1>8, <1>9, <2>1, IntentsStay, Unwritten DEF CustodyInv
<1> QED
  BY <1>6, <1>7, <1>8, <1>11, <1>12, <1>13, <1>14, CallStep, CustodyRows

\* A rotation asks for its locks under its connection's lease.
LEMMA revalidateStep ==
  ASSUME CustodyInv, NEW c \in CredentialCalls, revalidate(c)
  PROVE  CustodyInv'
<1> DEFINE lease == <<"lease", TargetOf[c]>>
<1>1. /\ c \in Rotations /\ credential[c].at = "idle" /\ TargetOf[c] \in Stored
      /\ lease \notin locks /\ locks' = locks \cup {lease}
      /\ UNCHANGED <<custody, intents>>
  BY DEF revalidate, CredentialAt
<1>2. TargetOf[c] \in Storing /\ TokenOf[c] \in Tokens
      /\ c \notin Storing \cup Posts \cup Revocations
  BY <1>1, ChannelCredentialsAssumption DEF Stored, CredentialCalls
<1>3. PICK token \in {custody[TargetOf[c]].token, TokenOf[c]} : \E bot \in {NoBot, BotOf[token]} :
        credential' = [credential EXCEPT ![c] =
          [at |-> "locking", token |-> token, bot |-> bot,
           todo |-> channelCredentialLockKeys(token, bot), held |-> {lease}]]
  BY DEF revalidate
<1>3a. PICK bot \in {NoBot, BotOf[token]} :
        credential' = [credential EXCEPT ![c] =
          [at |-> "locking", token |-> token, bot |-> bot,
           todo |-> channelCredentialLockKeys(token, bot), held |-> {lease}]]
  BY <1>3
<1>4. token \in Tokens /\ bot \in Bots \cup {NoBot}
  <2>1. custody[TargetOf[c]].token \in Tokens
    BY <1>1, <1>2 DEF CustodyInv, StoredHaveTokens
  <2> QED
    BY <1>2, <2>1, ChannelCredentialsAssumption
<1> DEFINE todo == channelCredentialLockKeys(token, bot)
           r == [at |-> "locking", token |-> token, bot |-> bot, todo |-> todo, held |-> {lease}]
<1>5. lease \in LockKey
  BY <1>2 DEF LockKey
<1>6. /\ todo = IF bot = NoBot THEN <<<<"token", token>>>>
                ELSE <<<<"bot", bot>>, <<"token", token>>>>
      /\ todo \in Seq(LockKey)
  BY <1>4, <1>5, CredentialLocks
<1>7. r \in CallRow
  BY <1>4, <1>5, <1>6 DEF CallRow, CredentialStage
<1>8. credential[c].held = {} /\ credential \in [CredentialCalls -> CallRow]
  BY <1>1, CustodyRows DEF CustodyInv, LocksMatchStage
<1>9. credential'[c] = r /\ \A d \in CredentialCalls \ {c} : credential'[d] = credential[d]
  BY <1>8, <1>3a
<1>10. LocksMatchStage(c)'
  <2>1. TokenLeft(c)' \/ BotLeft(c)'
    BY <1>1, <1>6, <1>9 DEF TokenLeft, BotLeft, FirstLock, BotLock, TokenKey, BotKey, LeaseKey
  <2> QED
    BY <1>4, <1>9, <2>1 DEF LocksMatchStage
<1>11. StageOfKind(c)' /\ LookIsValid(c)' /\ RowsMatchStage(c)'
  <2>1. Stored' = Stored
    BY <1>1 DEF Stored
  <2> QED
    BY <1>1, <1>2, <1>9, <2>1, Kinds
       DEF StageOfKind, LookIsValid, RowsMatchStage, CredentialAt, Stored
<1>12. IntentsMatchStage'
  BY <1>1, <1>2, <1>9, Kinds, IntentsStay, Unwritten DEF CustodyInv
<1> QED
  BY <1>1, <1>7, <1>8, <1>3a, <1>10, <1>11, <1>12, CallStep, CustodyRows

\* A call takes its next lock.
LEMMA lockStep ==
  ASSUME CustodyInv, NEW c \in CredentialCalls, lock(c)
  PROVE  CustodyInv'
<1> DEFINE todo == credential[c].todo
           key == Head(todo)
           r == [credential[c] EXCEPT !.todo = Tail(todo), !.held = @ \cup {key}]
<1>1. /\ credential[c].at = "locking" /\ todo # <<>> /\ key \notin locks
      /\ key[1] = "account" => ~Full(OwnerOf[c])
      /\ locks' = locks \cup {key} /\ UNCHANGED <<custody, intents>>
      /\ credential' = [credential EXCEPT ![c].todo = Tail(@), ![c].held = @ \cup {key}]
  BY DEF lock, CredentialAt
<1>2. /\ credential \in [CredentialCalls -> CallRow] /\ credential[c].held \subseteq locks
      /\ credential[c] \in CallRow
  BY CustodyRows
<1>3. todo \in Seq(LockKey) /\ key \in LockKey /\ Tail(todo) \in Seq(LockKey)
  BY <1>1, <1>2 DEF CallRow
<1>4. /\ r \in CallRow /\ r.at = "locking" /\ r.todo = Tail(todo)
      /\ r.held = credential[c].held \cup {key}
      /\ r.token = credential[c].token /\ r.bot = credential[c].bot
  BY <1>1, <1>2, <1>3 DEF CallRow
<1>5. credential' = [credential EXCEPT ![c] = r]
  BY <1>1, <1>2 DEF CallRow
<1>6. credential'[c] = r /\ \A d \in CredentialCalls \ {c} : credential'[d] = credential[d]
  BY <1>2, <1>5
<1>7. credential[c].token \in Tokens /\ (TokenLeft(c) \/ BotLeft(c) \/ NothingLocked(c))
  BY <1>1 DEF CustodyInv, LocksMatchStage, AllLocked
<1>8. (AllLocked(c) \/ TokenLeft(c) \/ BotLeft(c))'
  <2>1. CASE TokenLeft(c)
    <3>1. key = TokenKey(c) /\ Tail(todo) = <<>>
      BY <2>1 DEF TokenLeft
    <3>2. AllLocked(c)'
      BY <1>4, <1>6, <2>1, <3>1 DEF TokenLeft, AllLocked, FirstLock, BotLock, TokenKey, BotKey,
         OwnerKey, LeaseKey
    <3> QED
      BY <3>2
  <2>2. CASE BotLeft(c)
    <3>1. key = BotKey(c) /\ Tail(todo) = <<TokenKey(c)>>
      BY <2>2 DEF BotLeft
    <3>2. TokenLeft(c)'
      BY <1>4, <1>6, <2>2, <3>1 DEF TokenLeft, BotLeft, FirstLock, BotLock, TokenKey, BotKey,
         OwnerKey, LeaseKey
    <3> QED
      BY <3>2
  <2>3. CASE NothingLocked(c)
    <3>1. c \in Storing /\ c \notin Rotations
      BY <2>3, ChannelCredentialsAssumption DEF NothingLocked
    <3>2. CASE credential[c].bot = NoBot
      <4>1. key = OwnerKey(c) /\ Tail(todo) = <<TokenKey(c)>>
        BY <2>3, <3>2 DEF NothingLocked
      <4>2. TokenLeft(c)'
        BY <1>4, <1>6, <2>3, <3>1, <3>2, <4>1 DEF NothingLocked, TokenLeft, FirstLock, BotLock,
           TokenKey, BotKey, OwnerKey
      <4> QED
        BY <4>2
    <3>3. CASE credential[c].bot # NoBot
      <4>1. key = OwnerKey(c) /\ Tail(todo) = <<BotKey(c), TokenKey(c)>>
        BY <2>3, <3>3 DEF NothingLocked
      <4>2. BotLeft(c)'
        BY <1>4, <1>6, <2>3, <3>1, <3>3, <4>1 DEF NothingLocked, BotLeft, FirstLock, BotLock,
           TokenKey, BotKey, OwnerKey
      <4> QED
        BY <4>2
    <3> QED
      BY <3>2, <3>3
  <2> QED
    BY <1>7, <2>1, <2>2, <2>3
<1>9. LocksMatchStage(c)'
  BY <1>4, <1>6, <1>7, <1>8 DEF LocksMatchStage
<1>10. LookIsValid(c)'
  <2>1. CASE OwnerKey(c) \in credential[c].held
    <3>1. c \in Storing => ~Full(OwnerOf[c])
      BY <2>1, CustodyRows DEF LookIsValid
    <3>2. c \in Storing => ~Full(OwnerOf[c])'
      BY <1>1, <3>1, Unwritten
    <3> QED
      BY <1>4, <1>6, <3>2 DEF LookIsValid, CredentialAt
  <2>2. CASE OwnerKey(c) = key
    <3>1. ~Full(OwnerOf[c])
      BY <1>1, <2>2 DEF OwnerKey
    <3>2. ~Full(OwnerOf[c])'
      BY <1>1, <3>1, Unwritten
    <3> QED
      BY <1>4, <1>6, <3>2 DEF LookIsValid, CredentialAt
  <2>3. CASE OwnerKey(c) \notin credential[c].held \cup {key}
    BY <1>4, <1>6, <2>3 DEF LookIsValid, CredentialAt, OwnerKey
  <2> QED
    BY <2>1, <2>2, <2>3
<1>11. StageOfKind(c)' /\ RowsMatchStage(c)'
  BY <1>1, <1>4, <1>6 DEF CustodyInv, StageOfKind, RowsMatchStage, Stored
<1>12. IntentsMatchStage'
  BY <1>1, <1>4, <1>6, IntentsStay, Unwritten DEF CustodyInv
<1>13. /\ locks' = (locks \ credential[c].held) \cup r.held
       /\ (r.held \ credential[c].held) \cap locks = {}
  BY <1>1, <1>2, <1>4
<1> QED
  BY <1>1, <1>4, <1>5, <1>9, <1>10, <1>11, <1>12, <1>13, CallStep, CustodyRows

\* The last look, under all the locks.
LEMMA lookStep ==
  ASSUME CustodyInv, NEW c \in CredentialCalls, look(c)
  PROVE  CustodyInv'
<1> DEFINE r == [credential[c] EXCEPT !.at = "write"]
<1>1. /\ credential[c].at = "locking" /\ credential[c].todo = <<>> /\ Conflicts(c) = {}
      /\ credential' = [credential EXCEPT ![c] = r]
      /\ UNCHANGED <<custody, locks, intents>>
  BY DEF look, CredentialAt, Move
<1>2. credential \in [CredentialCalls -> CallRow] /\ credential[c].held \subseteq locks
  BY CustodyRows
<1>3. /\ r \in CallRow /\ r.at = "write" /\ r.todo = <<>> /\ r.held = credential[c].held
      /\ r.token = credential[c].token /\ r.bot = credential[c].bot
  BY <1>1, <1>2 DEF CallRow, CredentialStage
<1>4. credential'[c] = r /\ \A d \in CredentialCalls \ {c} : credential'[d] = credential[d]
  BY <1>1, <1>2
<1>5. credential[c].token \in Tokens /\ AllLocked(c)
  <2>1. ~TokenLeft(c) /\ ~BotLeft(c)
    BY <1>1 DEF TokenLeft, BotLeft
  <2>2. ~NothingLocked(c)
    BY <1>1 DEF NothingLocked
  <2> QED
    BY <1>1, <2>1, <2>2, CustodyRows DEF LocksMatchStage
<1>6. LocksMatchStage(c)'
  <2>1. AllLocked(c)'
    BY <1>3, <1>4, <1>5 DEF AllLocked, FirstLock, BotLock, TokenKey, BotKey, OwnerKey, LeaseKey
  <2> QED
    BY <1>3, <1>4, <1>5, <2>1 DEF LocksMatchStage
<1>7. LookIsValid(c)'
  <2>1. Conflicts(c)' = {}
    BY <1>1, <1>3, <1>4 DEF Conflicts, Stored
  <2>2. c \in Storing /\ OwnerKey(c) \in credential[c].held => ~Full(OwnerOf[c])'
    BY <1>1, Unwritten, CustodyRows DEF LookIsValid
  <2> QED
    BY <1>3, <1>4, <2>1, <2>2 DEF LookIsValid, CredentialAt, OwnerKey
<1>8. StageOfKind(c)' /\ RowsMatchStage(c)'
  BY <1>1, <1>3, <1>4 DEF CustodyInv, StageOfKind, RowsMatchStage, Stored
<1>9. IntentsMatchStage'
  BY <1>1, <1>3, <1>4, IntentsStay, Unwritten DEF CustodyInv
<1> QED
  BY <1>1, <1>2, <1>3, <1>6, <1>7, <1>8, <1>9, CallStep, CustodyRows

\* A failure is recorded with the intent that still waits for the exchange.
LEMMA failExchangeStep ==
  ASSUME CustodyInv, NEW c \in Exchanges, failExchange(c),
         credential[c].at \notin {"idle", "done"}
  PROVE  CustodyInv'
<1>1. c \in CredentialCalls /\ End(c) /\ UNCHANGED custody
  BY Kinds DEF failExchange
<1>2. CASE UNCHANGED intents
  BY <1>1, <1>2, EndKeepsIntents
<1>3. CASE Exchanging(c) /\ Intent(Onboarding(c), "failed")
  <2> DEFINE i == Onboarding(c)
  <2>1. credential[c].at \in {"exchanging", "locking", "write"}
    BY ChannelCredentialsAssumption, Kinds DEF CustodyInv, StageOfKind
  <2>2. i \in DOMAIN intents /\ intents[i].exchange = {c} /\ intents[i].state = "exchanging"
    BY <1>3, <2>1 DEF CustodyInv, IntentsMatchStage, Onboarding, Exchanging
  <2>3. intents' = [intents EXCEPT ![i].state = "failed"]
    BY <1>3 DEF Intent
  <2>4. /\ DOMAIN intents' = DOMAIN intents
        /\ intents'[i].state = "failed"
        /\ \A j \in DOMAIN intents :
             intents'[j].exchange = intents[j].exchange
               /\ (j # i => intents'[j].state = intents[j].state)
        /\ intents' \in [DOMAIN intents ->
             [state : IntentState, granter : SUBSET Granters, exchange : SUBSET Exchanges]]
    BY <2>2, <2>3, CustodyRows DEF IntentState
  <2>5. c \notin Stored /\ Stored' = Stored
    BY <1>1, <2>1 DEF CustodyInv, RowsMatchStage, Stored
  <2>6. IntentsMatchStage'
    <3>1. \A d \in Exchanges :
            \/ credential'[d] = credential[d]
            \/ credential'[d].at = "done" /\ d \notin Stored
      <4>1. /\ credential'[c].at = "done"
            /\ \A d \in CredentialCalls \ {c} : credential'[d] = credential[d]
        BY <1>1, EndRow
      <4> QED
        BY <2>5, <4>1, Kinds
    <3> HIDE DEF i
    <3>2. \A j \in DOMAIN intents :
            /\ intents'[j].exchange = intents[j].exchange
            /\ \/ intents'[j].state = intents[j].state
               \/ /\ "stored" \notin {intents[j].state, intents'[j].state}
                  /\ intents'[j].state \in Early => intents[j].state \in Early
      BY <2>2, <2>4 DEF Early
    <3> QED
      BY <2>4, <2>5, <3>1, <3>2, IntentsMove DEF CustodyInv
  <2> QED
    BY <1>1, <2>4, <2>6, EndStep
<1> QED
  BY <1>2, <1>3 DEF failExchange

\* A transaction is rolled back, or an exchange is refused before it.
LEMMA rollBackStep ==
  ASSUME CustodyInv, NEW c \in CredentialCalls,
         rollBack(c) \/ refuseExchange(c)
  PROVE  CustodyInv'
<1>1. CASE refuseExchange(c)
  <2>1. c \in Exchanges /\ credential[c].at = "exchanging" /\ failExchange(c)
    BY <1>1 DEF refuseExchange, CredentialAt, CustodyInv, StageOfKind, CredentialCalls, Storing
  <2> QED
    BY <2>1, failExchangeStep
<1>2. CASE rollBack(c)
  <2>1. CASE c \in Exchanges /\ failExchange(c)
    BY <1>2, <2>1, failExchangeStep DEF rollBack
  <2>2. CASE End(c) /\ UNCHANGED <<custody, intents>>
    BY <2>2, EndKeepsIntents
  <2> QED
    BY <1>2, <2>1, <2>2 DEF rollBack
<1> QED
  BY <1>1, <1>2

\* The new X connection is announced, or revoked again.
LEMMA connectedStep ==
  ASSUME CustodyInv, NEW c \in CredentialCalls, connected(c)
  PROVE  CustodyInv'
<1>1. credential[c].at = "announce" /\ UNCHANGED <<custody, intents>>
  BY DEF connected, CredentialAt, KeepCustody
<1>2. c \in Seals /\ credential[c].held = {} /\ c \in Stored
  BY <1>1 DEF CustodyInv, StageOfKind, LocksMatchStage, RowsMatchStage, CredentialCalls, Storing
<1>3. CASE End(c)
  BY <1>1, <1>3, EndKeepsIntents
<1>4. CASE Move(c, "revoking") /\ UNCHANGED locks
  <2>1. credential'[c].at = "revoking"
    BY <1>4, CustodyRows DEF Move, CallRow
  <2>2. StageOfKind(c)' /\ RowsMatchStage(c)'
    BY <1>1, <1>2, <2>1, ChannelCredentialsAssumption, Kinds
       DEF StageOfKind, RowsMatchStage, Stored
  <2> QED
    BY <1>1, <1>2, <1>4, <2>2, MoveStep DEF CredentialStage
<1> QED
  BY <1>3, <1>4 DEF connected

\* A post reads that the connection is active, twice, and takes its lock.
LEMMA PostSteps ==
  ASSUME CustodyInv, NEW c \in Posts,
         admitPost(c) \/ startPost(c) \/ withPlaintext(c) \/ posted(c)
  PROVE  CustodyInv'
<1>1. /\ c \in CredentialCalls /\ c \notin Storing \cup Rotations \cup Revocations
      /\ TargetOf[c] \in Storing /\ UseLock(c) \in LockKey
      /\ UNCHANGED <<custody, intents>> /\ Stored' = Stored
      /\ credential \in [CredentialCalls -> CallRow]
      /\ StageOfKind(c) /\ LocksMatchStage(c) /\ LookIsValid(c) /\ RowsMatchStage(c)
  <2>1. TargetOf[c] \in Storing /\ c \notin Storing \cup Rotations \cup Revocations
    BY Kinds, ChannelCredentialsAssumption
  <2>2. UNCHANGED <<custody, intents>>
    BY DEF admitPost, startPost, withPlaintext, posted, KeepCustody
  <2> QED
    BY <2>1, <2>2, Kinds, CustodyRows, Unwritten DEF UseLock, LockKey
<1>2. CASE admitPost(c)
  <2>1. /\ credential[c].at = "idle" /\ Move(c, "admitted") /\ TargetOf[c] \in Stored
        /\ UNCHANGED locks
    BY <1>1, <1>2 DEF admitPost, IsUsable, CredentialAt, Stored
  <2>2. credential'[c].at = "admitted"
    BY <1>1, <2>1 DEF Move, CallRow
  <2>3. StageOfKind(c)' /\ RowsMatchStage(c)' /\ credential[c].held = {}
    BY <1>1, <2>1, <2>2, Kinds DEF StageOfKind, RowsMatchStage, LocksMatchStage
  <2> QED
    BY <1>1, <2>1, <2>3, MoveStep DEF CredentialStage
<1>3. ASSUME NEW at \in {"started", "done"}, credential[c].at \in {"admitted", "started"},
             Move(c, at), UNCHANGED locks
      PROVE  CustodyInv'
  <2>1. credential'[c].at = at
    BY <1>1, <1>3 DEF Move, CallRow
  <2>2. StageOfKind(c)' /\ RowsMatchStage(c)' /\ credential[c].held = {}
    BY <1>1, <1>3, <2>1, Kinds DEF StageOfKind, RowsMatchStage, LocksMatchStage
  <2> QED
    BY <1>1, <1>3, <2>2, MoveStep DEF CredentialStage
<1>4. CASE startPost(c)
  BY <1>3, <1>4 DEF startPost, CredentialAt
<1>5. ASSUME NEW r \in CallRow, r.at \in {"posting", "revoking"},
             credential' = [credential EXCEPT ![c] = r],
             credential[c].at \in {"started", "posting"},
             r.at = "posting" => r.held = {UseLock(c)} /\ UseLock(c) \notin locks /\ IsUsable(c),
             r.at = "revoking" => r.held = {},
             locks' = (locks \ credential[c].held) \cup r.held
      PROVE  CustodyInv'
  <2>1. credential'[c] = r /\ \A d \in CredentialCalls \ {c} : credential'[d] = credential[d]
    BY <1>1, <1>5
  <2>2. StageOfKind(c)' /\ RowsMatchStage(c)' /\ LocksMatchStage(c)'
    BY <1>1, <1>5, <2>1, Kinds DEF StageOfKind, RowsMatchStage, LocksMatchStage, UseLock
  <2>3. LookIsValid(c)'
    BY <1>1, <1>5, <2>1 DEF LookIsValid, CredentialAt, IsUsable
  <2>4. IntentsMatchStage'
    BY <1>1, <1>5, <2>1, Kinds, IntentsStay, Unwritten DEF CustodyInv
  <2> QED
    BY <1>1, <1>5, <2>2, <2>3, <2>4, CallStep, CustodyRows
<1>6. CASE withPlaintext(c)
  <2>1. CASE IsUsable(c)
    <3> DEFINE r == [credential[c] EXCEPT !.at = "posting", !.held = {UseLock(c)}]
    <3>1. /\ credential[c].at = "started" /\ UseLock(c) \notin locks
          /\ locks' = locks \cup {UseLock(c)} /\ credential' = [credential EXCEPT ![c] = r]
      BY <1>6, <2>1 DEF withPlaintext, CredentialAt
    <3>2. r \in CallRow /\ r.at = "posting" /\ r.held = {UseLock(c)}
      BY <1>1 DEF CallRow, CredentialStage
    <3>3. locks' = (locks \ credential[c].held) \cup r.held
      BY <1>1, <3>1, <3>2 DEF LocksMatchStage
    <3> QED
      BY <1>5, <2>1, <3>1, <3>2, <3>3
  <2>2. CASE ~IsUsable(c)
    BY <1>3, <1>6, <2>2 DEF withPlaintext, CredentialAt
  <2> QED
    BY <2>1, <2>2
<1>7. CASE posted(c)
  <2>1. credential[c].at = "posting" /\ credential[c].held = {UseLock(c)}
    BY <1>1, <1>7 DEF posted, CredentialAt, LocksMatchStage
  <2>2. CASE End(c)
    BY <1>1, <2>2, EndKeepsIntents
  <2>3. CASE /\ locks' = locks \ {UseLock(c)}
             /\ credential' = [credential EXCEPT ![c].at = "revoking", ![c].held = {}]
    <3> DEFINE r == [credential[c] EXCEPT !.at = "revoking", !.held = {}]
    <3>1. r \in CallRow /\ r.at = "revoking" /\ r.held = {}
      BY <1>1 DEF CallRow, CredentialStage
    <3>2. credential' = [credential EXCEPT ![c] = r]
      BY <2>3
    <3> QED
      BY <1>5, <2>1, <2>3, <3>1, <3>2
  <2> QED
    BY <1>7, <2>2, <2>3 DEF posted
<1> QED
  BY <1>2, <1>4, <1>6, <1>7

\* A call writes a row and gives up its locks.
LEMMA WriteStep ==
  ASSUME CustodyInv, NEW c \in CredentialCalls, NEW r \in CallRow,
         NEW x \in Storing, CustodyTypeOK',
         \A y \in Storing \ {x} : custody'[y] = custody[y], custody'[x].state # "none",
         x \in Stored \/ x = c,
         credential' = [credential EXCEPT ![c] = r], r.held = {}, r.at \in {"announce", "done"},
         r.at = "announce" => x = c,
         locks' = locks \ credential[c].held,
         OneConnectionPerBot', StoredHaveTokens', QuotaHolds', IntentsMatchStage',
         \A d \in CredentialCalls \ {c} : LookIsValid(d)',
         StageOfKind(c)'
  PROVE  CustodyInv'
<1>1. credential \in [CredentialCalls -> CallRow]
  BY CustodyRows
<1>2. credential'[c] = r /\ \A d \in CredentialCalls \ {c} : credential'[d] = credential[d]
  BY <1>1
<1>3. Stored' = Stored \cup {x}
  BY DEF CustodyInv, CustodyTypeOK, Stored
<1>4. IsFiniteSet(Stored)'
  BY <1>3, FS_AddElement DEF CustodyInv
<1>5. LocksAreExclusive'
  BY <1>2, LocksStayExclusive DEF CustodyInv
<1>6. LocksMatchStage(c)' /\ LookIsValid(c)'
  BY <1>2 DEF LocksMatchStage, LookIsValid, CredentialAt
<1>7. ASSUME NEW d \in CredentialCalls
      PROVE  RowsMatchStage(d)'
  <2>1. CASE d = c
    BY <1>2, <1>3, <2>1 DEF RowsMatchStage, StageOfKind
  <2>2. CASE d # c
    BY <1>2, <1>3, <2>2 DEF RowsMatchStage, CustodyInv
  <2> QED
    BY <2>1, <2>2
<1>8. ASSUME NEW d \in CredentialCalls \ {c}
      PROVE  StageOfKind(d)' /\ LocksMatchStage(d)'
  BY <1>2, CustodyRows
     DEF StageOfKind, LocksMatchStage, AllLocked, TokenLeft, BotLeft, NothingLocked,
         FirstLock, BotLock, TokenKey, BotKey, LeaseKey, OwnerKey, UseLock
<1> QED
  BY <1>4, <1>5, <1>6, <1>7, <1>8 DEF CustodyInv

\* The rows of the calls that have all their locks differ in token and bot,
\* because their locks do.
LEMMA LocksDiffer ==
  ASSUME CustodyInv, NEW c \in CredentialCalls, NEW d \in CredentialCalls, c # d,
         AllLocked(c)
  PROVE  /\ AllLocked(d) =>
              /\ credential[c].token # credential[d].token
              /\ credential[c].bot = credential[d].bot => credential[c].bot = NoBot
         /\ c \in Storing /\ OwnerKey(d) \in credential[d].held => OwnerOf[c] # OwnerOf[d]
<1>1. credential[c].held \cap credential[d].held = {}
  BY DEF CustodyInv, LocksAreExclusive
<1>2. c \in Storing => OwnerKey(c) \in credential[c].held
  BY ChannelCredentialsAssumption DEF AllLocked, FirstLock
<1>3. TokenKey(c) \in credential[c].held /\ (credential[c].bot # NoBot => BotKey(c) \in credential[c].held)
  BY DEF AllLocked, BotLock
<1>4. AllLocked(d) => /\ TokenKey(d) \in credential[d].held
                      /\ credential[d].bot # NoBot => BotKey(d) \in credential[d].held
  BY DEF AllLocked, BotLock
<1> QED
  BY <1>1, <1>2, <1>3, <1>4 DEF TokenKey, BotKey, OwnerKey

\* What a call has looked at, another one's write of a token leaves valid.
LEMMA LookStaysValid ==
  ASSUME CustodyInv, NEW c \in CredentialCalls, AllLocked(c), credential[c].at = "write",
         NEW x \in Storing, x \in Stored \/ (x = c /\ c \in Storing),
         NEW d \in CredentialCalls, d # c, credential'[d] = credential[d],
         \A y \in Storing \ {x} : custody'[y] = custody[y],
         custody'[x].state # "none",
         x \in Stored => custody'[x].state = custody[x].state,
         custody'[x].token = credential[c].token, custody'[x].bot = credential[c].bot
  PROVE  LookIsValid(d)'
<1>1. Stored' = Stored \cup {x}
  BY DEF CustodyInv, CustodyTypeOK, Stored
<1>2. credential'[d].at = "write" => Conflicts(d)' = {}
  <2> SUFFICES ASSUME credential[d].at = "write", NEW y \in Stored',
                      ~(d \in Rotations /\ y = TargetOf[d])
               PROVE  /\ custody'[y].token # credential[d].token
                      /\ credential[d].bot # NoBot => custody'[y].bot # credential[d].bot
    BY DEF Conflicts
  <2>1. Conflicts(d) = {} /\ AllLocked(d)
    BY CustodyRows DEF LookIsValid, LocksMatchStage
  <2>2. CASE y = x
    BY <2>1, <2>2, LocksDiffer
  <2>3. CASE y # x
    BY <1>1, <2>1, <2>3 DEF Conflicts, Stored
  <2> QED
    BY <2>2, <2>3
<1>3. d \in Storing /\ OwnerKey(d) \in credential[d].held => ~Full(OwnerOf[d])'
  <2> SUFFICES ASSUME d \in Storing, OwnerKey(d) \in credential[d].held
               PROVE  ~Full(OwnerOf[d])'
    OBVIOUS
  <2>1. ~Full(OwnerOf[d])
    BY CustodyRows DEF LookIsValid
  <2>2. x \in Stored \/ OwnerOf[x] # OwnerOf[d]
    BY LocksDiffer
  <2>3. OwnedBy(OwnerOf[d])' = OwnedBy(OwnerOf[d])
    BY <1>1, <2>2 DEF OwnedBy
  <2> QED
    BY <2>1, <2>3 DEF Full
<1>4. d \in Posts /\ CredentialAt(d, "posting")' => IsUsable(d)'
  <2> SUFFICES ASSUME d \in Posts, credential[d].at = "posting"
               PROVE  IsUsable(d)'
    BY DEF CredentialAt
  <2>1. TargetOf[d] \in Storing /\ custody[TargetOf[d]].state = "active"
    BY CustodyRows, ChannelCredentialsAssumption, Kinds DEF LookIsValid, IsUsable, CredentialAt
  <2>2. TargetOf[d] \in Stored
    BY <2>1 DEF Stored
  <2>3. TargetOf[d] # x \/ x \in Stored
    BY <2>2
  <2> QED
    BY <2>1, <2>3 DEF IsUsable
<1> QED
  BY <1>2, <1>3, <1>4 DEF LookIsValid, OwnerKey

\* The row of a connection, and an exchange's intent with it.
LEMMA storeCredentialStep ==
  ASSUME CustodyInv, NEW c \in CredentialCalls, storeCredential(c)
  PROVE  CustodyInv'
<1> DEFINE row == [token |-> credential[c].token, bot |-> credential[c].bot,
                   state |-> IF c \in Seals THEN "active" ELSE "stored"]
           r == IF c \in Seals THEN [credential[c] EXCEPT !.at = "announce", !.held = {}]
                ELSE [credential[c] EXCEPT !.at = "done", !.todo = <<>>, !.held = {}]
<1>1. /\ c \in Storing /\ credential[c].at = "write" /\ custody' = [custody EXCEPT ![c] = row]
  BY DEF storeCredential, CredentialAt
<1>2. /\ credential \in [CredentialCalls -> CallRow] /\ AllLocked(c)
      /\ credential[c].token \in Tokens /\ c \notin Stored /\ c \notin Rotations
      /\ Conflicts(c) = {}
  BY <1>1, CustodyRows, ChannelCredentialsAssumption DEF LocksMatchStage, RowsMatchStage, LookIsValid
<1>3. /\ credential' = [credential EXCEPT ![c] = r] /\ locks' = locks \ credential[c].held
  <2>1. CASE c \in Seals
    BY <1>1, <2>1 DEF storeCredential
  <2>2. CASE c \notin Seals
    BY <1>1, <2>2 DEF storeCredential, End
  <2> QED
    BY <2>1, <2>2
<1>4. /\ r \in CallRow /\ r.held = {} /\ r.at = IF c \in Seals THEN "announce" ELSE "done"
  <2>1. <<>> \in Seq(LockKey) /\ {} \in SUBSET LockKey /\ {"announce", "done"} \subseteq CredentialStage
    BY DEF CredentialStage
  <2> QED
    BY <1>2, <2>1 DEF CallRow
<1>5. credential'[c] = r /\ \A d \in CredentialCalls \ {c} : credential'[d] = credential[d]
  BY <1>2, <1>3
<1>6. /\ custody \in [Storing -> [token : Tokens \cup {NoToken}, bot : Bots \cup {NoBot},
                                 state : {"none", "stored", "active", "revoked"}]]
      /\ row \in [token : Tokens \cup {NoToken}, bot : Bots \cup {NoBot},
                  state : {"none", "stored", "active", "revoked"}]
  BY <1>2 DEF CustodyInv, CustodyTypeOK, CallRow
<1>7. /\ custody'[c] = row /\ row.state # "none"
      /\ \A y \in Storing \ {c} : custody'[y] = custody[y]
  BY <1>1, <1>6
<1>8. Stored' = Stored \cup {c}
  <2>1. custody'[c].state # "none"
    BY <1>7
  <2> QED
    BY <1>1, <1>7, <2>1 DEF Stored
<1>9. DOMAIN intents' = DOMAIN intents
      /\ intents' \in [DOMAIN intents ->
           [state : IntentState, granter : SUBSET Granters, exchange : SUBSET Exchanges]]
      /\ IntentsMatchStage'
  <2>1. CASE c \notin Exchanges
    <3>1. UNCHANGED intents
      BY <2>1 DEF storeCredential
    <3> QED
      BY <1>1, <1>4, <1>5, <1>8, <2>1, <3>1, CustodyRows, Kinds DEF CustodyInv, IntentsMatchStage
  <2>2. CASE c \in Exchanges
    <3> DEFINE i == Onboarding(c)
    <3>1. /\ i \in DOMAIN intents /\ intents[i].exchange = {c}
      BY <1>1, <2>2 DEF CustodyInv, IntentsMatchStage, Onboarding
    <3>2. intents' = [intents EXCEPT ![i].state = "stored"]
      BY <2>2 DEF storeCredential, Intent
    <3> HIDE DEF i
    <3>3. /\ DOMAIN intents' = DOMAIN intents
          /\ intents'[i].state = "stored"
          /\ \A j \in DOMAIN intents : intents'[j].exchange = intents[j].exchange
          /\ \A j \in DOMAIN intents \ {i} : intents'[j].state = intents[j].state
          /\ intents' \in [DOMAIN intents ->
               [state : IntentState, granter : SUBSET Granters, exchange : SUBSET Exchanges]]
      BY <3>1, <3>2, CustodyRows DEF IntentState
    <3>4. ASSUME NEW j \in DOMAIN intents
          PROVE  /\ intents'[j].state \in {"none", "pending_owner", "awaiting_bot"} =>
                      intents'[j].exchange = {}
                 /\ \A d \in Exchanges : d \in intents'[j].exchange =>
                      /\ intents'[j].exchange = {d}
                      /\ credential'[d].at # "idle"
                      /\ \A k \in DOMAIN intents : d \in intents'[k].exchange => j = k
                 /\ intents'[j].state = "stored" => intents'[j].exchange \subseteq Stored'
      <4>1. \A d \in Exchanges : d \in intents'[j].exchange => credential'[d].at # "idle"
        <5>1. credential'[c].at # "idle"
          BY <1>4, <1>5
        <5>2. \A d \in Exchanges : credential'[d].at # "idle" \/ credential'[d] = credential[d]
          BY <1>5, <5>1, Kinds
        <5> QED
          BY <3>3, <5>2 DEF CustodyInv, IntentsMatchStage
      <4>2. j = i \/ intents'[j].state = intents[j].state
        BY <3>3
      <4> QED
        BY <1>8, <3>1, <3>3, <4>1, <4>2 DEF CustodyInv, IntentsMatchStage
    <3>5. ASSUME NEW d \in Exchanges
          PROVE  /\ credential'[d].at \in {"exchanging", "locking", "write"} =>
                      \E j \in DOMAIN intents : intents'[j].exchange = {d}
                 /\ d \in Stored' =>
                      \E j \in DOMAIN intents : intents'[j].state = "stored" /\ intents'[j].exchange = {d}
      <4>1. CASE d = c
        BY <3>1, <3>3, <4>1
      <4>2. CASE d # c
        <5>1. credential'[d] = credential[d] /\ (d \in Stored' => d \in Stored)
          BY <1>5, <1>8, <4>2, Kinds
        <5>2. \A j \in DOMAIN intents : intents[j].exchange = {d} => j # i
          BY <3>1, <4>2
        <5> QED
          BY <3>3, <5>1, <5>2 DEF CustodyInv, IntentsMatchStage
      <4> QED
        BY <4>1, <4>2
    <3> QED
      BY <3>3, <3>4, <3>5 DEF IntentsMatchStage
  <2> QED
    BY <2>1, <2>2
<1>10. CustodyTypeOK'
  BY <1>1, <1>2, <1>3, <1>4, <1>6, <1>9 DEF CustodyInv, CustodyTypeOK, CallRow
<1>11. StoredHaveTokens' /\ OneConnectionPerBot'
  <2>1. \A d \in Stored : /\ custody[d].token # credential[c].token
                          /\ credential[c].bot # NoBot => custody[d].bot # credential[c].bot
    BY <1>2 DEF Conflicts
  <2>2. \A d \in Stored : d # c /\ custody'[d] = custody[d]
    BY <1>2, <1>7 DEF Stored
  <2> QED
    BY <1>2, <1>7, <1>8, <2>1, <2>2 DEF CustodyInv, StoredHaveTokens, OneConnectionPerBot
<1>12. QuotaHolds'
  <2> SUFFICES ASSUME NEW a \in Owners
               PROVE  Cardinality(OwnedBy(a)') <= Quota
    BY DEF QuotaHolds
  <2>1. CASE OwnerOf[c] # a
    <3>1. OwnedBy(a)' = OwnedBy(a)
      BY <1>8, <2>1 DEF OwnedBy
    <3> QED
      BY <3>1 DEF CustodyInv, QuotaHolds
  <2>2. CASE OwnerOf[c] = a
    <3>1. OwnedBy(a)' = OwnedBy(a) \cup {c} /\ c \notin OwnedBy(a)
      BY <1>2, <1>8, <2>2 DEF OwnedBy
    <3>2. IsFiniteSet(OwnedBy(a))
      BY FS_Subset DEF CustodyInv, OwnedBy
    <3>3. /\ Cardinality(OwnedBy(a)') = Cardinality(OwnedBy(a)) + 1
          /\ Cardinality(OwnedBy(a)) \in Nat
      BY <3>1, <3>2, FS_AddElement, FS_CardinalityType
    <3>4. ~(Cardinality(OwnedBy(a)) >= Quota)
      BY <1>1, <1>2, <2>2, CustodyRows DEF LookIsValid, AllLocked, FirstLock, Full
    <3> QED
      BY <3>3, <3>4, ChannelCredentialsAssumption
  <2> QED
    BY <2>1, <2>2
<1>13. \A d \in CredentialCalls \ {c} : LookIsValid(d)'
  BY <1>1, <1>2, <1>5, <1>7, LookStaysValid
<1>14. StageOfKind(c)'
  BY <1>1, <1>4, <1>5, ChannelCredentialsAssumption DEF StageOfKind, Storing
<1>15. r.at \in {"announce", "done"} /\ custody'[c].state # "none"
  BY <1>4, <1>7
<1> QED
  BY <1>1, <1>3, <1>4, <1>7, <1>9, <1>10, <1>11, <1>12, <1>13, <1>14, <1>15, WriteStep

\* The new credential of a connection.
LEMMA rotateStep ==
  ASSUME CustodyInv, NEW c \in CredentialCalls, rotate(c)
  PROVE  CustodyInv'
<1> DEFINE x == TargetOf[c]
           r == [credential[c] EXCEPT !.at = "done", !.todo = <<>>, !.held = {}]
<1>1. /\ c \in Rotations /\ credential[c].at = "write" /\ UNCHANGED intents
      /\ custody' = [custody EXCEPT ![x].token = credential[c].token, ![x].bot = credential[c].bot]
      /\ credential' = [credential EXCEPT ![c] = r] /\ locks' = locks \ credential[c].held
  BY DEF rotate, CredentialAt, End
<1>2. /\ credential \in [CredentialCalls -> CallRow] /\ AllLocked(c)
      /\ credential[c].token \in Tokens /\ x \in Stored /\ c \notin Storing
      /\ Conflicts(c) = {}
  BY <1>1, CustodyRows, ChannelCredentialsAssumption DEF LocksMatchStage, RowsMatchStage, LookIsValid
<1>3. r \in CallRow /\ r.held = {} /\ r.at = "done"
  <2>1. <<>> \in Seq(LockKey) /\ {} \in SUBSET LockKey /\ "done" \in CredentialStage
    BY DEF CredentialStage
  <2> QED
    BY <1>2, <2>1 DEF CallRow
<1>4. credential'[c] = r /\ \A d \in CredentialCalls \ {c} : credential'[d] = credential[d]
  BY <1>1, <1>2
<1>5. x \in Storing /\ custody[x].state # "none"
  BY <1>2 DEF Stored
<1>6. /\ custody'[x].state = custody[x].state /\ custody'[x].token = credential[c].token
      /\ custody'[x].bot = credential[c].bot
      /\ \A y \in Storing \ {x} : custody'[y] = custody[y]
      /\ custody' \in [Storing -> [token : Tokens \cup {NoToken}, bot : Bots \cup {NoBot},
                                  state : {"none", "stored", "active", "revoked"}]]
  BY <1>1, <1>2, <1>5 DEF CustodyInv, CustodyTypeOK, CallRow
<1>7. Stored' = Stored
  BY <1>5, <1>6 DEF Stored
<1>8. CustodyTypeOK'
  BY <1>1, <1>2, <1>3, <1>6 DEF CustodyInv, CustodyTypeOK, CallRow
<1>9. StoredHaveTokens' /\ OneConnectionPerBot'
  <2>1. \A d \in Stored \ {x} :
          /\ custody[d].token # credential[c].token
          /\ credential[c].bot # NoBot => custody[d].bot # credential[c].bot
    BY <1>1, <1>2 DEF Conflicts
  <2>2. \A d \in Stored \ {x} : custody'[d] = custody[d]
    BY <1>6 DEF Stored
  <2> QED
    BY <1>2, <1>6, <1>7, <2>1, <2>2 DEF CustodyInv, StoredHaveTokens, OneConnectionPerBot
<1>10. QuotaHolds'
  BY <1>7 DEF CustodyInv, QuotaHolds, OwnedBy
<1>11. IntentsMatchStage'
  BY <1>1, <1>3, <1>4, <1>7, IntentsStay DEF CustodyInv
<1>12. ASSUME NEW d \in CredentialCalls \ {c}
       PROVE  LookIsValid(d)'
  <2>1. /\ credential'[d] = credential[d] /\ credential[c].at = "write"
        /\ AllLocked(c) /\ x \in Stored
        /\ custody'[x].state # "none" /\ custody'[x].state = custody[x].state
    BY <1>1, <1>2, <1>4, <1>5, <1>6
  <2> HIDE DEF x
  <2> QED
    BY <1>5, <1>6, <2>1, LookStaysValid
<1>13. StageOfKind(c)'
  BY <1>3, <1>4 DEF StageOfKind
<1>14. custody'[x].state # "none"
  BY <1>5, <1>6
<1> HIDE DEF x
<1> QED
  BY <1>1, <1>2, <1>3, <1>5, <1>6, <1>8, <1>9, <1>10, <1>11, <1>12, <1>13, <1>14, WriteStep

\* A revocation finds no post at work, whose lock it would wait for.
LEMMA revokeCredentialStep ==
  ASSUME CustodyInv, NEW c \in CredentialCalls, revokeCredential(c)
  PROVE  CustodyInv'
<1> DEFINE x == TargetOf[c]
           r == [credential[c] EXCEPT !.at = "done", !.todo = <<>>, !.held = {}]
<1>1. /\ (c \in Revocations /\ IsUsable(c)) \/ credential[c].at = "revoking"
      /\ UseLock(c) \notin locks /\ UNCHANGED intents
      /\ custody' = [custody EXCEPT ![x].state = "revoked"]
      /\ credential' = [credential EXCEPT ![c] = r] /\ locks' = locks \ credential[c].held
  BY DEF revokeCredential, CredentialAt, End
<1>2. credential \in [CredentialCalls -> CallRow] /\ x \in Stored
  <2>1. CASE c \in Revocations /\ IsUsable(c)
    BY <2>1, CustodyRows, Kinds, ChannelCredentialsAssumption DEF IsUsable, Stored
  <2>2. CASE credential[c].at = "revoking"
    <3>1. c \in Seals \cup Posts
      BY <2>2, CustodyRows DEF StageOfKind, CredentialCalls, Storing
    <3> QED
      BY <2>2, <3>1, CustodyRows, ChannelCredentialsAssumption DEF RowsMatchStage
  <2> QED
    BY <1>1, <2>1, <2>2
<1>3. r \in CallRow /\ r.held = {} /\ r.at = "done"
  <2>1. <<>> \in Seq(LockKey) /\ {} \in SUBSET LockKey /\ "done" \in CredentialStage
    BY DEF CredentialStage
  <2> QED
    BY <1>2, <2>1 DEF CallRow
<1>4. credential'[c] = r /\ \A d \in CredentialCalls \ {c} : credential'[d] = credential[d]
  BY <1>1, <1>2
<1>5. x \in Storing
  BY <1>2 DEF Stored
<1>6. /\ custody'[x].state = "revoked"
      /\ \A y \in Storing : custody'[y].token = custody[y].token /\ custody'[y].bot = custody[y].bot
      /\ \A y \in Storing \ {x} : custody'[y] = custody[y]
      /\ custody' \in [Storing -> [token : Tokens \cup {NoToken}, bot : Bots \cup {NoBot},
                                  state : {"none", "stored", "active", "revoked"}]]
  BY <1>1, <1>2, <1>5 DEF CustodyInv, CustodyTypeOK
<1>7. Stored' = Stored
  BY <1>2, <1>5, <1>6 DEF Stored
<1>8. CustodyTypeOK'
  BY <1>1, <1>2, <1>3, <1>6 DEF CustodyInv, CustodyTypeOK, CallRow
<1>9. StoredHaveTokens' /\ OneConnectionPerBot'
  <2>1. Stored \subseteq Storing
    BY DEF Stored
  <2> QED
    BY <1>6, <1>7, <2>1 DEF CustodyInv, StoredHaveTokens, OneConnectionPerBot
<1>10. QuotaHolds' /\ \A a : OwnedBy(a)' = OwnedBy(a)
  BY <1>7 DEF CustodyInv, QuotaHolds, OwnedBy
<1>11. IntentsMatchStage'
  BY <1>1, <1>3, <1>4, <1>7, IntentsStay DEF CustodyInv
<1>12. ASSUME NEW d \in CredentialCalls \ {c}
       PROVE  LookIsValid(d)'
  <2>1. credential'[d] = credential[d] /\ LookIsValid(d) /\ LocksMatchStage(d)
        /\ credential[d].held \subseteq locks
    BY <1>4, CustodyRows
  <2>2. credential'[d].at = "write" => Conflicts(d)' = {}
    <3>1. Stored \subseteq Storing
      BY DEF Stored
    <3> QED
      BY <1>6, <1>7, <2>1, <3>1 DEF LookIsValid, Conflicts
  <2>3. d \in Storing /\ OwnerKey(d) \in credential[d].held => ~Full(OwnerOf[d])'
    BY <1>10, <2>1 DEF LookIsValid, Full
  <2>4. d \in Posts /\ CredentialAt(d, "posting")' => IsUsable(d)'
    <3> SUFFICES ASSUME d \in Posts, credential[d].at = "posting" PROVE IsUsable(d)'
      BY <2>1 DEF CredentialAt
    <3>1. UseLock(d) \in locks /\ IsUsable(d) /\ TargetOf[d] \in Storing
      BY <2>1, Kinds, ChannelCredentialsAssumption DEF LocksMatchStage, LookIsValid, CredentialAt
    <3>2. TargetOf[d] # x
      BY <1>1, <3>1 DEF UseLock
    <3> QED
      BY <1>6, <3>1, <3>2 DEF IsUsable
  <2> QED
    BY <2>1, <2>2, <2>3, <2>4 DEF LookIsValid, OwnerKey
<1>13. StageOfKind(c)'
  BY <1>3, <1>4 DEF StageOfKind
<1>14. custody'[x].state # "none"
  BY <1>6
<1> HIDE DEF x
<1> QED
  BY <1>1, <1>2, <1>3, <1>5, <1>6, <1>8, <1>9, <1>10, <1>11, <1>12, <1>13, <1>14, WriteStep

\* An intent moves on, and no call does.
LEMMA IntentStep ==
  ASSUME CustodyInv, UNCHANGED <<custody, locks, credential>>,
         DOMAIN intents' = DOMAIN intents,
         intents' \in [DOMAIN intents ->
           [state : IntentState, granter : SUBSET Granters, exchange : SUBSET Exchanges]],
         \A j \in DOMAIN intents :
           /\ intents'[j].exchange = intents[j].exchange
           /\ \/ intents'[j].state = intents[j].state
              \/ /\ "stored" \notin {intents[j].state, intents'[j].state}
                 /\ intents'[j].state \in Early => intents[j].state \in Early
  PROVE  CustodyInv'
<1>1. Stored' = Stored /\ (\A a : OwnedBy(a)' = OwnedBy(a) /\ (Full(a)' <=> Full(a)))
  BY Unwritten
<1>2. IntentsMatchStage'
  BY <1>1, IntentsMove DEF CustodyInv
<1>3. CustodyTypeOK' /\ LocksAreExclusive'
  BY DEF CustodyInv, CustodyTypeOK, LocksAreExclusive
<1>4. OneConnectionPerBot' /\ QuotaHolds' /\ IsFiniteSet(Stored)' /\ StoredHaveTokens'
  BY <1>1 DEF CustodyInv, OneConnectionPerBot, QuotaHolds, StoredHaveTokens
<1>5. ASSUME NEW c \in CredentialCalls
      PROVE  StageOfKind(c)' /\ LocksMatchStage(c)' /\ LookIsValid(c)' /\ RowsMatchStage(c)'
  <2>1. StageOfKind(c)' /\ RowsMatchStage(c)'
    BY <1>1, CustodyRows DEF StageOfKind, RowsMatchStage
  <2>2. LocksMatchStage(c)'
    BY CustodyRows DEF LocksMatchStage, AllLocked, TokenLeft, BotLeft, NothingLocked,
                FirstLock, BotLock, TokenKey, BotKey, LeaseKey, OwnerKey, UseLock
  <2>3. LookIsValid(c)'
    BY <1>1, CustodyRows DEF LookIsValid, Conflicts, IsUsable, CredentialAt, OwnerKey
  <2> QED
    BY <2>1, <2>2, <2>3
<1> QED
  BY <1>2, <1>3, <1>4, <1>5 DEF CustodyInv

LEMMA IntentSteps ==
  ASSUME CustodyInv, NEW i \in DOMAIN intents,
         \/ startOnboarding(i) \/ cancel(i) \/ readLate(i) \/ IntentExpires(i)
         \/ \E g \in Granters : bindOwner(i, g)
  PROVE  CustodyInv'
<1>1. UNCHANGED <<custody, locks, credential>>
  <2>1. CASE startOnboarding(i)
    BY <2>1, Zenon DEF startOnboarding, KeepCalls
  <2>2. CASE cancel(i) \/ readLate(i)
    BY <2>2, Zenon DEF cancel, readLate, KeepCalls
  <2>3. CASE IntentExpires(i)
    BY <2>3, Zenon DEF IntentExpires
  <2>4. ASSUME NEW g \in Granters, bindOwner(i, g)
        PROVE  UNCHANGED <<custody, locks, credential>>
    BY <2>4, Zenon DEF bindOwner, KeepCalls
  <2> QED
    BY <2>1, <2>2, <2>3, <2>4
<1>2. intents \in [DOMAIN intents ->
        [state : IntentState, granter : SUBSET Granters, exchange : SUBSET Exchanges]]
  BY CustodyRows
<1>3. CASE startOnboarding(i)
  <2> DEFINE mine == {j \in DOMAIN intents : OnboarderOf[j] = OnboarderOf[i]}
             expired == {j \in mine \cap lateIntents : intents[j].state \in ActiveIntent}
  <2>1. /\ intents[i].state = "none"
        /\ intents' = [j \in DOMAIN intents |->
                         IF j = i THEN [intents[i] EXCEPT !.state = "pending_owner"]
                         ELSE IF j \in expired THEN [intents[j] EXCEPT !.state = "expired"]
                         ELSE intents[j]]
    BY <1>3 DEF startOnboarding
  <2>2. \A j \in expired : intents[j].state \in ActiveIntent
    OBVIOUS
  <2> HIDE DEF expired
  <2>3. /\ DOMAIN intents' = DOMAIN intents
        /\ intents' \in [DOMAIN intents ->
             [state : IntentState, granter : SUBSET Granters, exchange : SUBSET Exchanges]]
    BY <1>2, <2>1 DEF IntentState
  <2>4. ASSUME NEW j \in DOMAIN intents
        PROVE  /\ intents'[j].exchange = intents[j].exchange
               /\ \/ intents'[j].state = intents[j].state
                  \/ /\ "stored" \notin {intents[j].state, intents'[j].state}
                     /\ intents'[j].state \in Early => intents[j].state \in Early
    BY <1>2, <2>1, <2>2 DEF Early, ActiveIntent
  <2> QED
    BY <1>1, <2>3, <2>4, IntentStep
<1>4. ASSUME NEW state \in {"failed", "expired"}, Intent(i, state), intents[i].state \in ActiveIntent
      PROVE  CustodyInv'
  <2>1. /\ DOMAIN intents' = DOMAIN intents
        /\ intents' \in [DOMAIN intents ->
             [state : IntentState, granter : SUBSET Granters, exchange : SUBSET Exchanges]]
    BY <1>2, <1>4 DEF IntentState, Intent
  <2>2. ASSUME NEW j \in DOMAIN intents
        PROVE  /\ intents'[j].exchange = intents[j].exchange
               /\ \/ intents'[j].state = intents[j].state
                  \/ /\ "stored" \notin {intents[j].state, intents'[j].state}
                     /\ intents'[j].state \in Early => intents[j].state \in Early
    BY <1>2, <1>4 DEF Early, ActiveIntent, Intent
  <2> QED
    BY <1>1, <2>1, <2>2, IntentStep
<1>5. CASE cancel(i) \/ readLate(i)
  BY <1>4, <1>5 DEF cancel, readLate
<1>6. CASE IntentExpires(i)
  BY <1>1, <1>2, <1>6, IntentStep DEF IntentExpires
<1>7. ASSUME NEW g \in Granters, bindOwner(i, g)
      PROVE  CustodyInv'
  <2>1. /\ intents[i].state = "pending_owner"
        /\ intents' = [intents EXCEPT ![i].state = "awaiting_bot", ![i].granter = {g}]
    BY <1>7, Zenon DEF bindOwner
  <2>2. /\ DOMAIN intents' = DOMAIN intents
        /\ intents' \in [DOMAIN intents ->
             [state : IntentState, granter : SUBSET Granters, exchange : SUBSET Exchanges]]
    BY <1>2, <2>1 DEF IntentState
  <2>3. ASSUME NEW j \in DOMAIN intents
        PROVE  /\ intents'[j].exchange = intents[j].exchange
               /\ \/ intents'[j].state = intents[j].state
                  \/ /\ "stored" \notin {intents[j].state, intents'[j].state}
                     /\ intents'[j].state \in Early => intents[j].state \in Early
    BY <1>2, <2>1 DEF Early
  <2> QED
    BY <1>1, <2>2, <2>3, IntentStep
<1> QED
  BY <1>3, <1>5, <1>6, <1>7

\* An update takes up an intent that no other one has taken up.
LEMMA managedBotStep ==
  ASSUME CustodyInv, NEW c \in CredentialCalls, managedBot(c)
  PROVE  CustodyInv'
<1> DEFINE r == [credential[c] EXCEPT !.at = "exchanging"]
<1>1. PICK i \in DOMAIN intents :
        /\ intents[i].state = "awaiting_bot"
        /\ intents' = [intents EXCEPT ![i].state = "exchanging", ![i].exchange = {c}]
  <2>1. \A i \in WithGranter(GranterOf[c]) \ lateIntents : i \in DOMAIN intents
    BY DEF WithGranter
  <2> QED
    BY <2>1, Zenon DEF managedBot
<1>2. /\ c \in Exchanges /\ credential[c].at = "idle" /\ UNCHANGED <<custody, locks>>
      /\ credential' = [credential EXCEPT ![c] = r]
  BY DEF managedBot, CredentialAt, Move
<1>3. /\ credential \in [CredentialCalls -> CallRow] /\ credential[c].held = {}
      /\ c \notin Stored /\ Stored' = Stored
      /\ c \notin Creates \cup Seals \cup Rotations \cup Posts \cup Revocations
  BY <1>2, CustodyRows, Unwritten, Kinds, ChannelCredentialsAssumption
     DEF LocksMatchStage, RowsMatchStage
<1>4. r \in CallRow /\ r.at = "exchanging" /\ r.held = {}
  BY <1>3 DEF CallRow, CredentialStage
<1>5. credential'[c] = r /\ \A d \in CredentialCalls \ {c} : credential'[d] = credential[d]
  BY <1>2, <1>3
<1>6. StageOfKind(c)' /\ LocksMatchStage(c)' /\ LookIsValid(c)' /\ RowsMatchStage(c)'
  BY <1>3, <1>4, <1>5
     DEF StageOfKind, LocksMatchStage, LookIsValid, RowsMatchStage, CredentialAt
<1>7. /\ DOMAIN intents' = DOMAIN intents
      /\ intents' \in [DOMAIN intents ->
           [state : IntentState, granter : SUBSET Granters, exchange : SUBSET Exchanges]]
      /\ intents'[i].state = "exchanging" /\ intents'[i].exchange = {c}
      /\ \A j \in DOMAIN intents \ {i} : intents'[j] = intents[j]
  BY <1>1, <1>2, CustodyRows DEF IntentState
<1>8. intents[i].exchange = {} /\ \A j \in DOMAIN intents : c \notin intents[j].exchange
  BY <1>1, <1>2 DEF CustodyInv, IntentsMatchStage
<1>9. IntentsMatchStage'
  <2>1. ASSUME NEW j \in DOMAIN intents
        PROVE  /\ intents'[j].state \in {"none", "pending_owner", "awaiting_bot"} =>
                    intents'[j].exchange = {}
               /\ \A d \in Exchanges : d \in intents'[j].exchange =>
                    /\ intents'[j].exchange = {d}
                    /\ credential'[d].at # "idle"
                    /\ \A k \in DOMAIN intents : d \in intents'[k].exchange => j = k
               /\ intents'[j].state = "stored" => intents'[j].exchange \subseteq Stored'
    <3>1. CASE j = i
      BY <1>4, <1>5, <1>7, <1>8, <3>1
    <3>2. CASE j # i
      <4>1. \A d \in Exchanges : d \in intents[j].exchange => d # c /\ credential'[d].at # "idle"
        BY <1>5, <1>8, Kinds DEF CustodyInv, IntentsMatchStage
      <4> QED
        BY <1>3, <1>7, <3>2, <4>1 DEF CustodyInv, IntentsMatchStage
    <3> QED
      BY <3>1, <3>2
  <2>2. ASSUME NEW d \in Exchanges
        PROVE  /\ credential'[d].at \in {"exchanging", "locking", "write"} =>
                    \E j \in DOMAIN intents : intents'[j].exchange = {d}
               /\ d \in Stored' =>
                    \E j \in DOMAIN intents : intents'[j].state = "stored" /\ intents'[j].exchange = {d}
    <3>1. CASE d = c
      BY <1>3, <1>7, <3>1
    <3>2. CASE d # c
      <4>1. credential'[d] = credential[d]
        BY <1>5, <3>2, Kinds
      <4>2. \A j \in DOMAIN intents : intents[j].exchange = {d} => intents'[j] = intents[j]
        BY <1>7, <1>8
      <4>3. /\ credential[d].at \in {"exchanging", "locking", "write"} =>
                 \E j \in DOMAIN intents : intents[j].exchange = {d}
            /\ d \in Stored =>
                 \E j \in DOMAIN intents : intents[j].state = "stored" /\ intents[j].exchange = {d}
        BY DEF CustodyInv, IntentsMatchStage
      <4> QED
        BY <1>3, <4>1, <4>2, <4>3
    <3> QED
      BY <3>1, <3>2
  <2> QED
    BY <1>7, <2>1, <2>2 DEF IntentsMatchStage
<1> QED
  BY <1>2, <1>3, <1>4, <1>6, <1>7, <1>9, CallStep

LEMMA NextCustodyInv ==
  CustodyInv /\ [CredentialsNext]_credentialVars => CustodyInv'
<1> SUFFICES ASSUME CustodyInv, [CredentialsNext]_credentialVars
             PROVE  CustodyInv'
  OBVIOUS
<1>1. CASE \E i \in DOMAIN intents :
             startOnboarding(i) \/ cancel(i) \/ readLate(i) \/ IntentExpires(i)
               \/ \E g \in Granters : bindOwner(i, g)
  BY <1>1, IntentSteps
<1>2. ASSUME NEW c \in CredentialCalls,
             \/ managedBot(c) \/ refuseExchange(c) \/ validate(c) \/ revalidate(c)
             \/ lock(c) \/ look(c) \/ rollBack(c) \/ storeCredential(c) \/ rotate(c)
             \/ connected(c) \/ revokeCredential(c)
      PROVE  CustodyInv'
  BY <1>2, managedBotStep, rollBackStep, validateStep, revalidateStep, lockStep, lookStep,
     storeCredentialStep, rotateStep, connectedStep, revokeCredentialStep
<1>3. ASSUME NEW p \in Posts,
             admitPost(p) \/ startPost(p) \/ withPlaintext(p) \/ posted(p)
      PROVE  CustodyInv'
  BY <1>3, PostSteps
<1>4. CASE UNCHANGED credentialVars
  BY <1>4, CustodyRows, IntentStep DEF credentialVars
<1> QED
  BY <1>1, <1>2, <1>3, <1>4 DEF CredentialsNext

\* Of calls that wait, the one with the last kind of lock ahead waits for none
\* of the others: leases come before accounts, accounts before bots, and bots
\* before tokens.
LEMMA WaitingIsOrdered ==
  ASSUME CustodyInv
  PROVE  LocksAreOrdered
<1> SUFFICES ASSUME NEW circle \in SUBSET Blocked, circle # {}
             PROVE  \E c \in circle : \A d \in circle :
                      Head(credential[c].todo) \notin credential[d].held
  BY DEF LocksAreOrdered
<1>1. \A c \in circle : c \in CredentialCalls /\ (TokenLeft(c) \/ BotLeft(c) \/ NothingLocked(c))
  BY CustodyRows DEF Blocked, CredentialAt, LocksMatchStage, AllLocked
<1>2. \A c \in circle : /\ TokenLeft(c) => Head(credential[c].todo) = TokenKey(c)
                        /\ BotLeft(c) => Head(credential[c].todo) = BotKey(c)
                        /\ NothingLocked(c) => Head(credential[c].todo) = OwnerKey(c)
  BY DEF TokenLeft, BotLeft, NothingLocked
<1>3. \A d \in circle : \A key \in credential[d].held :
        /\ key[1] \in {"lease", "account", "bot"}
        /\ BotLeft(d) => key[1] # "bot"
  <2> SUFFICES ASSUME NEW d \in circle, NEW key \in credential[d].held
               PROVE  /\ key[1] \in {"lease", "account", "bot"}
                      /\ BotLeft(d) => key[1] # "bot"
    OBVIOUS
  <2>1. \A k \in FirstLock(d) : k[1] \in {"lease", "account"}
    BY DEF FirstLock, OwnerKey, LeaseKey
  <2>2. \A k \in BotLock(d) : k[1] = "bot"
    BY DEF BotLock, BotKey
  <2>3. key \in FirstLock(d) \cup BotLock(d) /\ (BotLeft(d) => key \in FirstLock(d))
    BY <1>1 DEF TokenLeft, BotLeft, NothingLocked
  <2> QED
    BY <2>1, <2>2, <2>3
<1>4. CASE \E c \in circle : TokenLeft(c)
  BY <1>2, <1>3, <1>4 DEF TokenKey
<1>5. CASE (\A c \in circle : ~TokenLeft(c)) /\ \E c \in circle : BotLeft(c)
  <2>1. \A d \in circle : \A key \in credential[d].held : key[1] # "bot"
    BY <1>1, <1>3, <1>5 DEF NothingLocked
  <2> QED
    BY <1>2, <1>5, <2>1 DEF BotKey
<1>6. CASE \A c \in circle : ~TokenLeft(c) /\ ~BotLeft(c)
  <2>1. \A d \in circle : credential[d].held = {}
    BY <1>1, <1>6 DEF NothingLocked
  <2> QED
    BY <2>1
<1> QED
  BY <1>4, <1>5, <1>6

\* However many owners connect, rotate and revoke whichever bots at once: a
\* token and a bot are one connection's, quotas hold, a managed bot is stored
\* exactly with its intent, no post uses a revoked credential, and the calls
\* never wait for each other's locks.
THEOREM CustodyIsExclusiveThm ==
  CredentialsSpec => []CustodyIsExclusive
<1>1. CredentialsInit => CustodyInv
  BY InitCustodyInv, ChannelCredentialsAssumption DEF CredentialsInit
<1>2. CustodyInv => CustodyIsExclusive
  <2> SUFFICES ASSUME CustodyInv PROVE CustodyIsExclusive
    OBVIOUS
  <2>1. BoundToIntent
    BY Kinds DEF CustodyInv, IntentsMatchStage, BoundToIntent
  <2>2. \A p \in Posts : CredentialAt(p, "posting") => IsUsable(p)
    BY CustodyRows, Kinds DEF LookIsValid
  <2> QED
    BY <2>1, <2>2, WaitingIsOrdered DEF CustodyIsExclusive, CustodyInv
<1> QED
  BY <1>1, <1>2, NextCustodyInv, PTL DEF CredentialsSpec

-----------------------------------------------------------------------------
(* One connection: the parts of the invariant.                             *)

Peers == Listed \cup {PeerOf[q] : q \in Pairings}
Generation == LifecycleCalls \cup {NoCall}

LinkRow ==
  [state : {"inactive", "active", "deleted"}, agent : Agents \cup {NoCall},
   binding : Generation, allow : SUBSET Peers, epoch : Generation,
   operation : Generation, decision : Generation]

Mapping ==
  [binding : Generation, allow : SUBSET Peers, epoch : Generation, agent : Agents \cup {NoCall}]

Untouched == {"idle", "queued", "read"}   \* a call that has written nothing
Compensating == {"restore", "abandon", "compensate", "compensateStopped"}
Claiming == {"publish", "finish"} \cup Compensating

HandlerStage ==
  Untouched \cup Claiming \cup
  {"done", "detach", "backout", "undo", "revoke", "expel", "reject", "withdraw", "failing",
   "stopped", "cutoff", "shut", "resume", "confirm"}

HandlerRow ==
  [op : Operations \cup {"none", "status"}, at : HandlerStage, row : LinkRow,
   request : Pairings \cup {NoCall}]

LinkTypeOK ==
  /\ link \in LinkRow /\ gateway \in Mapping
  /\ pairing \in [Pairings ->
       [status : {"none", "pending", "approved", "denied", "expired", "gone"}, nonce : Generation]]
  /\ handler \in [LifecycleCalls -> HandlerRow]
  /\ lifecycle \in Generation
  /\ \A c \in LifecycleCalls :
       /\ handler[c].op = "approve" => handler[c].request \in Pairings
       /\ handler[c].op = "status" => handler[c].at \in {"queued", "backout"}
       /\ handler[c].at \in Compensating => handler[c].op = "approve"

\* The lists that are somewhere, with their generations: in the row, in the
\* gateway, in what a call has read, and in what an approval is to publish.
IsKnown(b, allow) ==
  \/ b = NoCall /\ allow = {}
  \/ b = link.binding /\ allow = link.allow
  \/ b = gateway.binding /\ allow = gateway.allow
  \/ \E c \in LifecycleCalls :
       handler[c].op # "status" /\ b = ReadRow(c).binding /\ allow = ReadRow(c).allow
  \/ \E c \in LifecycleCalls :
       HandlerAt(c, "approve", "publish") /\ b = c /\ allow = ReadRow(c).allow \cup {Peer(c)}

OneListPerGeneration ==
  \A b \in Generation, S, T \in SUBSET Peers : IsKnown(b, S) /\ IsKnown(b, T) => S = T

GenerationsAreFresh ==
  \A c \in LifecycleCalls, S \in SUBSET Peers :
    handler[c].at \in Untouched => ~IsKnown(c, S)

\* Who is on the list was listed, or one of these requests of his is approved.
Supported(allow, requests) ==
  \A p \in allow :
    p \in Listed \/ \E r \in requests : PeerOf[r] = p /\ pairing[r].status = "approved"

\* What an approval has read it may restore, as long as its marker is there.
ClaimIsSound(c) ==
  handler[c].op = "approve" /\ handler[c].at \in Claiming =>
    /\ ReadRow(c).decision = NoCall
    /\ Exists /\ link.decision = c => Supported(ReadRow(c).allow, Pairings \ {handler[c].request})

LinkInv ==
  /\ LinkTypeOK
  /\ OneListPerGeneration
  /\ GenerationsAreFresh
  /\ Exists => Supported(link.allow, Pairings)
  /\ \A c \in LifecycleCalls : ClaimIsSound(c)

-----------------------------------------------------------------------------
(* The lists of the senders: what a step must do to keep the invariant.    *)

PairingRow ==
  [status : {"none", "pending", "approved", "denied", "expired", "gone"}, nonce : Generation]

\* No list is anywhere that was not known before.
LEMMA NoNewLists ==
  ASSUME OneListPerGeneration, GenerationsAreFresh,
         \A d \in LifecycleCalls : handler'[d].at \in Untouched => handler[d].at \in Untouched,
         \A b \in Generation, S \in SUBSET Peers : IsKnown(b, S)' => IsKnown(b, S)
  PROVE  OneListPerGeneration' /\ GenerationsAreFresh'
<1>1. OneListPerGeneration'
  BY DEF OneListPerGeneration
<1>2. GenerationsAreFresh'
  <2> SUFFICES ASSUME NEW d \in LifecycleCalls, NEW S \in SUBSET Peers,
                      handler'[d].at \in Untouched
               PROVE  ~IsKnown(d, S)'
    BY DEF GenerationsAreFresh
  <2> QED
    BY DEF GenerationsAreFresh, Generation
<1> QED
  BY <1>1, <1>2

\* A call puts one new list under its own identity.
LEMMA OneNewList ==
  ASSUME OneListPerGeneration, GenerationsAreFresh,
         NEW c \in LifecycleCalls, NEW A \in SUBSET Peers,
         handler[c].at \in Untouched, handler'[c].at \notin Untouched,
         \A d \in LifecycleCalls : handler'[d].at \in Untouched => handler[d].at \in Untouched,
         \A b \in Generation, S \in SUBSET Peers :
           IsKnown(b, S)' => IsKnown(b, S) \/ (b = c /\ S = A)
  PROVE  OneListPerGeneration' /\ GenerationsAreFresh'
<1>1. ASSUME NEW S \in SUBSET Peers PROVE ~IsKnown(c, S)
  BY DEF GenerationsAreFresh
<1>2. OneListPerGeneration'
  <2> SUFFICES ASSUME NEW b \in Generation, NEW S \in SUBSET Peers, NEW T \in SUBSET Peers,
                      IsKnown(b, S)', IsKnown(b, T)'
               PROVE  S = T
    BY DEF OneListPerGeneration
  <2> QED
    BY <1>1 DEF OneListPerGeneration
<1>3. GenerationsAreFresh'
  <2> SUFFICES ASSUME NEW d \in LifecycleCalls, NEW S \in SUBSET Peers,
                      handler'[d].at \in Untouched
               PROVE  ~IsKnown(d, S)'
    BY DEF GenerationsAreFresh
  <2> QED
    BY DEF GenerationsAreFresh, Generation
<1> QED
  BY <1>2, <1>3

\* What a call is after it moved on, returned or was left alone.
MovesOn(c) ==
  \/ handler' = handler
  \/ handler' = [handler EXCEPT ![c] = [Idle EXCEPT !.at = "done"]]
  \/ \E at \in HandlerStage \ Untouched :
       /\ handler' = [handler EXCEPT ![c].at = at]
       /\ handler[c].op = "status" => at = "backout"
       /\ at \in Compensating => handler[c].op = "approve"
       /\ handler[c].op = "approve" /\ at \in Claiming =>
            handler[c].at \in Claiming /\ at # "publish"

\* A step that changes no list: the row keeps its list and its generation, the
\* gateway gets a mapping that is known, and nobody's approval is taken back.
KeepsLists(c) ==
  /\ link' \in LinkRow /\ link'.allow = link.allow /\ link'.binding = link.binding
  /\ link'.decision \in {link.decision, NoCall}
  /\ link'.state # "deleted" => Exists
  /\ gateway' \in Mapping /\ IsKnown(gateway'.binding, gateway'.allow)
  /\ pairing' \in [Pairings -> PairingRow]
  /\ link'.state # "deleted" =>
       \A q \in Pairings : pairing[q].status = "approved" => pairing'[q].status = "approved"
  /\ lifecycle' \in Generation
  /\ MovesOn(c)

LEMMA HandlerRows ==
  ASSUME LinkTypeOK, NEW c \in LifecycleCalls
  PROVE  /\ handler[c] \in HandlerRow /\ ReadRow(c) \in LinkRow
         /\ handler[c].at \in HandlerStage
         /\ ReadRow(c).binding \in Generation /\ ReadRow(c).allow \in SUBSET Peers
BY DEF LinkTypeOK, HandlerRow, ReadRow, LinkRow

LEMMA IdleRow ==
  /\ NoLink \in LinkRow /\ [Idle EXCEPT !.at = "done"] \in HandlerRow
  /\ NoLink.binding = NoCall /\ NoLink.allow = {}
  /\ [Idle EXCEPT !.at = "done"].at = "done" /\ [Idle EXCEPT !.at = "done"].op = "none"
  /\ [Idle EXCEPT !.at = "done"].row = NoLink
BY DEF NoLink, Idle, LinkRow, HandlerRow, HandlerStage, Generation, Operations

\* The rows of the calls after such a step.
LEMMA MovedRows ==
  ASSUME LinkTypeOK, NEW c, MovesOn(c)
  PROVE  /\ handler' \in [LifecycleCalls -> HandlerRow]
         /\ \A d \in LifecycleCalls :
              /\ handler'[d].op = "approve" => handler'[d].request \in Pairings
              /\ handler'[d].op = "status" => handler'[d].at \in {"queued", "backout"}
              /\ handler'[d].at \in Compensating => handler'[d].op = "approve"
         /\ \A d \in LifecycleCalls :
              \/ handler'[d].op = "none" /\ handler'[d].row = NoLink /\ handler'[d].at = "done"
              \/ /\ handler'[d].op = handler[d].op /\ handler'[d].row = handler[d].row
                 /\ handler'[d].request = handler[d].request
                 /\ \/ handler'[d].at = handler[d].at
                    \/ /\ handler'[d].at \notin Untouched
                       /\ handler[d].op = "approve" /\ handler'[d].at \in Claiming =>
                            handler[d].at \in Claiming /\ handler'[d].at # "publish"
<1> USE DEF LinkTypeOK
<1>1. CASE handler' = handler
  BY <1>1
<1>2. CASE handler' = [handler EXCEPT ![c] = [Idle EXCEPT !.at = "done"]]
  <2> DEFINE end == [Idle EXCEPT !.at = "done"]
  <2>1. end \in HandlerRow /\ end.at = "done" /\ end.op = "none" /\ end.row = NoLink
    BY IdleRow
  <2> HIDE DEF end
  <2>2. handler' = [handler EXCEPT ![c] = end]
    BY <1>2 DEF end
  <2> QED
    BY <2>1, <2>2 DEF Compensating
<1>3. ASSUME NEW at \in HandlerStage \ Untouched, handler' = [handler EXCEPT ![c].at = at],
             handler[c].op = "status" => at = "backout",
             at \in Compensating => handler[c].op = "approve",
             handler[c].op = "approve" /\ at \in Claiming =>
               handler[c].at \in Claiming /\ at # "publish"
      PROVE  /\ handler' \in [LifecycleCalls -> HandlerRow]
             /\ \A d \in LifecycleCalls :
                  /\ handler'[d].op = handler[d].op /\ handler'[d].row = handler[d].row
                  /\ handler'[d].request = handler[d].request
                  /\ handler'[d].at = IF d = c THEN at ELSE handler[d].at
  <2>1. CASE c \in LifecycleCalls
    BY <1>3, <2>1 DEF HandlerRow
  <2>2. CASE c \notin LifecycleCalls
    <3>1. handler' = handler
      BY <1>3, <2>2
    <3> QED
      BY <2>2, <3>1
  <2> QED
    BY <2>1, <2>2
<1> QED
  BY <1>1, <1>2, <1>3 DEF MovesOn

LEMMA KeepsListsStep ==
  ASSUME LinkInv, NEW c, KeepsLists(c)
  PROVE  LinkInv'
<1> USE DEF LinkInv
<1>1. /\ handler' \in [LifecycleCalls -> HandlerRow]
      /\ \A d \in LifecycleCalls :
           /\ handler'[d].op = "approve" => handler'[d].request \in Pairings
           /\ handler'[d].op = "status" => handler'[d].at \in {"queued", "backout"}
           /\ handler'[d].at \in Compensating => handler'[d].op = "approve"
  BY MovedRows DEF KeepsLists
<1>2. LinkTypeOK'
  BY <1>1 DEF LinkTypeOK, KeepsLists, PairingRow
<1>3. ASSUME NEW d \in LifecycleCalls
      PROVE  \/ handler'[d].op = "none" /\ handler'[d].row = NoLink /\ handler'[d].at = "done"
             \/ /\ handler'[d].op = handler[d].op /\ handler'[d].row = handler[d].row
                /\ handler'[d].request = handler[d].request
                /\ \/ handler'[d].at = handler[d].at
                   \/ /\ handler'[d].at \notin Untouched
                      /\ handler[d].op = "approve" /\ handler'[d].at \in Claiming =>
                           handler[d].at \in Claiming /\ handler'[d].at # "publish"
  BY MovedRows DEF KeepsLists
<1>4. ASSUME NEW b \in Generation, NEW S \in SUBSET Peers, IsKnown(b, S)'
      PROVE  IsKnown(b, S)
  <2>1. CASE b = NoCall /\ S = {}
    BY <2>1 DEF IsKnown
  <2>2. CASE b = link'.binding /\ S = link'.allow
    BY <2>2 DEF IsKnown, KeepsLists
  <2>3. CASE b = gateway'.binding /\ S = gateway'.allow
    BY <2>3 DEF KeepsLists
  <2>4. CASE \E d \in LifecycleCalls :
               handler'[d].op # "status" /\ b = handler'[d].row.binding /\ S = handler'[d].row.allow
    <3> PICK d \in LifecycleCalls :
               handler'[d].op # "status" /\ b = handler'[d].row.binding /\ S = handler'[d].row.allow
      BY <2>4
    <3> QED
      BY <1>3, IdleRow DEF IsKnown, ReadRow
  <2>5. CASE \E d \in LifecycleCalls :
               /\ handler'[d].op = "approve" /\ handler'[d].at = "publish"
               /\ b = d /\ S = handler'[d].row.allow \cup {PeerOf[handler'[d].request]}
    <3> PICK d \in LifecycleCalls :
               /\ handler'[d].op = "approve" /\ handler'[d].at = "publish"
               /\ b = d /\ S = handler'[d].row.allow \cup {PeerOf[handler'[d].request]}
      BY <2>5
    <3> QED
      BY <1>3 DEF IsKnown, ReadRow, HandlerAt, Peer, Claiming, Compensating
  <2> QED
    BY <1>4, <2>1, <2>2, <2>3, <2>4, <2>5 DEF IsKnown, ReadRow, HandlerAt, Peer
<1>5. \A d \in LifecycleCalls : handler'[d].at \in Untouched => handler[d].at \in Untouched
  BY <1>3 DEF Untouched
<1>6. OneListPerGeneration' /\ GenerationsAreFresh'
  BY <1>4, <1>5, NoNewLists
<1>7. Exists' => Supported(link.allow, Pairings)'
  BY DEF KeepsLists, Exists, Supported
<1>8. ASSUME NEW d \in LifecycleCalls PROVE ClaimIsSound(d)'
  <2> SUFFICES ASSUME handler'[d].op = "approve", handler'[d].at \in Claiming
               PROVE  /\ handler'[d].row.decision = NoCall
                      /\ link'.state # "deleted" /\ link'.decision = d =>
                           Supported(ReadRow(d).allow, Pairings \ {handler[d].request})'
    BY DEF ClaimIsSound, ReadRow, Exists
  <2>1. /\ handler[d].op = "approve" /\ handler[d].at \in Claiming
        /\ handler'[d].row = handler[d].row /\ handler'[d].request = handler[d].request
    BY <1>3
  <2>2. d # NoCall
    BY ChannelConnectionsAssumption
  <2>3. ReadRow(d).decision = NoCall
    BY <2>1 DEF ClaimIsSound
  <2>4. ASSUME link'.state # "deleted", link'.decision = d
        PROVE  Supported(ReadRow(d).allow, Pairings \ {handler[d].request})'
    <3>1. Exists /\ link.decision = d
      BY <2>2, <2>4 DEF KeepsLists
    <3>2. Supported(ReadRow(d).allow, Pairings \ {handler[d].request})
      BY <3>1, <2>1 DEF ClaimIsSound
    <3>3. \A q \in Pairings : pairing[q].status = "approved" => pairing'[q].status = "approved"
      BY <2>4 DEF KeepsLists
    <3> QED
      BY <2>1, <3>2, <3>3 DEF Supported, ReadRow
  <2> QED
    BY <2>1, <2>3, <2>4 DEF ReadRow
<1> QED
  BY <1>2, <1>6, <1>7, <1>8

LEMMA Endings ==
  ASSUME NEW c \in LifecycleCalls, LinkTypeOK, EndHandler(c)
  PROVE  MovesOn(c) /\ lifecycle' \in Generation
BY DEF EndHandler, MovesOn, LinkTypeOK, Generation

LEMMA Moves ==
  ASSUME NEW c \in LifecycleCalls, LinkTypeOK, NEW at \in HandlerStage \ Untouched,
         handler[c].op = "approve" /\ at \in Claiming =>
           handler[c].at \in Claiming /\ at # "publish",
         handler[c].op = "status" => at = "backout",
         at \in Compensating => handler[c].op = "approve",
         ThenAt(c, at)
  PROVE  MovesOn(c) /\ lifecycle' \in Generation
BY DEF ThenAt, MovesOn, LinkTypeOK

LEMMA Mappings ==
  ASSUME LinkTypeOK
  PROVE  /\ NoMapping \in Mapping /\ IsKnown(NoMapping.binding, NoMapping.allow)
         /\ gateway \in Mapping /\ IsKnown(gateway.binding, gateway.allow)
         /\ \A c \in LifecycleCalls :
              /\ MappingOf(ReadRow(c)) \in Mapping
              /\ handler[c].op # "status" =>
                   IsKnown(MappingOf(ReadRow(c)).binding, MappingOf(ReadRow(c)).allow)
<1>1. NoMapping \in Mapping /\ IsKnown(NoMapping.binding, NoMapping.allow)
  BY DEF NoMapping, Mapping, Generation, IsKnown
<1>2. gateway \in Mapping /\ IsKnown(gateway.binding, gateway.allow)
  BY DEF LinkTypeOK, IsKnown
<1>3. ASSUME NEW c \in LifecycleCalls
      PROVE  /\ MappingOf(ReadRow(c)) \in Mapping
             /\ handler[c].op # "status" =>
                  IsKnown(MappingOf(ReadRow(c)).binding, MappingOf(ReadRow(c)).allow)
  BY HandlerRows DEF MappingOf, Mapping, LinkRow, IsKnown
<1> QED
  BY <1>1, <1>2, <1>3

\* A row that only changes its state, its agent, its credential or a marker.
LEMMA RowUpdates ==
  ASSUME LinkTypeOK
  PROVE  /\ link \in LinkRow
         /\ \A state \in {"inactive", "active", "deleted"} :
              [link EXCEPT !.state = state] \in LinkRow
         /\ [link EXCEPT !.operation = NoCall] \in LinkRow
         /\ [link EXCEPT !.decision = NoCall] \in LinkRow
         /\ \A agent \in Agents : [link EXCEPT !.agent = agent] \in LinkRow
BY DEF LinkTypeOK, LinkRow, Generation

\* The gateway gets a mapping that is known, or keeps its own.
LEMMA SyncStep ==
  ASSUME LinkInv, NEW c \in LifecycleCalls, NEW mapping \in Mapping,
         IsKnown(mapping.binding, mapping.allow),
         NEW next \in HandlerStage \ Untouched, NEW failed \in HandlerStage \ Untouched,
         handler[c].op = "approve" /\ handler[c].at \notin Claiming =>
           next \notin Claiming /\ failed \notin Claiming,
         handler[c].op = "approve" => next # "publish" /\ failed # "publish",
         handler[c].op = "status" => next = "done" /\ failed = "done",
         next \in Compensating \/ failed \in Compensating => handler[c].op = "approve",
         sync(c, mapping, next, failed)
  PROVE  LinkInv'
<1>1. LinkTypeOK
  BY DEF LinkInv
<1>2. MovesOn(c) /\ lifecycle' \in Generation
  BY <1>1, Moves, Endings DEF sync, ThenAtOrEnd
<1>3. gateway' \in Mapping /\ IsKnown(gateway'.binding, gateway'.allow)
  BY <1>1, Mappings DEF sync
<1>4. KeepsLists(c)
  <2>1. link' = link /\ pairing' = pairing
    BY DEF sync, KeepRow
  <2>2. link \in LinkRow /\ pairing \in [Pairings -> PairingRow]
    BY <1>1 DEF LinkTypeOK, PairingRow
  <2> QED
    BY <1>2, <1>3, <2>1, <2>2 DEF KeepsLists, Exists
<1> QED
  BY <1>4, KeepsListsStep

LEMMA SyncSteps ==
  ASSUME LinkInv, NEW c \in LifecycleCalls,
         \/ detach(c) \/ publishAccount(c) \/ undo(c) \/ backOut(c) \/ expel(c) \/ withdraw(c)
         \/ apply(c) \/ restore(c) \/ abandon(c) \/ cutOff(c) \/ reapply(c)
  PROVE  LinkInv'
<1>0. LinkTypeOK
  BY DEF LinkInv
<1>1. ASSUME NEW next \in HandlerStage \ Untouched, NEW failed \in HandlerStage \ Untouched,
             handler[c].op = "approve" /\ handler[c].at \notin Claiming =>
               next \notin Claiming /\ failed \notin Claiming,
             handler[c].op = "approve" => next # "publish" /\ failed # "publish",
             handler[c].op = "status" => next = "done" /\ failed = "done",
             next \in Compensating \/ failed \in Compensating => handler[c].op = "approve",
             removeHostedChannelAccount(c, next, failed)
      PROVE  LinkInv'
  BY <1>0, <1>1, Mappings, SyncStep DEF removeHostedChannelAccount
<1>2. ASSUME NEW next \in HandlerStage \ Untouched, NEW failed \in HandlerStage \ Untouched,
             handler[c].op = "approve" /\ handler[c].at \notin Claiming =>
               next \notin Claiming /\ failed \notin Claiming,
             handler[c].op = "approve" => next # "publish" /\ failed # "publish",
             handler[c].op # "status",
             next \in Compensating \/ failed \in Compensating => handler[c].op = "approve",
             ensureHostedChannelAccount(c, MappingOf(ReadRow(c)), next, failed)
      PROVE  LinkInv'
  BY <1>0, <1>2, Mappings, SyncStep DEF ensureHostedChannelAccount
<1> USE DEF HandlerStage, Untouched, Claiming, Compensating, HandlerAt
<1>a. /\ handler[c].op = "status" => handler[c].at \in {"queued", "backout"}
      /\ handler[c].at \in Compensating => handler[c].op = "approve"
  BY <1>0 DEF LinkTypeOK
<1>3. CASE detach(c) \/ undo(c) \/ backOut(c) \/ expel(c)
  BY <1>1, <1>3, <1>a DEF detach, undo, backOut, expel
<1>4. CASE withdraw(c) \/ abandon(c) \/ cutOff(c)
  BY <1>1, <1>4, <1>a DEF withdraw, abandon, cutOff
<1>5. CASE publishAccount(c)
  BY <1>2, <1>5 DEF publishAccount
<1>6. CASE reapply(c)
  BY <1>2, <1>6, <1>a DEF reapply
<1>7. CASE restore(c)
  BY <1>2, <1>7, <1>a DEF restore
<1>8. CASE apply(c)
  <2> DEFINE mapping == MappingOf(Widened(ReadRow(c), c))
  <2>1. mapping \in Mapping
    BY <1>0, <1>8, HandlerRows
    DEF mapping, MappingOf, Widened, Mapping, LinkRow, Generation, Peers, Peer, apply, LinkTypeOK
  <2>2. IsKnown(mapping.binding, mapping.allow)
    BY <1>0, <1>8, HandlerRows DEF mapping, MappingOf, Widened, IsKnown, apply, LinkRow
  <2>3. sync(c, mapping, "finish", "restore")
    BY <1>8 DEF apply, ensureHostedChannelAccount
  <2> HIDE DEF mapping
  <2> QED
    BY <1>8, <2>1, <2>2, <2>3, SyncStep DEF apply
<1> QED
  BY <1>3, <1>4, <1>5, <1>6, <1>7, <1>8

QuietRow ==
  \/ link' = link
  \/ link' = [link EXCEPT !.operation = NoCall]
  \/ link' = [link EXCEPT !.decision = NoCall]
  \/ Exists /\ link' = [link EXCEPT !.state = "inactive"]
  \/ link' = [link EXCEPT !.state = "deleted"]
  \/ \E agent \in Agents : link' = [link EXCEPT !.agent = agent]

LEMMA QuietRows ==
  ASSUME LinkTypeOK, QuietRow
  PROVE  /\ link' \in LinkRow /\ link'.allow = link.allow /\ link'.binding = link.binding
         /\ link'.decision \in {link.decision, NoCall}
         /\ link'.state # "deleted" => Exists
<1> USE DEF QuietRow, LinkTypeOK, LinkRow, Exists, Generation
<1>1. CASE link' = link
  BY <1>1
<1>2. CASE link' = [link EXCEPT !.operation = NoCall]
  BY <1>2
<1>3. CASE link' = [link EXCEPT !.decision = NoCall]
  BY <1>3
<1>4. CASE Exists /\ link' = [link EXCEPT !.state = "inactive"]
  BY <1>4
<1>5. CASE link' = [link EXCEPT !.state = "deleted"]
  BY <1>5
<1>6. CASE \E agent \in Agents : link' = [link EXCEPT !.agent = agent]
  BY <1>6
<1> QED
  BY <1>1, <1>2, <1>3, <1>4, <1>5, <1>6

\* A step of the API that leaves the gateway alone.
LEMMA RowStep ==
  ASSUME LinkInv, NEW c, QuietRow, gateway' = gateway, lifecycle' \in Generation, MovesOn(c),
         pairing' \in [Pairings -> PairingRow],
         link'.state # "deleted" =>
           \A q \in Pairings : pairing[q].status = "approved" => pairing'[q].status = "approved"
  PROVE  LinkInv'
<1>1. LinkTypeOK
  BY DEF LinkInv
<1>2. KeepsLists(c)
  BY <1>1, QuietRows, Mappings DEF KeepsLists
<1> QED
  BY <1>2, KeepsListsStep

LEMMA QuietStep ==
  ASSUME LinkInv, NEW c, QuietRow, gateway' = gateway, lifecycle' \in Generation, MovesOn(c),
         pairing' = pairing
  PROVE  LinkInv'
<1>1. pairing \in [Pairings -> PairingRow]
  BY DEF LinkInv, LinkTypeOK, PairingRow
<1> QED
  BY <1>1, RowStep

LEMMA QuietSteps ==
  ASSUME LinkInv, NEW c \in LifecycleCalls,
         \/ refuseRequest(c) \/ HandlerDies(c) \/ activateInvalid(c) \/ reject(c) \/ finish(c)
         \/ revoke(c) \/ stopFailed(c) \/ shut(c) \/ resume(c)
         \/ \E fatal \in BOOLEAN : runtimeStatus(c, fatal)
  PROVE  LinkInv'
<1>0. LinkTypeOK
  BY DEF LinkInv
<1>a. handler[c].op = "status" => handler[c].at \in {"queued", "backout"}
  BY <1>0 DEF LinkTypeOK
<1>1. ASSUME QuietRow, gateway' = gateway, pairing' = pairing, EndHandler(c)
      PROVE  LinkInv'
  BY <1>0, <1>1, Endings, QuietStep
<1>2. ASSUME NEW at \in HandlerStage \ Untouched,
             at \notin Claiming,
             handler[c].op = "status" => at = "backout",
             QuietRow, gateway' = gateway, pairing' = pairing, ThenAt(c, at)
      PROVE  LinkInv'
  BY <1>0, <1>2, Moves, QuietStep DEF Claiming
<1> USE DEF HandlerStage, Untouched, Claiming, Compensating, HandlerAt
<1>3. CASE refuseRequest(c) \/ HandlerDies(c)
  BY <1>1, <1>3 DEF refuseRequest, HandlerDies, KeepRow, QuietRow
<1>4. CASE activateInvalid(c)
  <2>1. PICK at \in {"expel", "reject"} : ThenAt(c, at)
    BY <1>4 DEF activateInvalid
  <2> QED
    BY <1>2, <1>4, <2>1 DEF activateInvalid, KeepRow, QuietRow
<1>5. CASE resume(c)
  BY <1>2, <1>5 DEF resume, KeepRow, QuietRow
<1>6. CASE reject(c) \/ shut(c) \/ stopFailed(c)
  BY <1>1, <1>6 DEF reject, shut, stopFailed, Update, QuietRow
<1>7. CASE revoke(c)
  BY <1>1, <1>7 DEF revoke, Update, QuietRow, Exists
<1>8. CASE finish(c)
  <2>1. QuietRow /\ gateway' = gateway /\ pairing' = pairing
    BY <1>8 DEF finish, KeepRow, Update, QuietRow
  <2>2. EndHandler(c) \/ ThenAt(c, "backout") \/ ThenAt(c, "undo")
    BY <1>8 DEF finish
  <2>3. handler[c].op \in {"retry", "activate"}
    BY <1>8 DEF finish
  <2> QED
    BY <1>1, <1>2, <2>1, <2>2, <2>3
<1>9. ASSUME NEW fatal \in BOOLEAN, runtimeStatus(c, fatal)
      PROVE  LinkInv'
  <2>1. gateway' = gateway /\ pairing' = pairing /\ HandlerAt(c, "status", "queued")
    BY <1>9 DEF runtimeStatus
  <2>2. QuietRow
    <3>1. CASE link' = link
      BY <3>1 DEF QuietRow
    <3>2. CASE BindingMatches(MappingOf(ReadRow(c)))
      <4>1. Exists
        BY <3>2 DEF BindingMatches, Exists
      <4>2. fatal => link' = [link EXCEPT !.state = "inactive"]
        BY <1>9, <3>2 DEF runtimeStatus, Update
      <4>3. ~fatal => link' = [link EXCEPT !.state = link.state]
        BY <1>9, <3>2 DEF runtimeStatus, Update
      <4>4. [link EXCEPT !.state = link.state] = link
        BY <1>0 DEF LinkTypeOK, LinkRow
      <4> QED
        BY <4>1, <4>2, <4>3, <4>4 DEF QuietRow
    <3> QED
      BY <1>9, <3>1, <3>2 DEF runtimeStatus
  <2>3. \/ EndHandler(c)
        \/ handler' = [handler EXCEPT ![c].at = "backout"] /\ lifecycle' = c
    BY <1>9 DEF runtimeStatus
  <2>4. CASE EndHandler(c)
    BY <1>1, <2>1, <2>2, <2>4
  <2>5. CASE handler' = [handler EXCEPT ![c].at = "backout"] /\ lifecycle' = c
    <3>1. MovesOn(c)
      BY <2>1, <2>5 DEF MovesOn
    <3>2. lifecycle' \in Generation
      BY <2>5 DEF Generation
    <3> QED
      BY <2>1, <2>2, <3>1, <3>2, QuietStep
  <2> QED
    BY <2>3, <2>4, <2>5
<1> QED
  BY <1>3, <1>4, <1>5, <1>6, <1>7, <1>8, <1>9

\* The same, with the requests of the senders.
LEMMA DecisionSteps ==
  ASSUME LinkInv, NEW c \in LifecycleCalls,
         deactivate(c) \/ stopped(c) \/ cleanup(c) \/ confirm(c)
  PROVE  LinkInv'
<1>0. LinkTypeOK /\ pairing \in [Pairings -> PairingRow]
  BY DEF LinkInv, LinkTypeOK, PairingRow
<1>a. /\ handler[c].op = "status" => handler[c].at \in {"queued", "backout"}
      /\ handler[c].op = "approve" => handler[c].request \in Pairings
  BY <1>0 DEF LinkTypeOK
<1> DEFINE Keeps ==
      /\ pairing' \in [Pairings -> PairingRow]
      /\ link'.state # "deleted" =>
           \A q \in Pairings : pairing[q].status = "approved" => pairing'[q].status = "approved"
<1>1. ASSUME QuietRow, gateway' = gateway, Keeps, EndHandler(c)
      PROVE  LinkInv'
  BY <1>0, <1>1, Endings, RowStep
<1>2. ASSUME NEW at \in HandlerStage \ Untouched,
             at \notin Claiming,
             handler[c].op = "status" => at = "backout",
             QuietRow, gateway' = gateway, Keeps, ThenAt(c, at)
      PROVE  LinkInv'
  BY <1>0, <1>2, Moves, RowStep DEF Claiming
<1>3. pairing' = pairing => Keeps
  BY <1>0
<1>4. ASSUME Clear(c) PROVE QuietRow /\ Keeps
  <2>1. pairing' = [pairing EXCEPT ![handler[c].request].nonce = NoCall]
    BY <1>4 DEF Clear
  <2>2. Keeps
    BY <1>0, <2>1 DEF PairingRow, Generation
  <2> QED
    BY <1>4, <2>2 DEF Clear, Update, QuietRow
<1>5. KeepRow => QuietRow /\ Keeps
  BY <1>3 DEF KeepRow, QuietRow
<1>6. CASE deactivate(c)
  <2>1. Keeps
    BY <1>0, <1>6 DEF deactivate, PairingRow
  <2>2. QuietRow
    BY <1>6 DEF deactivate, Update, QuietRow
  <2>3. /\ ThenAt(c, "withdraw") /\ gateway' = gateway
        /\ handler[c].op \in {"deactivate", "delete"}
    BY <1>6 DEF deactivate
  <2> HIDE DEF Keeps
  <2> QED
    BY <1>2, <2>1, <2>2, <2>3 DEF HandlerStage, Untouched, Claiming, Compensating
<1>7. CASE stopped(c)
  <2>1. CASE handler[c].op = "deactivate"
    <3>1. QuietRow /\ pairing' = pairing
      BY <1>7, <2>1 DEF stopped, Update, QuietRow
    <3> HIDE DEF Keeps
    <3> QED
      BY <1>1, <1>3, <1>7, <3>1 DEF stopped
  <2>2. CASE handler[c].op # "deactivate"
    <3>1. /\ link' = [link EXCEPT !.state = "deleted"]
          /\ pairing' = [q \in Pairings |-> [status |-> "gone", nonce |-> NoCall]]
      BY <1>7, <2>2 DEF stopped, Update
    <3>2. link'.state = "deleted"
      BY <1>0, <3>1 DEF LinkTypeOK, LinkRow
    <3>3. Keeps
      BY <3>1, <3>2 DEF PairingRow, Generation
    <3> HIDE DEF Keeps
    <3> QED
      BY <1>1, <1>7, <3>1, <3>3 DEF stopped, QuietRow
  <2> QED
    BY <2>1, <2>2
<1>8. CASE cleanup(c)
  <2>1. gateway' = gateway /\ HandlerAt(c, "approve", "finish")
    BY <1>8 DEF cleanup
  <2>2. QuietRow /\ Keeps
    <3> HIDE DEF Keeps
    <3> QED
      BY <1>4, <1>5, <1>8 DEF cleanup
  <2>3. EndHandler(c) \/ ThenAt(c, "cutoff")
    BY <1>8 DEF cleanup
  <2> HIDE DEF Keeps
  <2> QED
    BY <1>1, <1>2, <2>1, <2>2, <2>3 DEF HandlerStage, Untouched, Claiming, Compensating, HandlerAt
<1>9. CASE confirm(c)
  <2>1. gateway' = gateway /\ handler[c].at = "confirm"
    BY <1>9 DEF confirm
  <2>2. QuietRow /\ Keeps
    <3> HIDE DEF Keeps
    <3> QED
      BY <1>4, <1>5, <1>9 DEF confirm
  <2>3. EndHandler(c) \/ ThenAt(c, "backout")
    BY <1>9 DEF confirm
  <2> HIDE DEF Keeps
  <2> QED
    BY <1>1, <1>2, <2>1, <2>2, <2>3 DEF HandlerStage, Untouched, Claiming, Compensating
<1> QED
  BY <1>6, <1>7, <1>8, <1>9

\* What takes no lease, and the loss of the session that holds it.
LEMMA LeaselessSteps ==
  ASSUME LinkInv,
         \/ SessionLost
         \/ \E q \in Pairings : runtimePairing(q) \/ deny(q) \/ PairingExpires(q)
         \/ \E agent \in Agents : attach(agent)
  PROVE  LinkInv'
<1>0. LinkTypeOK /\ pairing \in [Pairings -> PairingRow]
  BY DEF LinkInv, LinkTypeOK, PairingRow
<1>1. handler' = handler => MovesOn(NoCall)
  BY DEF MovesOn
<1>2. lifecycle \in Generation /\ NoCall \in Generation
  BY <1>0 DEF LinkTypeOK, Generation
<1>3. CASE SessionLost
  BY <1>1, <1>2, <1>3, QuietStep DEF SessionLost, KeepRow, QuietRow
<1>4. ASSUME NEW q \in Pairings, NEW status \in {"pending", "denied", "expired"},
             pairing[q].status # "approved", pairing' = [pairing EXCEPT ![q].status = status],
             UNCHANGED <<link, gateway, lifecycle, handler>>
      PROVE  LinkInv'
  <2>1. /\ pairing' \in [Pairings -> PairingRow]
        /\ \A r \in Pairings : pairing[r].status = "approved" => pairing'[r].status = "approved"
    BY <1>0, <1>4 DEF PairingRow
  <2> QED
    BY <1>1, <1>2, <1>4, <2>1, RowStep DEF QuietRow
<1>5. ASSUME NEW q \in Pairings, runtimePairing(q) \/ deny(q) \/ PairingExpires(q)
      PROVE  LinkInv'
  BY <1>4, <1>5 DEF runtimePairing, deny, PairingExpires, Decide
<1>6. ASSUME NEW agent \in Agents, attach(agent) PROVE LinkInv'
  BY <1>1, <1>2, <1>6, QuietStep DEF attach, Update, QuietRow
<1> QED
  BY <1>3, <1>5, <1>6

\* What is known after a step that rewrites the row of one call.
LEMMA ListsAfter ==
  ASSUME NEW c \in LifecycleCalls, \A d \in LifecycleCalls \ {c} : handler'[d] = handler[d],
         NEW b, NEW S, IsKnown(b, S)'
  PROVE  \/ IsKnown(b, S)
         \/ b = link'.binding /\ S = link'.allow
         \/ b = gateway'.binding /\ S = gateway'.allow
         \/ handler'[c].op # "status" /\ b = handler'[c].row.binding /\ S = handler'[c].row.allow
         \/ /\ handler'[c].op = "approve" /\ handler'[c].at = "publish"
            /\ b = c /\ S = handler'[c].row.allow \cup {PeerOf[handler'[c].request]}
<1>1. CASE \E d \in LifecycleCalls :
             handler'[d].op # "status" /\ b = handler'[d].row.binding /\ S = handler'[d].row.allow
  <2> PICK d \in LifecycleCalls :
             handler'[d].op # "status" /\ b = handler'[d].row.binding /\ S = handler'[d].row.allow
    BY <1>1
  <2> QED
    BY DEF IsKnown, ReadRow
<1>2. CASE \E d \in LifecycleCalls :
             /\ handler'[d].op = "approve" /\ handler'[d].at = "publish"
             /\ b = d /\ S = handler'[d].row.allow \cup {PeerOf[handler'[d].request]}
  <2> PICK d \in LifecycleCalls :
             /\ handler'[d].op = "approve" /\ handler'[d].at = "publish"
             /\ b = d /\ S = handler'[d].row.allow \cup {PeerOf[handler'[d].request]}
    BY <1>2
  <2> QED
    BY DEF IsKnown, ReadRow, HandlerAt, Peer
<1> QED
  BY <1>1, <1>2 DEF IsKnown, ReadRow, HandlerAt, Peer

\* The claims of the other calls: they stand while the row keeps its marker.
LEMMA ClaimsAfter ==
  ASSUME NEW c \in LifecycleCalls, \A d \in LifecycleCalls \ {c} : handler'[d] = handler[d],
         \A d \in LifecycleCalls : ClaimIsSound(d),
         link'.decision \in {link.decision, NoCall, c},
         link'.state # "deleted" => Exists,
         link'.decision = link.decision =>
           \A q \in Pairings : pairing[q].status = "approved" => pairing'[q].status = "approved"
  PROVE  \A d \in LifecycleCalls \ {c} : ClaimIsSound(d)'
<1> SUFFICES ASSUME NEW d \in LifecycleCalls \ {c}, handler[d].op = "approve",
                    handler[d].at \in Claiming
             PROVE  /\ ReadRow(d).decision = NoCall
                    /\ link'.state # "deleted" /\ link'.decision = d =>
                         Supported(ReadRow(d).allow, Pairings \ {handler[d].request})'
  BY DEF ClaimIsSound, ReadRow, Exists
<1>1. ReadRow(d).decision = NoCall
  BY DEF ClaimIsSound
<1>2. ASSUME link'.state # "deleted", link'.decision = d
      PROVE  Supported(ReadRow(d).allow, Pairings \ {handler[d].request})'
  <2>1. d # NoCall
    BY ChannelConnectionsAssumption
  <2>2. Exists /\ link.decision = d /\ link'.decision = link.decision
    BY <2>1, <1>2
  <2>3. Supported(ReadRow(d).allow, Pairings \ {handler[d].request})
    BY <2>2 DEF ClaimIsSound
  <2> QED
    BY <2>2, <2>3 DEF Supported, ReadRow
<1> QED
  BY <1>1, <1>2

\* A request enters with the row as it is, and a report with the mapping.
LEMMA ArrivalSteps ==
  ASSUME LinkInv, NEW c \in LifecycleCalls,
         \/ Report(c)
         \/ \E op \in Operations, q \in Pairings \cup {NoCall} : enter(c, op, q)
  PROVE  LinkInv'
<1> USE DEF LinkInv
<1> DEFINE Arrives ==
      /\ UNCHANGED <<link, pairing, gateway>> /\ lifecycle' \in Generation
      /\ handler[c].at \in Untouched
      /\ handler' \in [LifecycleCalls -> HandlerRow]
      /\ handler'[c].at \in Untouched
      /\ handler'[c].op # "status" =>
           handler'[c].row = link
      /\ handler'[c].op = "status" => handler'[c].at = "queued"
      /\ handler'[c].op = "approve" => handler'[c].request \in Pairings
      /\ \A d \in LifecycleCalls \ {c} : handler'[d] = handler[d]
<1>1. Arrives
  <2>1. ASSUME Report(c) PROVE Arrives
    <3> DEFINE row == [ReadRow(c) EXCEPT !.binding = gateway.binding, !.agent = gateway.agent]
               new == [handler[c] EXCEPT !.op = "status", !.at = "queued", !.row = row]
    <3>1. row \in LinkRow
      BY HandlerRows DEF LinkRow, LinkTypeOK, Mapping
    <3> HIDE DEF row
    <3>2. new \in HandlerRow /\ new.at = "queued" /\ new.op = "status"
      BY <3>1, HandlerRows DEF HandlerRow, HandlerStage, Untouched
    <3>3. handler' = [handler EXCEPT ![c] = new]
      BY <2>1 DEF Report, row, ReadRow, new
    <3> HIDE DEF new
    <3>4. handler[c].at = "idle" /\ UNCHANGED <<link, pairing, gateway, lifecycle>>
      BY <2>1 DEF Report, KeepRow
    <3> QED
      BY <3>2, <3>3, <3>4 DEF Arrives, LinkTypeOK, Untouched
  <2>2. ASSUME NEW op \in Operations, NEW q \in Pairings \cup {NoCall}, enter(c, op, q)
        PROVE  Arrives
    <3> DEFINE new == [op |-> op, at |-> "read", row |-> link, request |-> q]
    <3>1. new \in HandlerRow /\ new.at = "read" /\ new.op = op /\ new.row = link /\ new.request = q
      BY DEF HandlerRow, HandlerStage, Untouched, LinkTypeOK
    <3>2. handler' = [handler EXCEPT ![c] = new]
      BY <2>2 DEF enter
    <3> HIDE DEF new
    <3> QED
      BY <2>2, <3>1, <3>2 DEF Arrives, enter, LinkTypeOK, Untouched, Generation, Operations
  <2> QED
    BY <2>1, <2>2
<1>2. LinkTypeOK'
  BY <1>1 DEF LinkTypeOK, Untouched, Compensating
<1>3. ASSUME NEW b \in Generation, NEW S \in SUBSET Peers, IsKnown(b, S)'
      PROVE  IsKnown(b, S)
  <2>1. \/ IsKnown(b, S)
        \/ b = link'.binding /\ S = link'.allow
        \/ b = gateway'.binding /\ S = gateway'.allow
        \/ handler'[c].op # "status" /\ b = handler'[c].row.binding /\ S = handler'[c].row.allow
    BY <1>1, <1>3, ListsAfter DEF Untouched
  <2> QED
    BY <1>1, <2>1 DEF IsKnown
<1>4. OneListPerGeneration' /\ GenerationsAreFresh'
  BY <1>1, <1>3, NoNewLists
<1>5. Exists' => Supported(link.allow, Pairings)'
  BY <1>1 DEF Exists, Supported
<1>6. \A d \in LifecycleCalls \ {c} : ClaimIsSound(d)'
  BY <1>1, ClaimsAfter DEF Exists
<1>7. ClaimIsSound(c)'
  BY <1>1 DEF ClaimIsSound, Untouched, Claiming, Compensating
<1> QED
  BY <1>2, <1>4, <1>5, <1>6, <1>7

\* A request that has written nothing yet rewrites the row: whatever list it
\* puts anywhere is known, or is A under the call's own generation.
LEMMA RewriteStep ==
  ASSUME LinkInv, NEW c \in LifecycleCalls, NEW A \in SUBSET Peers, NEW new \in HandlerRow,
         link' \in LinkRow, handler' = [handler EXCEPT ![c] = new], gateway' = gateway,
         lifecycle' \in Generation, pairing' \in [Pairings -> PairingRow],
         handler[c].at \in Untouched, new.at \notin Untouched, new.op # "status",
         new.op = "approve" => new.request \in Pairings, new.at \notin Compensating,
         IsKnown(link'.binding, link'.allow) \/ (link'.binding = c /\ link'.allow = A),
         IsKnown(new.row.binding, new.row.allow) \/ (new.row.binding = c /\ new.row.allow = A),
         new.op = "approve" /\ new.at = "publish" =>
           A = new.row.allow \cup {PeerOf[new.request]},
         link'.decision \in {link.decision, NoCall, c}, link'.state # "deleted" => Exists,
         \A q \in Pairings : pairing[q].status = "approved" => pairing'[q].status = "approved",
         Supported(link.allow, Pairings)',
         ClaimIsSound(c)'
  PROVE  LinkInv'
<1> USE DEF LinkInv
<1>1. /\ handler'[c] = new /\ handler' \in [LifecycleCalls -> HandlerRow]
      /\ \A d \in LifecycleCalls \ {c} : handler'[d] = handler[d]
  BY DEF LinkTypeOK
<1>2. LinkTypeOK'
  BY <1>1 DEF LinkTypeOK, PairingRow
<1>3. ASSUME NEW b \in Generation, NEW S \in SUBSET Peers, IsKnown(b, S)'
      PROVE  IsKnown(b, S) \/ (b = c /\ S = A)
  <2>1. \/ IsKnown(b, S)
        \/ b = link'.binding /\ S = link'.allow
        \/ b = gateway'.binding /\ S = gateway'.allow
        \/ b = new.row.binding /\ S = new.row.allow
        \/ /\ new.op = "approve" /\ new.at = "publish"
           /\ b = c /\ S = new.row.allow \cup {PeerOf[new.request]}
    BY <1>1, <1>3, ListsAfter
  <2>2. IsKnown(gateway.binding, gateway.allow)
    BY Mappings
  <2> QED
    BY <2>1, <2>2
<1>4. OneListPerGeneration' /\ GenerationsAreFresh'
  BY <1>1, <1>3, OneNewList
<1>5. \A d \in LifecycleCalls : ClaimIsSound(d)'
  BY <1>1, ClaimsAfter
<1> QED
  BY <1>2, <1>4, <1>5

LEMMA retryStep ==
  ASSUME LinkInv, NEW c \in LifecycleCalls, NEW anew \in BOOLEAN, NEW valid \in BOOLEAN,
         retry(c, anew, valid)
  PROVE  LinkInv'
<1> USE DEF LinkInv
<1> DEFINE restarted == valid /\ link.state = "active"
           row == [link EXCEPT !.state = IF valid THEN @ ELSE "inactive",
                               !.epoch = IF anew THEN c ELSE @,
                               !.binding = IF restarted THEN c ELSE @,
                               !.operation = IF restarted THEN c ELSE @]
           going == [handler[c] EXCEPT !.row = row, !.at = IF valid THEN "detach" ELSE "backout"]
           ended == [Idle EXCEPT !.at = "done"]
           new == IF link.state = "active" THEN going ELSE ended
<1>1. /\ row \in LinkRow /\ row.allow = link.allow /\ row.decision = link.decision
      /\ row.binding \in {link.binding, c}
      /\ row.state # "deleted" => Exists
  <2> DEFINE state == IF valid THEN link.state ELSE "inactive"
             epoch == IF anew THEN c ELSE link.epoch
             binding == IF restarted THEN c ELSE link.binding
             operation == IF restarted THEN c ELSE link.operation
  <2>1. /\ state \in {"inactive", "active", "deleted"} /\ (state # "deleted" => Exists)
        /\ epoch \in Generation /\ operation \in Generation
        /\ binding \in Generation /\ binding \in {link.binding, c}
    BY DEF LinkTypeOK, LinkRow, Generation, Exists, retry
  <2>2. row = [link EXCEPT !.state = state, !.epoch = epoch, !.binding = binding,
                           !.operation = operation]
    BY DEF LinkTypeOK, LinkRow
  <2> HIDE DEF row, state, epoch, binding, operation
  <2> QED
    BY <2>1, <2>2 DEF LinkTypeOK, LinkRow
<1>2. /\ HandlerAt(c, "retry", "read") /\ link' = row
      /\ pairing' = pairing /\ gateway' = gateway
  BY DEF retry, Update
<1>3. handler' = [handler EXCEPT ![c] = new] /\ lifecycle' \in Generation
  <2>1. CASE link.state = "active"
    <3>1. handler' = [handler EXCEPT ![c].row = row, ![c].at = IF valid THEN "detach" ELSE "backout"]
      BY <2>1 DEF retry
    <3>2. lifecycle' = lifecycle
      BY <2>1 DEF retry
    <3> HIDE DEF row
    <3> QED
      BY <2>1, <3>1, <3>2 DEF LinkTypeOK
  <2>2. CASE link.state # "active"
    BY <2>2 DEF retry, EndHandler, LinkTypeOK, Generation
  <2> QED
    BY <2>1, <2>2
<1> HIDE DEF row, ended
<1>4. /\ going \in HandlerRow /\ going.row = row /\ going.op = "retry"
      /\ going.at \in {"detach", "backout"}
  BY <1>1, <1>2, HandlerRows DEF HandlerRow, HandlerAt, HandlerStage, Untouched, Claiming, Compensating
<1>5. ended \in HandlerRow /\ ended.row = NoLink /\ ended.op = "none" /\ ended.at = "done"
  BY IdleRow DEF ended
<1> HIDE DEF going
<1>6. /\ new \in HandlerRow /\ new.op \in {"retry", "none"}
      /\ new.at \notin Untouched \cup Compensating
      /\ new.row \in {row, NoLink}
  BY <1>4, <1>5 DEF Untouched, Compensating
<1> HIDE DEF new
<1>7. link.allow \in SUBSET Peers /\ IsKnown(link.binding, link.allow)
  BY DEF LinkTypeOK, LinkRow, IsKnown
<1>8. IsKnown(NoLink.binding, NoLink.allow)
  BY IdleRow DEF IsKnown
<1>9. /\ IsKnown(link'.binding, link'.allow) \/ (link'.binding = c /\ link'.allow = link.allow)
      /\ \/ IsKnown(new.row.binding, new.row.allow)
         \/ new.row.binding = c /\ new.row.allow = link.allow
  BY <1>1, <1>2, <1>6, <1>7, <1>8
<1>10. Supported(link.allow, Pairings)'
  BY <1>1, <1>2 DEF Supported, Exists, retry
<1>11. ClaimIsSound(c)'
  BY <1>3, <1>6 DEF ClaimIsSound, LinkTypeOK
<1>12. pairing' \in [Pairings -> PairingRow]
  BY <1>2 DEF LinkTypeOK, PairingRow
<1>13. handler[c].at \in Untouched
  BY <1>2 DEF HandlerAt, Untouched
<1> QED
  BY <1>1, <1>2, <1>3, <1>6, <1>7, <1>9, <1>10, <1>11, <1>12, <1>13, RewriteStep

LEMMA activateStep ==
  ASSUME LinkInv, NEW c \in LifecycleCalls, NEW body \in SUBSET Listed, activate(c, body)
  PROVE  LinkInv'
<1> USE DEF LinkInv
<1> DEFINE row == [link EXCEPT !.state = "active", !.binding = c, !.allow = body,
                               !.operation = c, !.decision = NoCall]
           new == [handler[c] EXCEPT !.row = row, !.at = "publish"]
<1>1. /\ row \in LinkRow /\ row.allow = body /\ row.binding = c /\ row.decision = NoCall
      /\ body \in SUBSET Peers
  BY DEF LinkTypeOK, LinkRow, Generation, Peers
<1>2. /\ HandlerAt(c, "activate", "read") /\ link' = row /\ Exists
      /\ pairing' = pairing /\ gateway' = gateway /\ lifecycle' = lifecycle
  BY DEF activate, Update
<1>3. handler' = [handler EXCEPT ![c] = new]
  <2>1. handler' = [handler EXCEPT ![c].row = row, ![c].at = "publish"]
    BY DEF activate
  <2> HIDE DEF row
  <2> QED
    BY <2>1 DEF LinkTypeOK
<1> HIDE DEF row
<1>4. new \in HandlerRow /\ new.row = row /\ new.op = "activate" /\ new.at = "publish"
  BY <1>1, <1>2, HandlerRows DEF HandlerRow, HandlerAt, HandlerStage, Untouched, Claiming, Compensating
<1> HIDE DEF new
<1>5. Supported(link.allow, Pairings)'
  BY <1>1, <1>2 DEF Supported
<1>6. ClaimIsSound(c)'
  BY <1>3, <1>4 DEF ClaimIsSound, LinkTypeOK
<1>7. pairing' \in [Pairings -> PairingRow] /\ lifecycle' \in Generation
  BY <1>2 DEF LinkTypeOK, PairingRow
<1>8. handler[c].at \in Untouched
  BY <1>2 DEF HandlerAt, Untouched
<1> QED
  BY <1>1, <1>2, <1>3, <1>4, <1>5, <1>6, <1>7, <1>8, RewriteStep
  DEF Untouched, Compensating

LEMMA approveStep ==
  ASSUME LinkInv, NEW c \in LifecycleCalls, approve(c)
  PROVE  LinkInv'
<1> USE DEF LinkInv
<1> DEFINE q == handler[c].request
           A == link.allow \cup {PeerOf[q]}
           row == [Widened(link, c) EXCEPT !.decision = c]
           new == [handler[c] EXCEPT !.row = link, !.at = "publish"]
<1>1. /\ handler[c].op = "approve" /\ handler[c].at = "read"
      /\ q \in Pairings /\ pairing[q].status = "pending"
      /\ link.state = "active" /\ link.decision = NoCall
      /\ pairing' = [pairing EXCEPT ![q] = [status |-> "approved", nonce |-> c]]
      /\ link' = row /\ gateway' = gateway /\ lifecycle' = lifecycle
  BY DEF approve, Update, HandlerAt, LinkTypeOK
<1>2. handler' = [handler EXCEPT ![c] = new]
  <2>1. handler' = [handler EXCEPT ![c].row = link, ![c].at = "publish"]
    BY DEF approve
  <2> QED
    BY <2>1 DEF LinkTypeOK
<1>3. A \in SUBSET Peers
  BY <1>1 DEF LinkTypeOK, LinkRow, Peers
<1>4. /\ row \in LinkRow /\ row.allow = A /\ row.binding = c /\ row.decision = c
      /\ row.state = link.state
  BY <1>3 DEF LinkTypeOK, LinkRow, Generation, Widened, Peer
<1> HIDE DEF row
<1>5. /\ new \in HandlerRow /\ new.row = link /\ new.op = "approve" /\ new.at = "publish"
      /\ new.request = q
  BY <1>1, HandlerRows DEF HandlerRow, HandlerStage, Untouched, Claiming, Compensating, LinkTypeOK
<1> HIDE DEF new
<1>6. handler'[c] = new
  BY <1>2 DEF LinkTypeOK
<1>7. /\ pairing' \in [Pairings -> PairingRow] /\ pairing'[q].status = "approved"
      /\ \A r \in Pairings \ {q} : pairing'[r] = pairing[r]
  BY <1>1 DEF LinkTypeOK, PairingRow, Generation
<1>8. Supported(link.allow, Pairings)
  BY <1>1 DEF Exists
<1>9. Supported(link.allow, Pairings)'
  BY <1>1, <1>4, <1>7, <1>8 DEF Supported
<1>10. ClaimIsSound(c)'
  <2>1. ReadRow(c)' = link /\ (handler[c].request)' = q
    BY <1>5, <1>6 DEF ReadRow
  <2>2. \A p \in link.allow : \/ p \in Listed
                              \/ \E r \in Pairings \ {q} : PeerOf[r] = p /\ pairing[r].status = "approved"
    BY <1>1, <1>8 DEF Supported
  <2>3. \A p \in link.allow : \/ p \in Listed
                              \/ \E r \in Pairings \ {q} : PeerOf[r] = p /\ pairing'[r].status = "approved"
    BY <1>7, <2>2
  <2>4. Supported(ReadRow(c).allow, Pairings \ {handler[c].request})'
    BY <2>1, <2>3 DEF Supported
  <2> QED
    BY <1>1, <2>1, <2>4 DEF ClaimIsSound
<1>11. \A r \in Pairings : pairing[r].status = "approved" => pairing'[r].status = "approved"
  BY <1>7
<1>12. IsKnown(link.binding, link.allow)
  BY DEF IsKnown
<1>13. lifecycle' \in Generation /\ handler[c].at \in Untouched /\ link'.decision = c
       /\ (link'.state # "deleted" => Exists)
  BY <1>1, <1>4 DEF LinkTypeOK, Untouched, Exists
<1> HIDE DEF q, A
<1>14. new.op = "approve" /\ new.at = "publish" => A = new.row.allow \cup {PeerOf[new.request]}
  BY <1>5 DEF A
<1> QED
  BY <1>1, <1>2, <1>3, <1>4, <1>5, <1>7, <1>9, <1>10, <1>11, <1>12, <1>13, <1>14, RewriteStep
  DEF Untouched, Compensating

LEMMA compensateStep ==
  ASSUME LinkInv, NEW c \in LifecycleCalls, compensate(c)
  PROVE  LinkInv'
<1> USE DEF LinkInv
<1> DEFINE q == handler[c].request
           back == [link EXCEPT !.allow = ReadRow(c).allow, !.binding = ReadRow(c).binding,
                                !.operation = ReadRow(c).operation,
                                !.decision = ReadRow(c).decision]
<1>1. /\ handler[c].at \in {"compensate", "compensateStopped"} /\ gateway' = gateway
      /\ EndHandler(c) \/ ThenAt(c, "cutoff")
  BY DEF compensate
<1>2. handler[c].op # "status"
  BY <1>1 DEF LinkTypeOK
<1>3. MovesOn(c) /\ lifecycle' \in Generation
  BY <1>1, <1>2, Endings, Moves DEF HandlerStage, Untouched, Claiming, Compensating
<1>4. CASE KeepRow
  <2>1. link' = link /\ pairing' = pairing
    BY <1>4 DEF KeepRow
  <2> QED
    BY <1>1, <1>3, <2>1, QuietStep DEF QuietRow
<1>5. CASE /\ Exists /\ link.decision = c /\ link' = back
           /\ \E status \in {"pending", "expired"} :
                pairing' = [pairing EXCEPT ![q] = [status |-> status, nonce |-> NoCall]]
  <2>1. back \in LinkRow /\ back.state = link.state /\ back.allow = ReadRow(c).allow
        /\ back.binding = ReadRow(c).binding /\ back.decision = ReadRow(c).decision
    BY HandlerRows DEF LinkTypeOK, LinkRow
  <2> HIDE DEF back
  <2> PICK status \in {"pending", "expired"} :
         pairing' = [pairing EXCEPT ![q] = [status |-> status, nonce |-> NoCall]]
    BY <1>5
  <2>2. /\ pairing' \in [Pairings -> PairingRow]
        /\ \A r \in Pairings \ {q} : pairing'[r] = pairing[r]
    BY DEF LinkTypeOK, PairingRow, Generation
  <2>3. /\ handler' \in [LifecycleCalls -> HandlerRow]
        /\ \A d \in LifecycleCalls \ {c} : handler'[d] = handler[d]
        /\ handler'[c].at \notin Untouched \cup Claiming
        /\ \/ handler'[c].row = NoLink /\ handler'[c].op = "none"
           \/ handler'[c].row = ReadRow(c) /\ handler'[c].op = handler[c].op
        /\ handler'[c].op = "approve" => handler'[c].request \in Pairings
    <3>1. CASE ThenAt(c, "cutoff")
      BY <3>1, HandlerRows
      DEF ThenAt, LinkTypeOK, HandlerRow, HandlerStage, Untouched, Claiming, Compensating, ReadRow
    <3>2. CASE EndHandler(c)
      <4> DEFINE end == [Idle EXCEPT !.at = "done"]
      <4>1. end \in HandlerRow /\ end.at = "done" /\ end.op = "none" /\ end.row = NoLink
        BY IdleRow
      <4> HIDE DEF end
      <4>2. handler' = [handler EXCEPT ![c] = end]
        BY <3>2 DEF EndHandler, end
      <4> QED
        BY <4>1, <4>2 DEF LinkTypeOK, Untouched, Claiming, Compensating
    <3> QED
      BY <1>1, <3>1, <3>2
  <2>4. LinkTypeOK'
    <3>1. \A d \in LifecycleCalls :
            /\ handler'[d].op = "approve" => handler'[d].request \in Pairings
            /\ handler'[d].op = "status" => handler'[d].at \in {"queued", "backout"}
            /\ handler'[d].at \in Compensating => handler'[d].op = "approve"
      BY <1>2, <2>3 DEF LinkTypeOK, Claiming
    <3> QED
      BY <1>1, <1>3, <1>5, <2>1, <2>2, <2>3, <3>1 DEF LinkTypeOK, PairingRow
  <2>5. ASSUME NEW b \in Generation, NEW S \in SUBSET Peers, IsKnown(b, S)'
        PROVE  IsKnown(b, S)
    <3>1. \/ IsKnown(b, S)
          \/ b = link'.binding /\ S = link'.allow
          \/ b = gateway'.binding /\ S = gateway'.allow
          \/ b = handler'[c].row.binding /\ S = handler'[c].row.allow
      BY <2>3, <2>5, ListsAfter DEF Claiming, Compensating
    <3>2. /\ IsKnown(ReadRow(c).binding, ReadRow(c).allow)
          /\ IsKnown(gateway.binding, gateway.allow)
          /\ IsKnown(NoLink.binding, NoLink.allow)
      BY <1>2, IdleRow DEF IsKnown
    <3> QED
      BY <1>1, <1>5, <2>1, <2>3, <3>1, <3>2
  <2>6. \A d \in LifecycleCalls : handler'[d].at \in Untouched => handler[d].at \in Untouched
    BY <2>3
  <2>7. OneListPerGeneration' /\ GenerationsAreFresh'
    BY <2>5, <2>6, NoNewLists
  <2>8. /\ ReadRow(c).decision = NoCall
        /\ Supported(ReadRow(c).allow, Pairings \ {q})
    <3>1. handler[c].op = "approve" /\ handler[c].at \in Claiming
      BY <1>1 DEF LinkTypeOK, Claiming, Compensating
    <3> QED
      BY <1>5, <3>1 DEF ClaimIsSound
  <2>9. Supported(link.allow, Pairings)'
    BY <1>5, <2>1, <2>2, <2>8 DEF Supported
  <2>10. \A d \in LifecycleCalls \ {c} : ClaimIsSound(d)'
    <3>1. link'.decision = NoCall /\ link.decision = c /\ c # NoCall
      BY <1>5, <2>1, <2>8, ChannelConnectionsAssumption
    <3>2. link'.state # "deleted" => Exists
      BY <1>5
    <3> QED
      BY <2>3, <3>1, <3>2, ClaimsAfter
  <2>11. ClaimIsSound(c)'
    BY <2>3 DEF ClaimIsSound
  <2> QED
    BY <2>4, <2>7, <2>9, <2>10, <2>11
<1> QED
  BY <1>4, <1>5 DEF compensate, Update

LEMMA InitLinkInv ==
  ASSUME ConnectionsInit
  PROVE  LinkInv
<1> DEFINE RestingRow ==
      /\ link.state \in {"inactive", "active"} /\ link.allow = {}
      /\ link.binding = NoCall /\ link \in LinkRow
      /\ link.operation = NoCall /\ link.decision = NoCall
<1>1. RestingRow
  <2> DEFINE oldest == CHOOSE agent \in Agents : TRUE
  <2>1. oldest \in Agents
    BY ChannelConnectionsAssumption
  <2>2. \A first \in Agents, state \in {"inactive", "active"} :
          link = [NoLink EXCEPT !.state = state, !.agent = first] => RestingRow
    BY DEF NoLink, LinkRow, Generation
  <2>3. \E state \in {"inactive", "active"} :
          link = [NoLink EXCEPT !.state = state, !.agent = oldest]
    BY Zenon DEF ConnectionsInit
  <2> HIDE DEF oldest, RestingRow
  <2> QED
    BY <2>1, <2>2, <2>3, Zenon
<1>2. /\ gateway \in Mapping /\ gateway.binding = NoCall /\ gateway.allow = {}
      /\ pairing = [q \in Pairings |-> [status |-> "none", nonce |-> NoCall]]
      /\ handler = [c \in LifecycleCalls |-> Idle] /\ lifecycle = NoCall
  <2>1. /\ NoMapping \in Mapping /\ NoMapping.binding = NoCall /\ NoMapping.allow = {}
        /\ MappingOf(link) \in Mapping /\ MappingOf(link).binding = NoCall
        /\ MappingOf(link).allow = {}
    BY <1>1 DEF NoMapping, MappingOf, Mapping, LinkRow, Generation
  <2>2. NoCalls
    BY DEF ConnectionsInit
  <2> QED
    BY <2>1, <2>2 DEF NoCalls
<1>3. Idle \in HandlerRow /\ Idle.at = "idle" /\ Idle.op = "none" /\ Idle.row = NoLink
  BY DEF Idle, NoLink, LinkRow, HandlerRow, HandlerStage, Untouched, Generation
<1>4. \A c \in LifecycleCalls : handler[c] = Idle
  BY <1>2
<1>5. LinkTypeOK
  BY <1>1, <1>2, <1>3, <1>4 DEF LinkTypeOK, Generation, Compensating
<1>6. \A b, S : IsKnown(b, S) => b = NoCall /\ S = {}
  BY <1>1, <1>2, <1>3, <1>4, IdleRow DEF IsKnown, ReadRow, HandlerAt
<1>7. OneListPerGeneration
  BY <1>6 DEF OneListPerGeneration
<1>8. GenerationsAreFresh
  BY <1>6, ChannelConnectionsAssumption DEF GenerationsAreFresh
<1>9. Supported(link.allow, Pairings)
  BY <1>1 DEF Supported
<1>10. \A c \in LifecycleCalls : ClaimIsSound(c)
  BY <1>3, <1>4 DEF ClaimIsSound
<1> QED
  BY <1>5, <1>7, <1>8, <1>9, <1>10 DEF LinkInv

LEMMA NextLinkInv ==
  LinkInv /\ [ConnectionsNext]_connectionVars => LinkInv'
<1> SUFFICES ASSUME LinkInv, [ConnectionsNext]_connectionVars
             PROVE  LinkInv'
  OBVIOUS
<1>1. ASSUME NEW c \in LifecycleCalls, ConnectionStep(c)
      PROVE  LinkInv'
  <2>1. CASE \/ Report(c)
             \/ \E op \in Operations, q \in Pairings \cup {NoCall} : enter(c, op, q)
    BY <2>1, ArrivalSteps
  <2>2. CASE \/ refuseRequest(c) \/ HandlerDies(c) \/ activateInvalid(c) \/ reject(c) \/ finish(c)
             \/ revoke(c) \/ stopFailed(c) \/ shut(c) \/ resume(c)
             \/ \E fatal \in BOOLEAN : runtimeStatus(c, fatal)
    BY <2>2, QuietSteps
  <2>3. CASE \E anew, valid \in BOOLEAN : retry(c, anew, valid)
    BY <2>3, retryStep
  <2>4. CASE \E body \in SUBSET Listed : activate(c, body)
    BY <2>4, activateStep
  <2>5. CASE \/ detach(c) \/ publishAccount(c) \/ undo(c) \/ backOut(c) \/ expel(c) \/ withdraw(c)
             \/ apply(c) \/ restore(c) \/ abandon(c) \/ cutOff(c) \/ reapply(c)
    BY <2>5, SyncSteps
  <2>6. CASE deactivate(c) \/ stopped(c) \/ cleanup(c) \/ confirm(c)
    BY <2>6, DecisionSteps
  <2>7. CASE approve(c)
    BY <2>7, approveStep
  <2>8. CASE compensate(c)
    BY <2>8, compensateStep
  <2> QED
    BY <1>1, <2>1, <2>2, <2>3, <2>4, <2>5, <2>6, <2>7, <2>8 DEF ConnectionStep
<1>2. CASE UNCHANGED connectionVars
  <2>1. LinkTypeOK /\ handler' = handler /\ gateway' = gateway /\ lifecycle' = lifecycle
        /\ pairing' = pairing /\ link' = link
    BY <1>2 DEF connectionVars, LinkInv
  <2> QED
    BY <2>1, QuietStep DEF QuietRow, MovesOn, LinkTypeOK
<1> QED
  BY <1>1, <1>2, LeaselessSteps DEF ConnectionsNext

\* Whatever fails, dies or loses the lease between the row and the gateway, an
\* account whose calls the API accepts admits exactly the senders of the row's
\* list, and each of them was listed or approved.
THEOREM OnlyTheDecidedThm ==
  ConnectionsSpec => []OnlyTheDecided
<1>1. ConnectionsInit => LinkInv
  BY InitLinkInv
<1>2. LinkInv => OnlyTheDecided
  <2> SUFFICES ASSUME LinkInv, BindingMatches(gateway)
               PROVE  /\ gateway.allow = link.allow
                      /\ \A p \in gateway.allow :
                           \/ p \in Listed
                           \/ \E q \in Pairings : PeerOf[q] = p /\ pairing[q].status = "approved"
    BY DEF OnlyTheDecided
  <2>1. link.binding = gateway.binding /\ Exists
    BY DEF BindingMatches, Exists
  <2>2. gateway.allow = link.allow
    <3>1. /\ link.binding \in Generation /\ link.allow \in SUBSET Peers
          /\ gateway.allow \in SUBSET Peers
      BY DEF LinkInv, LinkTypeOK, LinkRow, Mapping
    <3>2. IsKnown(link.binding, link.allow) /\ IsKnown(link.binding, gateway.allow)
      BY <2>1 DEF IsKnown
    <3> QED
      BY <3>1, <3>2 DEF LinkInv, OneListPerGeneration
  <2> QED
    BY <2>1, <2>2 DEF LinkInv, Supported
<1> QED
  BY <1>1, <1>2, NextLinkInv, PTL DEF ConnectionsSpec

-----------------------------------------------------------------------------
(* One connection: what the call that holds the lease has done so far.     *)

Unmarked == link.state = "active" /\ link.operation = NoCall /\ link.decision = NoCall
Published == gateway = MappingOf(link)

Marked(c) == link.state = "active" /\ link.operation = c /\ link = ReadRow(c)

Approved(c) ==
  link.state = "active" /\ link = [Widened(ReadRow(c), c) EXCEPT !.decision = c]

Resumed(c) == link.state = "active" /\ link = ReadRow(c) /\ link.decision # NoCall

RowMatchesStage(c) ==
  LET approves == handler[c].op = "approve"
      at == handler[c].at
  IN /\ at \in {"read", "expel"} => (Unmarked => Published)
     /\ at = "read" /\ approves => link = ReadRow(c) /\ link.state = "active"
     /\ at = "backout" => ~Unmarked
     /\ at \in {"withdraw", "failing", "stopped"} => link.state # "active"
     /\ at \in {"undo", "revoke"} => link.operation = c
     /\ at = "detach" => Marked(c)
     /\ at \in {"publish", "finish"} => IF approves THEN Approved(c) ELSE Marked(c)
     /\ at \in {"finish", "confirm"} => Published
     /\ at \in Compensating => Approved(c)
     /\ at = "compensate" => gateway = MappingOf(ReadRow(c))
     /\ at \in {"resume", "confirm"} => Resumed(c)

WithoutHandler == {"idle", "queued", "done"}

\* Nobody but the holder of the lease is in the middle of something.
PublishedInv ==
  ~excused =>
    /\ \A c \in LifecycleCalls :
         handler[c].at \notin WithoutHandler => lifecycle = c /\ RowMatchesStage(c)
    /\ lifecycle = NoCall => (Unmarked => Published)

\* A step of the call that has the lease, takes it or leaves it.
LEMMA StageStep ==
  ASSUME PublishedInv, ~excused, NEW c \in LifecycleCalls,
         handler[c].at \notin WithoutHandler \/ lifecycle = NoCall,
         \A d \in LifecycleCalls \ {c} : handler'[d] = handler[d],
         handler'[c].at \notin WithoutHandler => lifecycle' = c /\ RowMatchesStage(c)',
         lifecycle' = NoCall => (Unmarked' => Published')
  PROVE  PublishedInv'
<1>1. \A d \in LifecycleCalls \ {c} : handler[d].at \in WithoutHandler
  BY ChannelConnectionsAssumption DEF PublishedInv
<1> QED
  BY <1>1 DEF PublishedInv

LEMMA EndedStage ==
  ASSUME LinkTypeOK, PublishedInv, ~excused, NEW c \in LifecycleCalls,
         handler[c].at \notin WithoutHandler \/ lifecycle = NoCall,
         EndHandler(c), Unmarked' => Published'
  PROVE  PublishedInv'
<1> DEFINE end == [Idle EXCEPT !.at = "done"]
<1>1. handler' = [handler EXCEPT ![c] = end] /\ end.at = "done"
  BY IdleRow DEF EndHandler
<1> HIDE DEF end
<1>2. handler'[c].at \in WithoutHandler /\ \A d \in LifecycleCalls \ {c} : handler'[d] = handler[d]
  BY <1>1 DEF WithoutHandler, LinkTypeOK
<1> QED
  BY <1>2, StageStep

LEMMA NextStage ==
  ASSUME LinkTypeOK, PublishedInv, ~excused, NEW c \in LifecycleCalls, NEW at,
         handler[c].at \notin WithoutHandler, ThenAt(c, at),
         handler'[c].at = at => RowMatchesStage(c)'
  PROVE  PublishedInv'
<1>1. lifecycle' = c
  BY DEF ThenAt, PublishedInv
<1>2. handler'[c].at = at /\ \A d \in LifecycleCalls \ {c} : handler'[d] = handler[d]
  BY DEF ThenAt, LinkTypeOK, HandlerRow
<1> QED
  BY <1>1, <1>2, ChannelConnectionsAssumption, StageStep

\* The call as it is after ThenAt.
LEMMA StageAfter ==
  ASSUME LinkTypeOK, NEW c \in LifecycleCalls, NEW at, ThenAt(c, at)
  PROVE  /\ handler'[c].at = at /\ handler'[c].op = handler[c].op
         /\ handler'[c].row = handler[c].row /\ handler'[c].request = handler[c].request
BY DEF ThenAt, LinkTypeOK, HandlerRow

\* The lease and the stage of a call that is not at rest.
LEMMA HolderStage ==
  ASSUME PublishedInv, ~excused, NEW c \in LifecycleCalls, handler[c].at \notin WithoutHandler
  PROVE  lifecycle = c /\ RowMatchesStage(c)
BY DEF PublishedInv

LEMMA MappingFields ==
  ASSUME NEW row \in LinkRow, NEW other \in LinkRow,
         row.binding = other.binding, row.allow = other.allow,
         row.epoch = other.epoch, row.agent = other.agent
  PROVE  MappingOf(row) = MappingOf(other)
BY DEF MappingOf

\* The gateway has been told, or not.
LEMMA SyncStages ==
  ASSUME LinkTypeOK, PublishedInv, ~excused, NEW c \in LifecycleCalls,
         \/ detach(c) \/ publishAccount(c) \/ undo(c) \/ backOut(c) \/ expel(c) \/ withdraw(c)
         \/ apply(c) \/ restore(c) \/ abandon(c) \/ cutOff(c) \/ reapply(c)
  PROVE  PublishedInv'
<1>1. /\ handler[c].at \notin WithoutHandler /\ link' = link
      /\ handler[c].at \notin WithoutHandler => lifecycle = c /\ RowMatchesStage(c)
  BY HolderStage
  DEF detach, publishAccount, undo, backOut, expel, withdraw, apply, restore, abandon, cutOff,
      reapply, ensureHostedChannelAccount, removeHostedChannelAccount, sync, KeepRow,
      HandlerAt, WithoutHandler
<1>2. ASSUME NEW at, ThenAt(c, at),
             /\ handler'[c].at = at /\ handler'[c].op = handler[c].op
             /\ handler'[c].row = handler[c].row /\ handler'[c].request = handler[c].request
             => RowMatchesStage(c)'
      PROVE  PublishedInv'
  BY <1>1, <1>2, NextStage, StageAfter
<1>3. ASSUME EndHandler(c), ~Unmarked
      PROVE  PublishedInv'
  BY <1>1, <1>3, EndedStage DEF Unmarked
<1> USE DEF ensureHostedChannelAccount, removeHostedChannelAccount, sync, ThenAtOrEnd,
            RowMatchesStage, Marked, Approved, Resumed, Unmarked, Published, ReadRow,
            Compensating, HandlerAt
<1>4. CASE detach(c)
  <2>1. ThenAt(c, "publish") \/ ThenAt(c, "undo")
    BY <1>4 DEF detach
  <2> QED
    BY <1>1, <1>2, <1>4, <2>1 DEF detach
<1>5. CASE publishAccount(c)
  <2>1. \/ ThenAt(c, "finish") /\ gateway' = MappingOf(ReadRow(c))
        \/ ThenAt(c, "undo")
    BY <1>5 DEF publishAccount
  <2> QED
    BY <1>1, <1>2, <1>5, <2>1 DEF publishAccount
<1>6. CASE undo(c)
  <2>1. ThenAt(c, "revoke")
    BY <1>6 DEF undo
  <2> QED
    BY <1>1, <1>2, <1>6, <2>1 DEF undo
<1>7. CASE backOut(c)
  <2>1. EndHandler(c)
    BY <1>7 DEF backOut
  <2> QED
    BY <1>1, <1>3, <1>7, <2>1 DEF backOut
<1>8. CASE expel(c)
  <2>1. ThenAt(c, "reject")
    BY <1>8 DEF expel
  <2> QED
    BY <1>1, <1>2, <1>8, <2>1 DEF expel
<1>9. CASE withdraw(c)
  <2>1. ThenAt(c, "stopped") \/ ThenAt(c, "failing")
    BY <1>9 DEF withdraw
  <2> QED
    BY <1>1, <1>2, <1>9, <2>1 DEF withdraw
<1>10. CASE apply(c)
  <2>1. MappingOf(Widened(ReadRow(c), c)) = MappingOf(link)
    BY <1>1, <1>10, HandlerRows DEF apply, MappingOf, Widened, LinkRow
  <2>2. \/ ThenAt(c, "finish") /\ gateway' = MappingOf(Widened(ReadRow(c), c))
        \/ ThenAt(c, "restore")
    BY <1>10 DEF apply
  <2> QED
    BY <1>1, <1>2, <1>10, <2>1, <2>2 DEF apply, Widened, Peer
<1>11. CASE restore(c)
  <2>1. \/ ThenAt(c, "compensate") /\ gateway' = MappingOf(ReadRow(c))
        \/ ThenAt(c, "abandon")
    BY <1>11 DEF restore
  <2> QED
    BY <1>1, <1>2, <1>11, <2>1 DEF restore, Widened, Peer
<1>12. CASE abandon(c)
  <2>1. ThenAt(c, "compensateStopped")
    BY <1>12 DEF abandon
  <2> QED
    BY <1>1, <1>2, <1>12, <2>1 DEF abandon, Widened, Peer
<1>13. CASE cutOff(c)
  <2>1. ThenAt(c, "shut")
    BY <1>13 DEF cutOff
  <2> QED
    BY <1>1, <1>2, <1>13, <2>1 DEF cutOff
<1>14. CASE reapply(c)
  <2>1. \/ ThenAt(c, "confirm") /\ gateway' = MappingOf(ReadRow(c))
        \/ EndHandler(c)
    BY <1>14 DEF reapply
  <2> QED
    BY <1>1, <1>2, <1>3, <1>14, <2>1 DEF reapply
<1> QED
  BY <1>4, <1>5, <1>6, <1>7, <1>8, <1>9, <1>10, <1>11, <1>12, <1>13, <1>14

\* A row that is not active needs no account.
LEMMA RevokedRows ==
  ASSUME LinkTypeOK, NEW state \in {"inactive", "deleted"}, link' = [link EXCEPT !.state = state]
  PROVE  link'.state # "active"
BY DEF LinkTypeOK, LinkRow

\* The ends of the handlers, and the death of one.
LEMMA EndStages ==
  ASSUME LinkTypeOK, PublishedInv, ~excused, ~excused', NEW c \in LifecycleCalls,
         \/ refuseRequest(c) \/ HandlerDies(c) \/ reject(c) \/ revoke(c) \/ stopFailed(c)
         \/ shut(c) \/ stopped(c)
  PROVE  PublishedInv'
<1>1. handler[c].at \notin WithoutHandler /\ EndHandler(c) /\ gateway' = gateway
  BY DEF refuseRequest, HandlerDies, reject, revoke, stopFailed, shut, stopped, WithoutHandler
<1>2. lifecycle = c /\ RowMatchesStage(c)
  BY <1>1, HolderStage
<1>3. ASSUME link' = link, Unmarked => Published
      PROVE  Unmarked' => Published'
  BY <1>1, <1>3 DEF Unmarked, Published, MappingOf
<1>4. ASSUME link'.state # "active"
      PROVE  Unmarked' => Published'
  BY <1>4 DEF Unmarked
<1>5. CASE refuseRequest(c)
  BY <1>1, <1>2, <1>3, <1>5, EndedStage DEF refuseRequest, KeepRow, RowMatchesStage
<1>6. CASE HandlerDies(c)
  <2>1. link' = link /\ handler[c].at \notin {"idle", "queued", "read", "done", "reject", "cutoff", "shut"}
    BY <1>6 DEF HandlerDies, KeepRow
  <2>2. Unmarked => Published
    <3>1. CASE handler[c].at \in {"publish", "finish"} \cup Compensating
      <4>1. Approved(c) \/ Marked(c)
        BY <1>2, <3>1 DEF RowMatchesStage
      <4>2. CASE Marked(c)
        BY <4>2, ChannelConnectionsAssumption DEF Marked, Unmarked
      <4>3. CASE Approved(c)
        <5>1. [Widened(ReadRow(c), c) EXCEPT !.decision = c].decision = c
          BY HandlerRows DEF Widened, LinkRow
        <5> QED
          BY <4>3, <5>1, ChannelConnectionsAssumption DEF Approved, Unmarked
      <4> QED
        BY <4>1, <4>2, <4>3
    <3>2. CASE handler[c].at \notin {"publish", "finish"} \cup Compensating
      <4>1. handler[c].at \in {"detach", "backout", "undo", "revoke", "expel", "withdraw", "failing",
                               "stopped", "resume", "confirm"}
        BY <2>1, <3>2, HandlerRows DEF HandlerStage, Untouched, Claiming
      <4> QED
        BY <1>2, <4>1, ChannelConnectionsAssumption
        DEF RowMatchesStage, Marked, Unmarked, Resumed
    <3> QED
      BY <3>1, <3>2
  <2> QED
    BY <1>1, <1>3, <2>1, <2>2, EndedStage
<1>7. CASE reject(c) \/ shut(c)
  <2>1. link'.state # "active"
    BY <1>7, RevokedRows DEF reject, shut, Update, Exists
  <2> QED
    BY <1>1, <1>4, <2>1, EndedStage
<1>8. CASE revoke(c)
  <2>1. CASE link.state = "active" /\ link.operation = c
    <3>1. link'.state # "active"
      BY <1>8, <2>1, RevokedRows DEF revoke, Update
    <3> QED
      BY <1>1, <1>4, <3>1, EndedStage
  <2>2. CASE ~(link.state = "active" /\ link.operation = c)
    <3>1. link' = link
      BY <1>8, <2>2 DEF revoke
    <3>2. ~Unmarked
      BY <1>2, <1>8, <2>2 DEF revoke, RowMatchesStage, Unmarked
    <3> QED
      BY <1>1, <1>3, <3>1, <3>2, EndedStage
  <2> QED
    BY <2>1, <2>2
<1>9. CASE stopFailed(c)
  <2>1. link' = link /\ link.state # "active"
    BY <1>2, <1>9 DEF stopFailed, Update, RowMatchesStage
  <2> QED
    BY <1>1, <1>4, <2>1, EndedStage
<1>10. CASE stopped(c)
  <2>1. link.state # "active"
    BY <1>2, <1>10 DEF stopped, RowMatchesStage
  <2>2. link'.state # "active"
    BY <1>10, <2>1, RevokedRows DEF stopped, Update
  <2> QED
    BY <1>1, <1>4, <2>2, EndedStage
<1> QED
  BY <1>5, <1>6, <1>7, <1>8, <1>9, <1>10

\* The transactions that move a handler on, or end it.
LEMMA MoveStages ==
  ASSUME LinkTypeOK, PublishedInv, ~excused, ~excused', NEW c \in LifecycleCalls,
         \/ activateInvalid(c) \/ resume(c) \/ finish(c) \/ deactivate(c) \/ cleanup(c)
         \/ confirm(c) \/ compensate(c)
  PROVE  PublishedInv'
<1>1. handler[c].at \notin WithoutHandler /\ gateway' = gateway
  BY DEF activateInvalid, resume, finish, deactivate, cleanup, confirm, compensate, WithoutHandler,
         HandlerAt
<1>2. lifecycle = c /\ RowMatchesStage(c)
  BY <1>1, HolderStage
<1>3. ASSUME NEW at, ThenAt(c, at),
             /\ handler'[c].at = at /\ handler'[c].op = handler[c].op
             /\ handler'[c].row = handler[c].row /\ handler'[c].request = handler[c].request
             => RowMatchesStage(c)'
      PROVE  PublishedInv'
  BY <1>1, <1>3, NextStage, StageAfter
<1>4. ASSUME EndHandler(c), Unmarked' => Published'
      PROVE  PublishedInv'
  BY <1>1, <1>4, EndedStage
<1>5. ASSUME ThenAt(c, "cutoff") \/ ThenAt(c, "reject")
      PROVE  PublishedInv'
  BY <1>3, <1>5 DEF RowMatchesStage, Compensating
<1>6. ASSUME ThenAt(c, "backout"), link' = link, ~Unmarked
      PROVE  PublishedInv'
  BY <1>3, <1>6 DEF RowMatchesStage, Compensating, Unmarked
<1>7. CASE activateInvalid(c)
  <2>1. CASE ThenAt(c, "expel")
    BY <1>1, <1>2, <1>3, <1>7, <2>1
    DEF activateInvalid, KeepRow, HandlerAt, RowMatchesStage, Compensating, Unmarked, Published,
        MappingOf
  <2> QED
    BY <1>5, <1>7, <2>1 DEF activateInvalid
<1>8. CASE resume(c)
  BY <1>1, <1>2, <1>3, <1>8
  DEF resume, KeepRow, HandlerAt, RowMatchesStage, Compensating, Resumed, ReadRow
<1>9. CASE deactivate(c)
  <2>1. link'.state # "active" /\ ThenAt(c, "withdraw")
    BY <1>9, RevokedRows DEF deactivate, Update
  <2> QED
    BY <1>3, <2>1 DEF RowMatchesStage, Compensating
<1>10. CASE finish(c)
  <2>1. Marked(c) /\ Published
    BY <1>2, <1>10 DEF finish, RowMatchesStage
  <2>2. StillMine(c)
    BY <2>1 DEF StillMine, Marked
  <2>3. CASE link' = [link EXCEPT !.operation = NoCall]
    <3>1. MappingOf(link') = MappingOf(link)
      BY <2>3 DEF LinkTypeOK, LinkRow, MappingOf
    <3>2. Published'
      BY <1>1, <2>1, <3>1 DEF Published, MappingOf
    <3>3. EndHandler(c) \/ excused'
      BY <1>10, <2>2, <2>3, <2>1, ChannelConnectionsAssumption
      DEF finish, Marked, KeepRow, LinkTypeOK, LinkRow
    <3> QED
      BY <1>4, <3>2, <3>3
  <2>4. CASE link' = link /\ ThenAt(c, "undo")
    BY <1>3, <2>1, <2>4 DEF RowMatchesStage, Compensating, Marked
  <2> QED
    BY <1>10, <2>2, <2>3, <2>4 DEF finish, Update
<1>11. ASSUME Clear(c), Published
       PROVE  Published'
  <2>1. link' = [link EXCEPT !.decision = NoCall]
    BY <1>11 DEF Clear, Update
  <2>2. MappingOf(link') = MappingOf(link)
    BY <2>1 DEF LinkTypeOK, LinkRow, MappingOf
  <2> QED
    BY <1>1, <1>11, <2>2 DEF Published, MappingOf
<1>12. CASE cleanup(c)
  <2>1. Published
    BY <1>2, <1>12 DEF cleanup, HandlerAt, RowMatchesStage
  <2> QED
    BY <1>4, <1>5, <1>11, <1>12, <2>1 DEF cleanup
<1>13. CASE confirm(c)
  <2>1. Published /\ Resumed(c)
    BY <1>2, <1>13 DEF confirm, RowMatchesStage
  <2>2. CASE Clear(c) /\ EndHandler(c)
    BY <1>4, <1>11, <2>1, <2>2
  <2>3. CASE KeepRow /\ ThenAt(c, "backout")
    BY <1>6, <2>1, <2>3 DEF KeepRow, Resumed, Unmarked
  <2> QED
    BY <1>13, <2>2, <2>3 DEF confirm
<1>14. CASE compensate(c)
  <2> DEFINE back == [link EXCEPT !.allow = ReadRow(c).allow, !.binding = ReadRow(c).binding,
                                  !.operation = ReadRow(c).operation,
                                  !.decision = ReadRow(c).decision]
  <2>1. CASE ThenAt(c, "cutoff")
    BY <1>5, <2>1
  <2>2. CASE handler[c].at = "compensate" /\ link' = back /\ EndHandler(c)
    <3>1. Approved(c) /\ gateway = MappingOf(ReadRow(c))
      BY <1>2, <2>2 DEF RowMatchesStage, Compensating
    <3>2. /\ ReadRow(c) \in LinkRow /\ link.epoch = ReadRow(c).epoch
          /\ link.agent = ReadRow(c).agent
      BY <3>1, HandlerRows DEF Approved, Widened, LinkRow
    <3>3. /\ back.binding = ReadRow(c).binding /\ back.allow = ReadRow(c).allow
          /\ back.epoch = ReadRow(c).epoch /\ back.agent = ReadRow(c).agent
      BY <3>2 DEF LinkTypeOK, LinkRow
    <3> HIDE DEF back
    <3>4. MappingOf(link') = MappingOf(ReadRow(c))
      BY <2>2, <3>3 DEF MappingOf
    <3>5. Published'
      BY <1>1, <3>1, <3>4 DEF Published, MappingOf
    <3> QED
      BY <1>4, <2>2, <3>5
  <2> QED
    BY <1>14, <2>1, <2>2 DEF compensate, Update
<1> QED
  BY <1>7, <1>8, <1>9, <1>10, <1>12, <1>13, <1>14

\* A request that begins to work: it keeps the lease.
LEMMA BegunStage ==
  ASSUME LinkTypeOK, PublishedInv, ~excused, NEW c \in LifecycleCalls, NEW at, NEW row,
         handler[c].at = "read", lifecycle' = lifecycle,
         handler' = [handler EXCEPT ![c].row = row, ![c].at = at],
         /\ handler'[c].at = at /\ handler'[c].op = handler[c].op
         /\ handler'[c].row = row /\ handler'[c].request = handler[c].request
         => RowMatchesStage(c)'
  PROVE  PublishedInv'
<1>1. /\ handler'[c].at = at /\ handler'[c].op = handler[c].op
      /\ handler'[c].row = row /\ handler'[c].request = handler[c].request
      /\ \A d \in LifecycleCalls \ {c} : handler'[d] = handler[d]
  BY DEF LinkTypeOK, HandlerRow
<1>2. lifecycle = c
  BY HolderStage DEF WithoutHandler
<1> QED
  BY <1>1, <1>2, StageStep, ChannelConnectionsAssumption DEF WithoutHandler

LEMMA retryStage ==
  ASSUME LinkTypeOK, PublishedInv, ~excused, NEW c \in LifecycleCalls,
         NEW anew \in BOOLEAN, NEW valid \in BOOLEAN, retry(c, anew, valid)
  PROVE  PublishedInv'
<1> DEFINE restarted == valid /\ link.state = "active"
           row == [link EXCEPT !.state = IF valid THEN @ ELSE "inactive",
                               !.epoch = IF anew THEN c ELSE @,
                               !.binding = IF restarted THEN c ELSE @,
                               !.operation = IF restarted THEN c ELSE @]
<1>1. link' = row /\ handler[c].op = "retry" /\ handler[c].at = "read"
  BY DEF retry, Update, HandlerAt
<1>2. /\ row.state = IF valid THEN link.state ELSE "inactive"
      /\ restarted => row.operation = c
  <2> DEFINE state == IF valid THEN link.state ELSE "inactive"
             epoch == IF anew THEN c ELSE link.epoch
             binding == IF restarted THEN c ELSE link.binding
             operation == IF restarted THEN c ELSE link.operation
  <2>1. row = [link EXCEPT !.state = state, !.epoch = epoch, !.binding = binding,
                           !.operation = operation]
    BY DEF LinkTypeOK, LinkRow
  <2>2. restarted => operation = c
    OBVIOUS
  <2> HIDE DEF row, epoch, binding, operation, restarted
  <2> QED
    BY <2>1, <2>2, Zenon DEF LinkTypeOK, LinkRow
<1>3. CASE link.state = "active"
  <2>1. /\ handler' = [handler EXCEPT ![c].row = row, ![c].at = IF valid THEN "detach" ELSE "backout"]
        /\ lifecycle' = lifecycle
    BY <1>3 DEF retry
  <2> HIDE DEF row
  <2>2. CASE valid
    BY <1>1, <1>2, <1>3, <2>1, <2>2, BegunStage DEF RowMatchesStage, Compensating, Marked, ReadRow
  <2>3. CASE ~valid
    BY <1>1, <1>2, <2>1, <2>3, BegunStage DEF RowMatchesStage, Compensating, Unmarked
  <2> QED
    BY <2>2, <2>3
<1>4. CASE link.state # "active"
  <2>1. EndHandler(c)
    BY <1>4 DEF retry
  <2> HIDE DEF row
  <2>2. ~Unmarked'
    BY <1>1, <1>2, <1>4 DEF Unmarked
  <2> QED
    BY <1>1, <2>1, <2>2, EndedStage DEF WithoutHandler
<1> QED
  BY <1>3, <1>4

LEMMA activateStage ==
  ASSUME LinkTypeOK, PublishedInv, ~excused, NEW c \in LifecycleCalls,
         NEW body \in SUBSET Listed, activate(c, body)
  PROVE  PublishedInv'
<1> DEFINE row == [link EXCEPT !.state = "active", !.binding = c, !.allow = body,
                               !.operation = c, !.decision = NoCall]
<1>1. row.state = "active" /\ row.operation = c
  BY DEF LinkTypeOK, LinkRow
<1>2. /\ link' = row /\ handler[c].op = "activate" /\ handler[c].at = "read"
      /\ lifecycle' = lifecycle
      /\ handler' = [handler EXCEPT ![c].row = row, ![c].at = "publish"]
  BY DEF activate, Update, HandlerAt
<1> HIDE DEF row
<1> QED
  BY <1>1, <1>2, BegunStage DEF RowMatchesStage, Compensating, Marked, ReadRow

LEMMA approveStage ==
  ASSUME LinkTypeOK, PublishedInv, ~excused, NEW c \in LifecycleCalls, approve(c)
  PROVE  PublishedInv'
<1>1. /\ link' = [Widened(link, c) EXCEPT !.decision = c]
      /\ handler[c].op = "approve" /\ handler[c].at = "read"
      /\ handler' = [handler EXCEPT ![c].row = link, ![c].at = "publish"]
      /\ lifecycle' = lifecycle /\ link.state = "active"
  BY DEF approve, Update, HandlerAt
<1>2. link'.state = "active"
  BY <1>1 DEF LinkTypeOK, LinkRow, Widened
<1>3. handler'[c].row = link /\ handler'[c].request = handler[c].request => Approved(c)'
  BY <1>1, <1>2 DEF Approved, Widened, Peer, ReadRow
<1> QED
  BY <1>1, <1>3, BegunStage DEF RowMatchesStage, Compensating

\* Nothing that the invariant reads has changed.
LEMMA SameStage ==
  ASSUME NEW c \in LifecycleCalls, RowMatchesStage(c), link' = link, gateway' = gateway,
         handler'[c] = handler[c]
  PROVE  RowMatchesStage(c)'
<1>1. ReadRow(c)' = ReadRow(c) /\ Peer(c)' = Peer(c)
  BY DEF ReadRow, Peer
<1>2. Approved(c) => Approved(c)'
  BY <1>1 DEF Approved, Widened
<1>3. Marked(c) => Marked(c)'
  BY <1>1 DEF Marked
<1>4. Resumed(c) => Resumed(c)'
  BY <1>1 DEF Resumed
<1>5. (Unmarked' <=> Unmarked) /\ (Published' <=> Published)
  BY DEF Unmarked, Published, MappingOf
<1>6. gateway = MappingOf(ReadRow(c)) => gateway' = MappingOf(ReadRow(c))'
  BY <1>1 DEF MappingOf
<1> QED
  BY <1>1, <1>2, <1>3, <1>4, <1>5, <1>6 DEF RowMatchesStage

LEMMA SameStages ==
  ASSUME PublishedInv, UNCHANGED <<link, gateway, lifecycle, excused>>,
         \A d \in LifecycleCalls : handler'[d] = handler[d] \/ handler'[d].at \in WithoutHandler
  PROVE  PublishedInv'
BY SameStage DEF PublishedInv, Unmarked, Published, MappingOf

\* A request takes the lease; a report waits for it.
LEMMA ArrivalStages ==
  ASSUME LinkTypeOK, PublishedInv, ~excused, NEW c \in LifecycleCalls,
         \/ Report(c)
         \/ \E op \in Operations, q \in Pairings \cup {NoCall} : enter(c, op, q)
         \/ \E fatal \in BOOLEAN : runtimeStatus(c, fatal)
  PROVE  PublishedInv'
<1>1. CASE Report(c)
  <2>1. /\ handler[c].at = "idle"
        /\ UNCHANGED <<link, gateway, lifecycle, excused>>
    BY <1>1 DEF Report, KeepRow
  <2>2. handler'[c].at \in WithoutHandler /\ \A d \in LifecycleCalls \ {c} : handler'[d] = handler[d]
    BY <1>1 DEF Report, LinkTypeOK, HandlerRow, WithoutHandler
  <2> QED
    BY <2>1, <2>2, SameStages
<1>2. ASSUME NEW op \in Operations, NEW q \in Pairings \cup {NoCall}, enter(c, op, q)
      PROVE  PublishedInv'
  <2> DEFINE new == [op |-> op, at |-> "read", row |-> link, request |-> q]
  <2>1. /\ lifecycle = NoCall /\ lifecycle' = c /\ link' = link /\ gateway' = gateway
        /\ handler' = [handler EXCEPT ![c] = new]
        /\ new.op = "approve" => link.state = "active"
        /\ new.at = "read" /\ new.row = link
    BY <1>2 DEF enter
  <2> HIDE DEF new
  <2>2. handler'[c] = new /\ \A d \in LifecycleCalls \ {c} : handler'[d] = handler[d]
    BY <2>1 DEF LinkTypeOK
  <2>3. Unmarked => Published
    BY <2>1 DEF PublishedInv
  <2>4. RowMatchesStage(c)'
    BY <2>1, <2>2, <2>3
    DEF RowMatchesStage, Compensating, Unmarked, Published, MappingOf, ReadRow
  <2> QED
    BY <2>1, <2>2, <2>4, ChannelConnectionsAssumption, StageStep
<1>3. ASSUME NEW fatal \in BOOLEAN, runtimeStatus(c, fatal)
      PROVE  PublishedInv'
  <2>1. lifecycle = NoCall /\ gateway' = gateway /\ (Unmarked => Published)
    BY <1>3 DEF runtimeStatus, PublishedInv
  <2>2. ASSUME link' = link PROVE Unmarked' => Published'
    BY <2>1, <2>2 DEF Unmarked, Published, MappingOf
  <2>3. CASE EndHandler(c)
    <3>1. link' = link \/ link'.state # "active"
      BY <1>3 DEF runtimeStatus, Update, LinkTypeOK, LinkRow
    <3> QED
      BY <2>1, <2>2, <2>3, <3>1, EndedStage DEF Unmarked
  <2>4. CASE /\ fatal /\ link' = [link EXCEPT !.state = "inactive"]
             /\ handler' = [handler EXCEPT ![c].at = "backout"] /\ lifecycle' = c
    <3>1. handler'[c].at = "backout" /\ \A d \in LifecycleCalls \ {c} : handler'[d] = handler[d]
      BY <2>4 DEF LinkTypeOK, HandlerRow
    <3>2. ~Unmarked'
      BY <2>4, RevokedRows DEF Unmarked
    <3>3. RowMatchesStage(c)'
      BY <3>1, <3>2 DEF RowMatchesStage, Compensating, Unmarked
    <3> QED
      BY <2>1, <2>4, <3>2, <3>3, <3>1, StageStep
  <2> QED
    BY <1>3, <2>3, <2>4 DEF runtimeStatus, Update
<1> QED
  BY <1>1, <1>2, <1>3

\* What takes no lease.
LEMMA LeaselessStages ==
  ASSUME LinkTypeOK, PublishedInv, ~excused,
         \/ \E q \in Pairings : runtimePairing(q) \/ deny(q) \/ PairingExpires(q)
         \/ \E agent \in Agents : attach(agent)
  PROVE  PublishedInv'
<1>1. UNCHANGED <<gateway, lifecycle, handler, excused>>
  BY DEF runtimePairing, deny, PairingExpires, Decide, attach
<1>2. CASE link' = link
  BY <1>1, <1>2, SameStages
<1>3. ASSUME NEW agent \in Agents, attach(agent)
      PROVE  PublishedInv'
  <2>1. link' = [link EXCEPT !.agent = agent] /\ link.state = "inactive"
    BY <1>3 DEF attach, Update
  <2>2. link'.state # "active" /\ link'.operation = link.operation
    BY <2>1 DEF LinkTypeOK, LinkRow
  <2>3. ASSUME NEW c \in LifecycleCalls, RowMatchesStage(c)
        PROVE  RowMatchesStage(c)'
    <3>1. ~Marked(c) /\ ~Approved(c) /\ ~Resumed(c) /\ ~Unmarked'
      BY <2>1, <2>2 DEF Marked, Approved, Resumed, Unmarked
    <3> QED
      BY <1>1, <2>1, <2>2, <2>3, <3>1 DEF RowMatchesStage, Compensating
  <2> QED
    BY <1>1, <2>2, <2>3 DEF PublishedInv, Unmarked
<1> QED
  BY <1>2, <1>3 DEF runtimePairing, deny, PairingExpires, Decide

LEMMA InitPublishedInv ==
  ASSUME ConnectionsInit
  PROVE  PublishedInv
<1>1. /\ NoCalls
      /\ \A c \in LifecycleCalls : handler[c].at = "idle"
  BY DEF ConnectionsInit, NoCalls, Idle
<1>2. Unmarked => Published
  BY <1>1 DEF NoCalls, Unmarked, Published
<1> QED
  BY <1>1, <1>2 DEF PublishedInv, WithoutHandler

LEMMA NextPublishedInv ==
  LinkInv /\ PublishedInv /\ [ConnectionsNext]_connectionVars => PublishedInv'
<1> SUFFICES ASSUME LinkInv, PublishedInv, [ConnectionsNext]_connectionVars, ~excused'
             PROVE  PublishedInv'
  BY DEF PublishedInv
<1>1. LinkTypeOK
  BY DEF LinkInv
<1>2. ASSUME NEW c \in LifecycleCalls, ConnectionStep(c)
      PROVE  PublishedInv'
  <2>1. CASE \/ refuseRequest(c) \/ HandlerDies(c) \/ reject(c) \/ revoke(c) \/ stopFailed(c)
             \/ shut(c) \/ stopped(c)
    <3>1. ~excused
      BY <2>1 DEF refuseRequest, HandlerDies, reject, revoke, stopFailed, shut, stopped
    <3> QED
      BY <1>1, <2>1, <3>1, EndStages
  <2>2. CASE \/ activateInvalid(c) \/ resume(c) \/ finish(c) \/ deactivate(c) \/ cleanup(c)
             \/ confirm(c) \/ compensate(c)
    <3>1. ~excused
      BY <2>2 DEF activateInvalid, resume, finish, deactivate, cleanup, confirm, compensate
    <3> QED
      BY <1>1, <2>2, <3>1, MoveStages
  <2>3. CASE \/ detach(c) \/ publishAccount(c) \/ undo(c) \/ backOut(c) \/ expel(c) \/ withdraw(c)
             \/ apply(c) \/ restore(c) \/ abandon(c) \/ cutOff(c) \/ reapply(c)
    <3>1. ~excused
      BY <2>3 DEF detach, publishAccount, undo, backOut, expel, withdraw, apply, restore, abandon,
                  cutOff, reapply, ensureHostedChannelAccount, removeHostedChannelAccount, sync
    <3> QED
      BY <1>1, <2>3, <3>1, SyncStages
  <2>4. CASE \E anew, valid \in BOOLEAN : retry(c, anew, valid)
    <3> PICK anew \in BOOLEAN, valid \in BOOLEAN : retry(c, anew, valid)
      BY <2>4
    <3>1. ~excused
      BY DEF retry
    <3> QED
      BY <1>1, <3>1, retryStage
  <2>5. CASE \E body \in SUBSET Listed : activate(c, body)
    <3> PICK body \in SUBSET Listed : activate(c, body)
      BY <2>5
    <3>1. ~excused
      BY DEF activate
    <3> QED
      BY <1>1, <3>1, activateStage
  <2>6. CASE approve(c)
    <3>1. ~excused
      BY <2>6 DEF approve
    <3> QED
      BY <1>1, <2>6, <3>1, approveStage
  <2>7. CASE \/ Report(c)
             \/ \E op \in Operations, q \in Pairings \cup {NoCall} : enter(c, op, q)
             \/ \E fatal \in BOOLEAN : runtimeStatus(c, fatal)
    <3>1. ~excused
      BY <2>7 DEF Report, enter, runtimeStatus
    <3> QED
      BY <1>1, <2>7, <3>1, ArrivalStages
  <2> QED
    BY <1>2, <2>1, <2>2, <2>3, <2>4, <2>5, <2>6, <2>7 DEF ConnectionStep
<1>3. CASE \/ \E q \in Pairings : runtimePairing(q) \/ deny(q) \/ PairingExpires(q)
           \/ \E agent \in Agents : attach(agent)
  <2>1. ~excused
    BY <1>3 DEF runtimePairing, deny, PairingExpires, Decide, attach
  <2> QED
    BY <1>1, <1>3, <2>1, LeaselessStages
<1>4. CASE SessionLost
  BY <1>4 DEF SessionLost
<1>5. CASE UNCHANGED connectionVars
  BY <1>5, SameStages DEF connectionVars
<1> QED
  BY <1>2, <1>3, <1>4, <1>5 DEF ConnectionsNext

\* An active row without a marker that nobody works on has its account in the
\* gateway, with its generation, senders, agent and credential: every handler
\* leaves a marker or revokes the row when it cannot publish it.
THEOREM ActiveIsPublishedThm ==
  ConnectionsSpec => []ActiveIsPublished
<1>1. ConnectionsInit => LinkInv /\ PublishedInv
  BY InitLinkInv, InitPublishedInv
<1>2. LinkInv /\ PublishedInv /\ [ConnectionsNext]_connectionVars => LinkInv' /\ PublishedInv'
  BY NextLinkInv, NextPublishedInv
<1>3. PublishedInv => ActiveIsPublished
  BY DEF PublishedInv, ActiveIsPublished, Unmarked, Published
<1> QED
  BY <1>1, <1>2, <1>3, PTL DEF ConnectionsSpec

================================================================================
