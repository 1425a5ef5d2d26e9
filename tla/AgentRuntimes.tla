---------------------------- MODULE AgentRuntimes ----------------------------
(***************************************************************************)
(* One agent's runtime: the workspace files and the OpenClaw configuration *)
(* that are rendered from its row in agents.  Provisioning workers build   *)
(* it once (apps/api/src/services/agent-provisioning.ts); afterwards every *)
(* edit raises runtime_sync_version and a request or the scheduler renders *)
(* the row again (agent-runtime-sync.ts).  An edit of SOUL.md in the       *)
(* workspace browser goes the other way (routes/workspace.ts).             *)
(*                                                                         *)
(* A build and a synchronization have each an advisory lock of a database  *)
(* session, which is gone when its process dies, and a claim under a lease *)
(* in the row, which is not.  The content of a part of the runtime is the  *)
(* revision of the row it was rendered from.                               *)
(*                                                                         *)
(* A row whose next attempt is not due is a tick that does not happen.     *)
(***************************************************************************)
EXTENDS LeasedJobs, Integers

CONSTANTS
  Builders,          \* provisioning workers, one in each process
  Requesters,        \* requests of the owner
  Schedulers,        \* AgentRuntimeSyncScheduler, one in each process
  ChatBuilders,      \* chats with an agent that is not ready
  HostOf,            \* the process of each
  MaxRevision,       \* bound: edits
  MaxRuntimeFaults   \* bound: failed or unacknowledged calls, crashes, lapses
                     \* of a build that is under way

Syncers == Requesters \cup Schedulers
RuntimeActors == Builders \cup Syncers \cup ChatBuilders
Parts == {"persona", "model", "skills", "tools"}
MaxRounds == 3
NotYet == -1
Unsaved == MaxRevision + 1  \* a SOUL.md whose save has not committed

ASSUME RuntimesAssumption ==
  /\ MaxRevision \in Nat /\ MaxRuntimeFaults \in Nat
  /\ NoHolder \notin RuntimeActors

VARIABLES
  agent,        \* agents: provision_status, the two sync versions, the sync
                \* claim's token and whether its lease has not expired
  build,        \* agent_provision_jobs
  buildLapsed,  \* claim_expires_at has passed
  runtime,      \* the revision that each part shows
  buildLock, runtimeLock,  \* the two advisory locks
  stage, rev, rounds,      \* of each actor; the revision it has read
  runtimeFaults

runtimeRows == <<agent, build, buildLapsed>>
runtimeLocks == <<buildLock, runtimeLock>>
runtimeVars == <<runtimeRows, runtime, runtimeLocks, stage, rev, rounds, runtimeFaults>>

RuntimesInit ==
  /\ agent = [status |-> "provisioning", version |-> 0, synced |-> 0,
              token |-> NoHolder, leased |-> FALSE]
  /\ build = NewJob /\ buildLapsed = FALSE
  /\ runtime = [part \in Parts |-> NotYet]
  /\ buildLock = NoHolder /\ runtimeLock = NoHolder
  /\ stage = [p \in RuntimeActors |-> "idle"]
  /\ rev = [p \in RuntimeActors |-> 0]
  /\ rounds = [p \in RuntimeActors |-> 0]
  /\ runtimeFaults = 0

AtStage(p, s) == stage[p] = s
Go(p, s) == stage' = [stage EXCEPT ![p] = s]
LockLeftBy(lock, p) == IF lock = p THEN NoHolder ELSE lock

RuntimeFault == runtimeFaults < MaxRuntimeFaults /\ runtimeFaults' = runtimeFaults + 1

\* A transaction commits; or it fails, or its acknowledgement is lost.
RowTx(tx, done, handler) ==
  \/ tx /\ done /\ UNCHANGED runtimeFaults
  \/ RuntimeFault /\ (tx \/ UNCHANGED runtimeRows) /\ handler

\* A write outside the database succeeds, or fails before or after its effect.
Writes(written, done, handler) ==
  \/ runtime' = written /\ done /\ UNCHANGED runtimeFaults
  \/ RuntimeFault /\ runtime' \in {runtime, written} /\ handler

\* The runtime's lock is released.
Leave(p) ==
  /\ Go(p, "idle") /\ runtimeLock' = LockLeftBy(runtimeLock, p)
  /\ UNCHANGED <<rev, rounds>>

IsFree(lock) == lock = NoHolder

-----------------------------------------------------------------------------
(* The owner's requests.                                                   *)

SaveIsOpen == \E p \in Requesters : AtStage(p, "save")

\* PATCH, a repair, a selection of skills: the revision is committed before
\* anything is rendered, and the lease ends.
editAgent(p) ==
  /\ p \in Requesters /\ AtStage(p, "idle")
  /\ agent.version < MaxRevision /\ ~SaveIsOpen
  /\ agent' = [agent EXCEPT !.version = @ + 1, !.leased = FALSE]
  /\ Go(p, IF agent.status = "ready" THEN "lock" ELSE "idle")
  /\ UNCHANGED <<build, buildLapsed, runtime, runtimeLocks, rev, rounds, runtimeFaults>>

\* A save of SOUL.md does not wait for the lock; it holds the agent's row
\* while it writes the file.
beginSave(p) ==
  /\ p \in Requesters /\ AtStage(p, "idle")
  /\ agent.version < MaxRevision
  /\ agent.status = "ready" /\ IsFree(runtimeLock)
  /\ runtimeLock' = p
  /\ runtime' = [runtime EXCEPT !.persona = Unsaved]
  /\ Go(p, "save")
  /\ UNCHANGED <<runtimeRows, buildLock, rev, rounds, runtimeFaults>>

commitSave(p) ==
  /\ AtStage(p, "save")
  /\ \/ /\ agent' = [agent EXCEPT !.version = @ + 1]
        /\ runtime' = [runtime EXCEPT !.persona = agent.version + 1]
        /\ UNCHANGED runtimeFaults
     \/ RuntimeFault /\ UNCHANGED <<agent, runtime>>
  /\ Leave(p)
  /\ UNCHANGED <<build, buildLapsed, buildLock>>

\* POST retry-provision: a new job in place of the failed one.
retryProvision(p) ==
  /\ p \in Requesters /\ AtStage(p, "idle")
  /\ agent.status = "failed" /\ build.state = "failed"
  /\ build' = NewJob /\ buildLapsed' = FALSE
  /\ agent' = [agent EXCEPT !.status = "provisioning"]
  /\ UNCHANGED <<runtime, runtimeLocks, stage, rev, rounds, runtimeFaults>>

-----------------------------------------------------------------------------
(* reconcileAgentRuntime.                                                  *)

scheduleSync(p) ==
  /\ p \in Schedulers /\ AtStage(p, "idle")
  /\ agent.version > agent.synced /\ agent.status = "ready" /\ ~agent.leased
  /\ Go(p, "lock")
  /\ UNCHANGED <<runtimeRows, runtime, runtimeLocks, rev, rounds, runtimeFaults>>

\* The database may cancel a statement that waits for a lock.
lockRuntime(p) ==
  /\ AtStage(p, "lock")
  /\ \/ /\ IsFree(runtimeLock)
        /\ runtimeLock' = p /\ rounds' = [rounds EXCEPT ![p] = 1] /\ Go(p, "claim")
     \/ /\ ~IsFree(runtimeLock)
        /\ Go(p, "idle") /\ UNCHANGED <<runtimeLock, rounds>>
  /\ UNCHANGED <<runtimeRows, runtime, buildLock, rev, runtimeFaults>>

\* The token is dropped and the lease becomes the time to the next attempt.
Postponed == [agent EXCEPT !.token = NoHolder, !.leased = TRUE]

claimAgentRuntimeSync(p) ==
  /\ AtStage(p, "claim")
  /\ CASE agent.version <= agent.synced -> Leave(p) /\ UNCHANGED <<runtimeRows, runtimeFaults>>
       [] agent.version > agent.synced /\ agent.status # "ready" ->
            RowTx(agent' = Postponed /\ UNCHANGED <<build, buildLapsed>>, Leave(p), Leave(p))
       [] agent.version > agent.synced /\ agent.status = "ready" /\ agent.leased ->
            Leave(p) /\ UNCHANGED <<runtimeRows, runtimeFaults>>
       [] OTHER ->
            RowTx(/\ agent' = [agent EXCEPT !.token = p, !.leased = TRUE]
                  /\ UNCHANGED <<build, buildLapsed>>,
                  /\ rev' = [rev EXCEPT ![p] = agent.version] /\ Go(p, "persona")
                  /\ UNCHANGED <<runtimeLock, rounds>>,
                  Leave(p))
  /\ UNCHANGED <<runtime, buildLock>>

\* Mutant: the skills are not projected again.
SkillsLeftOut == [persona |-> "model", model |-> "tools", tools |-> "finish"]

NextStage == [persona |-> "model", model |-> "skills", skills |-> "tools", tools |-> "finish"]

\* The skills are those of the row when they are projected.
publish(p) ==
  /\ stage[p] \in Parts
  /\ LET part == stage[p]
         shown == IF part = "skills" THEN agent.version ELSE rev[p]
     IN Writes([runtime EXCEPT ![part] = shown], Go(p, NextStage[part]), Go(p, "failed"))
  /\ UNCHANGED <<runtimeRows, runtimeLocks, rev, rounds>>

RenderedRevision(p) == rev[p]

\* The newest revision is rendered under the same lock, three times at most.
finishRuntimeSync(p) ==
  /\ AtStage(p, "finish")
  /\ IF agent.token = p
     THEN RowTx(/\ agent' = [agent EXCEPT
                     !.synced = IF @ < RenderedRevision(p) THEN RenderedRevision(p) ELSE @,
                     !.token = NoHolder, !.leased = FALSE]
                /\ UNCHANGED <<build, buildLapsed>>,
                IF agent.version > rev[p] /\ rounds[p] < MaxRounds
                THEN /\ rounds' = [rounds EXCEPT ![p] = @ + 1] /\ Go(p, "claim")
                     /\ UNCHANGED <<runtimeLock, rev>>
                ELSE Leave(p),
                Go(p, "failed") /\ UNCHANGED <<runtimeLock, rev, rounds>>)
     ELSE Leave(p) /\ UNCHANGED <<runtimeRows, runtimeFaults>>
  /\ UNCHANGED <<runtime, buildLock>>

failRuntimeSync(p) ==
  /\ AtStage(p, "failed")
  /\ IF agent.token = p
     THEN RowTx(agent' = Postponed /\ UNCHANGED <<build, buildLapsed>>, Leave(p), Leave(p))
     ELSE Leave(p) /\ UNCHANGED <<runtimeRows, runtimeFaults>>
  /\ UNCHANGED <<runtime, buildLock>>

SyncLeaseLapses ==
  /\ agent.leased
  /\ agent' = [agent EXCEPT !.leased = FALSE]
  /\ UNCHANGED <<build, buildLapsed, runtime, runtimeLocks, stage, rev, rounds, runtimeFaults>>

-----------------------------------------------------------------------------
(* AgentProvisioningWorker.                                                *)

\* A lapsed claim is taken over, however many attempts there were.
claimBuild(b) ==
  /\ b \in Builders /\ AtStage(b, "idle")
  /\ build.state = "pending" \/ (build.state = "claimed" /\ buildLapsed)
  /\ IF agent.status = "provisioning"
     THEN RowTx(build' = ClaimedBy(build, b) /\ buildLapsed' = FALSE /\ UNCHANGED agent,
                rev' = [rev EXCEPT ![b] = agent.version] /\ Go(b, "wait"),
                UNCHANGED <<rev, stage>>)
     ELSE /\ build' = [build EXCEPT !.state = "failed", !.holder = NoHolder]
          /\ UNCHANGED <<agent, buildLapsed, rev, stage, runtimeFaults>>
  /\ UNCHANGED <<runtime, runtimeLocks, rounds>>

StillClaimed(b) == HoldsClaim(build, b)

withAgentProvisionLock(b) ==
  /\ AtStage(b, "wait")
  /\ \/ /\ IsFree(buildLock)
        /\ IF StillClaimed(b) THEN buildLock' = b /\ Go(b, "register")
           ELSE Go(b, "idle") /\ UNCHANGED buildLock
     \/ ~IsFree(buildLock) /\ Go(b, "giveUp") /\ UNCHANGED buildLock
  /\ UNCHANGED <<runtimeRows, runtime, runtimeLock, rev, rounds, runtimeFaults>>

\* The exception leaves the lock.
GiveUp(b) == Go(b, "giveUp") /\ buildLock' = LockLeftBy(buildLock, b)

\* provisionAgent registers the agent, then renders the files: over what is
\* there if it was not registered.
Registered(r) ==
  [runtime EXCEPT !.model = r,
                  !.persona = IF runtime.model = NotYet \/ @ = NotYet THEN r ELSE @]

provisionAgent(b) ==
  /\ AtStage(b, "register")
  /\ \/ Writes(Registered(rev[b]), Go(b, "install") /\ UNCHANGED buildLock, GiveUp(b))
     \/ /\ RuntimeFault /\ GiveUp(b)
        /\ runtime' = [runtime EXCEPT !.model = rev[b]]
  /\ UNCHANGED <<runtimeRows, runtimeLock, rev, rounds>>

\* The projection of the skills does not wait for the lock either.
installDefaultAgentSkills(b) ==
  /\ AtStage(b, "install")
  /\ IF IsFree(runtimeLock)
     THEN Writes([runtime EXCEPT !.skills = agent.version],
                 Go(b, "equip") /\ UNCHANGED buildLock, GiveUp(b))
     ELSE GiveUp(b) /\ UNCHANGED <<runtime, runtimeFaults>>
  /\ UNCHANGED <<runtimeRows, runtimeLock, rev, rounds>>

syncAgentToolGroups(b) ==
  /\ AtStage(b, "equip")
  /\ Writes([runtime EXCEPT !.tools = rev[b]], Go(b, "ready") /\ UNCHANGED buildLock, GiveUp(b))
  /\ UNCHANGED <<runtimeRows, runtimeLock, rev, rounds>>

\* The job and the agent change together, or not at all.
finishReady(b) ==
  /\ b \in Builders /\ AtStage(b, "ready")
  /\ IF ~HoldsClaim(build, b)
     THEN /\ Go(b, "idle") /\ buildLock' = LockLeftBy(buildLock, b)
          /\ UNCHANGED <<runtimeRows, runtimeFaults>>
     ELSE IF agent.status # "provisioning"
     THEN GiveUp(b) /\ UNCHANGED <<runtimeRows, runtimeFaults>>
     ELSE RowTx(/\ build' = Succeeded(build) /\ agent' = [agent EXCEPT !.status = "ready"]
                /\ UNCHANGED buildLapsed,
                Go(b, "idle") /\ buildLock' = LockLeftBy(buildLock, b), GiveUp(b))
  /\ UNCHANGED <<runtime, runtimeLock, rev, rounds>>

finishFailure(b) ==
  /\ b \in Builders /\ AtStage(b, "giveUp")
  /\ LET next == Released(build)
     IN IF HoldsClaim(build, b) /\ (next.state = "failed" => agent.status = "provisioning")
        THEN RowTx(/\ build' = next /\ buildLapsed' = FALSE
                   /\ agent' = IF next.state = "failed" THEN [agent EXCEPT !.status = "failed"]
                               ELSE agent,
                   TRUE, TRUE)
        ELSE UNCHANGED <<runtimeRows, runtimeFaults>>
  /\ Go(b, "idle")
  /\ UNCHANGED <<runtime, runtimeLocks, rev, rounds>>

\* The worker's heartbeat keeps the claim, unless it fails.
BuildLapses ==
  /\ build.state = "claimed" /\ ~buildLapsed
  /\ buildLapsed' = TRUE
  /\ IF AtStage(build.holder, "idle") THEN UNCHANGED runtimeFaults ELSE RuntimeFault
  /\ UNCHANGED <<agent, build, runtime, runtimeLocks, stage, rev, rounds>>

-----------------------------------------------------------------------------
(* A crash.                                                                *)

\* The locks go with the sessions of the process.
HostCrash(h) ==
  /\ RuntimeFault
  /\ \E p \in RuntimeActors : HostOf[p] = h /\ ~AtStage(p, "idle")
  /\ stage' = [p \in RuntimeActors |-> IF HostOf[p] = h THEN "idle" ELSE stage[p]]
  /\ buildLock' = IF ~IsFree(buildLock) /\ HostOf[buildLock] = h THEN NoHolder ELSE buildLock
  /\ runtimeLock' = IF ~IsFree(runtimeLock) /\ HostOf[runtimeLock] = h THEN NoHolder
                    ELSE runtimeLock
  /\ UNCHANGED <<runtimeRows, runtime, rev, rounds>>

SyncStep(p) ==
  \/ scheduleSync(p) \/ commitSave(p) \/ lockRuntime(p) \/ claimAgentRuntimeSync(p)
  \/ publish(p) \/ finishRuntimeSync(p) \/ failRuntimeSync(p)

BuildStep(b) ==
  \/ claimBuild(b) \/ withAgentProvisionLock(b) \/ provisionAgent(b)
  \/ installDefaultAgentSkills(b) \/ syncAgentToolGroups(b) \/ finishReady(b)
  \/ finishFailure(b)

RuntimesNext ==
  \/ \E p \in Syncers : editAgent(p) \/ beginSave(p) \/ retryProvision(p) \/ SyncStep(p)
  \/ \E b \in Builders : BuildStep(b)
  \/ SyncLeaseLapses \/ BuildLapses
  \/ \E h \in {HostOf[p] : p \in RuntimeActors} : HostCrash(h)

\* Timers start the loops and every call ends, those of a request too: one
\* that never ends would keep the lock.
RuntimesFairness ==
  /\ \A p \in Syncers : WF_runtimeVars(SyncStep(p))
  /\ \A b \in Builders : WF_runtimeVars(BuildStep(b))
  /\ WF_runtimeVars(SyncLeaseLapses) /\ WF_runtimeVars(BuildLapses)

RuntimesSpec == RuntimesInit /\ [][RuntimesNext]_runtimeVars /\ RuntimesFairness

-----------------------------------------------------------------------------
(* ensureChattableAgent (routes/chat.ts): a chat with an agent that is not *)
(* ready builds it at once, under neither lock.                            *)

resolveAgent(c) ==
  /\ c \in ChatBuilders /\ AtStage(c, "idle") /\ agent.status # "ready"
  /\ rev' = [rev EXCEPT ![c] = agent.version] /\ Go(c, "begin")
  /\ UNCHANGED <<runtimeRows, runtime, runtimeLocks, rounds, runtimeFaults>>

\* Its updates of the status have no condition.
SetStatus(c, from, status, to) ==
  /\ c \in ChatBuilders /\ AtStage(c, from)
  /\ agent' = [agent EXCEPT !.status = status] /\ Go(c, to)
  /\ UNCHANGED <<build, buildLapsed, runtime, runtimeLocks, rev, rounds, runtimeFaults>>

ensureChattableAgent(c) ==
  \/ resolveAgent(c) \/ SetStatus(c, "begin", "provisioning", "register")
  \/ provisionAgent(c) \/ installDefaultAgentSkills(c) \/ syncAgentToolGroups(c)
  \/ SetStatus(c, "ready", "ready", "idle") \/ SetStatus(c, "giveUp", "failed", "idle")

ChattedRuntimesSpec ==
  RuntimesInit /\ [][RuntimesNext \/ \E c \in ChatBuilders : ensureChattableAgent(c)]_runtimeVars

-----------------------------------------------------------------------------
(* Properties.                                                             *)

\* agent-runtime-sync.ts: "No older claimant can resume after the authoritative
\* revision and clobber its filesystem/config side effects."  Once an agent is
\* ready no part of its runtime shows an older revision than the one that is
\* recorded as synchronized - whoever crashed, lapsed, was taken over or wrote
\* late, and whatever was edited meanwhile.
RuntimeIsCurrent ==
  agent.status = "ready" => \A part \in Parts : runtime[part] >= agent.synced

\* A build ends ready or failed, and every revision of a ready agent is
\* rendered.
RuntimeIsOpen ==
  \/ ~IsOver(build)
  \/ agent.status = "ready" /\ agent.version > agent.synced
=============================================================================
