------------------------------ MODULE Uploads ------------------------------
(***************************************************************************)
(* One upload session and its object (apps/api/src/services/               *)
(* upload-service.ts and upload-postgres-repository.ts), the provider's    *)
(* multipart upload behind it, and the two workers every API process runs: *)
(* the cleanup of stopped multipart uploads (upload-multipart-cleanup.ts)  *)
(* and the outbox of quarantine events (upload-policy-events.ts).          *)
(*                                                                         *)
(* A part's content is "declared" or "other": wrong bytes, wrong header,   *)
(* or what the policy scanner rejects.  R2 accepts a part only with the    *)
(* checksum that its signed URL binds.                                     *)
(***************************************************************************)
EXTENDS LeasedJobs, FiniteSets

CONSTANTS
  UploadParts,      \* part numbers of the declared geometry
  Completions,      \* requests that complete the upload
  Replicas,         \* API processes
  MaxUploadFaults   \* bound: crashes, failed calls and lapsed leases

ASSUME UploadsAssumption ==
  /\ IsFiniteSet(UploadParts) /\ UploadParts # {}
  /\ NoHolder \notin Replicas /\ MaxUploadFaults \in Nat

VARIABLES
  upload,     \* storage_uploads.state, storage_objects.state, the recorded parts
  authorized, \* the content each part's authorization binds
  store,      \* the provider: the multipart upload, its parts, the final object
  jobs,       \* cleanup_* columns of the upload, the row of storage_policy_events
  lapsed,     \* claims whose lease has run out
  work,       \* where each replica's two workers are
  completion, \* where each completion request is, and what it has read
  sunk,       \* the sink has received the quarantine event
  late,       \* expires_at has passed
  mishaps,
  recorder,   \* history: the completion that recorded the assembly
  threw       \* history: completions a call of which threw

blame == <<recorder, threw>>
uploadVars == <<upload, authorized, store, jobs, lapsed, work, completion, sunk,
                late, mishaps, blame>>

JobKinds == {"cleanup", "event"}

UploadInit ==
  /\ upload = [state |-> "none", object |-> "none", parts |-> {}]
  /\ authorized = [p \in UploadParts |-> "none"]
  /\ store = [multipart |-> "none", parts |-> {}, object |-> FALSE]
  /\ jobs = [k \in JobKinds |-> NoJob]
  /\ lapsed = {}
  /\ work = [n \in Replicas |-> [k \in JobKinds |-> "idle"]]
  /\ completion = [r \in Completions |->
                     [at |-> "idle", process |-> NoHolder, assembled |-> FALSE, parts |-> {}]]
  /\ sunk = FALSE /\ late = FALSE /\ mishaps = 0
  /\ recorder = {} /\ threw = {}

IsActive == upload.state \in {"initiated", "uploading"}
IsStopped == upload.state \in {"aborted", "expired"}

Mishap == mishaps < MaxUploadFaults /\ mishaps' = mishaps + 1

-----------------------------------------------------------------------------
(* The session and its parts.                                              *)

createMultipart ==
  /\ store.multipart = "none"
  /\ store' = [store EXCEPT !.multipart = "open"]
  /\ UNCHANGED <<upload, authorized, jobs, lapsed, work, completion, sunk, late, mishaps, blame>>

\* repository.create; when it fails, the multipart upload is aborted or leaks.
createUpload ==
  /\ store.multipart = "open" /\ upload.state = "none"
  /\ \/ /\ upload' = [upload EXCEPT !.state = "initiated", !.object = "pending"]
        /\ UNCHANGED <<store, mishaps>>
     \/ /\ Mishap
        /\ store' = [store EXCEPT !.multipart = "gone"]
        /\ UNCHANGED upload
  /\ UNCHANGED <<authorized, jobs, lapsed, work, completion, sunk, late, blame>>

\* signPart and authorizePart: the first checksum of a part stays.
authorizePart(p, content) ==
  /\ IsActive /\ ~late /\ p \notin upload.parts
  /\ authorized[p] = "none"
  /\ authorized' = [authorized EXCEPT ![p] = content]
  /\ UNCHANGED <<upload, store, jobs, lapsed, work, completion, sunk, late, mishaps, blame>>

\* The bytes reach the provider: from the browser, or from putLocalPart.
putPart(p) ==
  /\ authorized[p] # "none" /\ ~late /\ store.multipart = "open"
  /\ p \notin store.parts
  /\ store' = [store EXCEPT !.parts = @ \cup {p}]
  /\ UNCHANGED <<upload, authorized, jobs, lapsed, work, completion, sunk, late, mishaps, blame>>

\* confirmDirectPart against the provider's list, and addPart.
addPart(p) ==
  /\ IsActive /\ ~late /\ p \in store.parts \ upload.parts
  /\ upload' = [upload EXCEPT !.parts = @ \cup {p}, !.state = "uploading"]
  /\ UNCHANGED <<authorized, store, jobs, lapsed, work, completion, sunk, late, mishaps, blame>>

ExpiryPasses ==
  /\ upload.state # "none" /\ ~late
  /\ late' = TRUE
  /\ UNCHANGED <<upload, authorized, store, jobs, lapsed, work, completion, sunk, mishaps, blame>>

\* repository.stop, and the trigger that enqueues the cleanup with it.
stop(state) ==
  /\ IsActive
  /\ upload' = [upload EXCEPT !.state = state,
                              !.object = IF @ = "pending" THEN "failed" ELSE @]
  /\ jobs' = [jobs EXCEPT !["cleanup"] = NewJob]
  /\ UNCHANGED <<authorized, store, lapsed, work, completion, sunk, late, mishaps, blame>>

abort == stop("aborted")

\* By a request that finds the session late, or by enqueueExpiredUploads.
expire == late /\ stop("expired")

\* The request's own abortMultipart, which may come late or never.
abortMultipart ==
  /\ IsStopped
  /\ store' = [store EXCEPT !.multipart = "gone", !.parts = {}]
  /\ UNCHANGED <<upload, authorized, jobs, lapsed, work, completion, sunk, late, mishaps, blame>>

-----------------------------------------------------------------------------
(* complete.                                                               *)

GoOn(r, place) == completion' = [completion EXCEPT ![r].at = place]
AtEnd(c) == [c EXCEPT !.at = "ended", !.parts = {}]
EndCompletion(r) == completion' = [completion EXCEPT ![r] = AtEnd(@)]

\* A request comes to one of the processes.
loadUpload(r, n) ==
  /\ completion[r].at = "idle"
  /\ \/ IsActive /\ ~late
     \/ upload.state = "completed" /\ upload.object = "uploaded"
  /\ completion' = [completion EXCEPT ![r] =
       [at |-> "loaded", process |-> n, assembled |-> upload.state = "completed",
        parts |-> upload.parts]]
  /\ UNCHANGED <<upload, authorized, store, jobs, lapsed, work, sunk, late, mishaps, blame>>

Process(r) == completion[r].process
InCompletions(r) == completion[r].at \notin {"idle", "loaded", "ended"}

\* Mutant: completions of one upload run side by side.
NotFenced(r) == TRUE

\* The Set completions is the process's own.
NoOtherCompletion(r) ==
  \A q \in Completions \ {r} : InCompletions(q) => Process(q) # Process(r)

\* assertCompleteParts looks at the parts that were read.
enterCompletion(r) ==
  /\ completion[r].at = "loaded"
  /\ \/ ~NoOtherCompletion(r) /\ EndCompletion(r)
     \/ /\ NoOtherCompletion(r)
        /\ GoOn(r, IF completion[r].assembled THEN "verifying"
                   ELSE IF completion[r].parts = UploadParts THEN "inspecting" ELSE "failed")
  /\ UNCHANGED <<upload, authorized, store, jobs, lapsed, work, sunk, late, mishaps, blame>>

\* A call of the provider or of the database throws; the catch clause is next.
CallThrows(r) == Mishap /\ threw' = threw \cup {r} /\ GoOn(r, "failed")

\* An object under the final key was assembled by a call that never returned.
inspectObject(r) ==
  /\ completion[r].at = "inspecting"
  /\ GoOn(r, IF store.object THEN "marking" ELSE "assembling")
  /\ UNCHANGED <<upload, authorized, store, jobs, lapsed, work, sunk, late, mishaps, blame>>

\* assertProviderParts and completeMultipart; the answer may be lost.
completeMultipart(r) ==
  /\ completion[r].at = "assembling"
  /\ IF store.multipart = "open" /\ store.parts = completion[r].parts
     THEN /\ store' = [multipart |-> "gone", parts |-> {}, object |-> TRUE]
          /\ \/ GoOn(r, "marking") /\ UNCHANGED <<mishaps, threw>>
             \/ CallThrows(r)
     ELSE GoOn(r, "failed") /\ UNCHANGED <<store, mishaps, threw>>
  /\ UNCHANGED <<upload, authorized, jobs, lapsed, work, sunk, late, recorder>>

markAssemblyCompleted(r) ==
  /\ completion[r].at = "marking"
  /\ upload' = IF IsActive
               THEN [upload EXCEPT !.state = "completed",
                                   !.object = IF @ = "pending" THEN "uploaded" ELSE @]
               ELSE upload
  /\ recorder' = IF IsActive THEN {r} ELSE recorder
  /\ GoOn(r, IF IsStopped THEN "failed" ELSE "verifying")
  /\ UNCHANGED <<authorized, store, jobs, lapsed, work, sunk, late, mishaps, threw>>

IsHealthy == \A p \in UploadParts : authorized[p] = "declared"

\* repository.quarantine: the object and its event in one transaction.
quarantine ==
  IF upload.state = "completed" /\ upload.object # "available"
  THEN /\ upload' = [upload EXCEPT !.object = "quarantined"]
       /\ jobs' = [jobs EXCEPT !["event"] = IF @.state = "none" THEN NewJob ELSE @]
  ELSE UNCHANGED <<upload, jobs>>

markAvailable ==
  upload' = [upload EXCEPT !.object = IF @ = "uploaded" THEN "available" ELSE @]

\* The second inspection, the verdict and its transaction.
verifyUpload(r) ==
  /\ completion[r].at = "verifying"
  /\ IF IsHealthy
     THEN markAvailable /\ UNCHANGED jobs
     ELSE quarantine
  /\ EndCompletion(r)
  /\ UNCHANGED <<authorized, store, lapsed, work, sunk, late, mishaps, blame>>

throws(r) ==
  /\ completion[r].at \in {"inspecting", "assembling", "marking", "verifying"}
  /\ CallThrows(r)
  /\ UNCHANGED <<upload, authorized, store, jobs, lapsed, work, sunk, late, recorder>>

\* The catch clause: fail closed once the assembly is terminal; its own calls
\* may throw too.
catchCompletion(r) ==
  /\ completion[r].at = "failed" /\ EndCompletion(r)
  /\ \/ quarantine /\ UNCHANGED <<mishaps, threw>>
     \/ Mishap /\ threw' = threw \cup {r} /\ UNCHANGED <<upload, jobs>>
  /\ UNCHANGED <<authorized, store, lapsed, work, sunk, late, recorder>>

-----------------------------------------------------------------------------
(* The workers.                                                            *)

claimDue(k, n) ==
  /\ work[n][k] = "idle" /\ IsDue(jobs[k])
  /\ jobs' = [jobs EXCEPT ![k] = ClaimedBy(@, n)]
  /\ lapsed' = lapsed \ {k}
  /\ work' = [work EXCEPT ![n][k] = "calling"]
  /\ UNCHANGED <<upload, authorized, store, completion, sunk, late, mishaps, blame>>

\* The provider or the sink answers, fails, or times out after its effect.
callOut(k, n, effect) ==
  /\ work[n][k] = "calling"
  /\ \E answer \in (IF effect THEN {"marking", "retrying"} ELSE {"retrying"}) :
       work' = [work EXCEPT ![n][k] = answer]
  /\ IF effect /\ k = "cleanup"
     THEN store' = [store EXCEPT !.multipart = "gone", !.parts = {}] ELSE UNCHANGED store
  /\ sunk' = (sunk \/ (effect /\ k = "event"))
  /\ UNCHANGED <<upload, authorized, jobs, lapsed, completion, late, mishaps, blame>>

\* A failed mark ends the cleanup's tick, and makes the event's delivery retry.
markSucceeded(k, n) ==
  /\ work[n][k] = "marking"
  /\ \/ /\ jobs' = [jobs EXCEPT ![k] = IF HoldsClaim(@, n) THEN Succeeded(@) ELSE @]
        /\ work' = [work EXCEPT ![n][k] = "idle"]
        /\ UNCHANGED mishaps
     \/ /\ Mishap
        /\ work' = [work EXCEPT ![n][k] = IF k = "event" THEN "retrying" ELSE "idle"]
        /\ UNCHANGED jobs
  /\ UNCHANGED <<upload, authorized, store, lapsed, completion, sunk, late, blame>>

retryJob(k, n) ==
  /\ work[n][k] = "retrying"
  /\ \/ /\ jobs' = [jobs EXCEPT ![k] = IF HoldsClaim(@, n) THEN Released(@) ELSE @]
        /\ UNCHANGED mishaps
     \/ Mishap /\ UNCHANGED jobs
  /\ work' = [work EXCEPT ![n][k] = "idle"]
  /\ UNCHANGED <<upload, authorized, store, lapsed, completion, sunk, late, blame>>

\* The lease runs out when nobody works on it, or under a slow worker.
LeaseLapses(k) ==
  /\ jobs[k].state = "claimed" /\ k \notin lapsed
  /\ IF work[jobs[k].holder][k] = "idle" THEN UNCHANGED mishaps ELSE Mishap
  /\ lapsed' = lapsed \cup {k}
  /\ UNCHANGED <<upload, authorized, store, jobs, work, completion, sunk, late, blame>>

recoverExpired(k) ==
  /\ jobs[k].state = "claimed" /\ k \in lapsed
  /\ jobs' = [jobs EXCEPT ![k] = Released(@)]
  /\ UNCHANGED <<upload, authorized, store, lapsed, work, completion, sunk, late, mishaps, blame>>

\* A replica restarts; requests that come later find it up again.
CrashReplica(n) ==
  /\ Mishap
  /\ work' = [work EXCEPT ![n] = [k \in JobKinds |-> "idle"]]
  /\ completion' = [r \in Completions |->
       IF Process(r) = n THEN AtEnd(completion[r]) ELSE completion[r]]
  /\ UNCHANGED <<upload, authorized, store, jobs, lapsed, sunk, late, blame>>

cleanupTick(n) ==
  \/ claimDue("cleanup", n) \/ markSucceeded("cleanup", n) \/ retryJob("cleanup", n)
  \/ \E effect \in BOOLEAN : callOut("cleanup", n, effect)

policyTick(n) ==
  \/ claimDue("event", n) \/ markSucceeded("event", n) \/ retryJob("event", n)
  \/ \E effect \in BOOLEAN : callOut("event", n, effect)

complete(r) ==
  \/ (\E n \in Replicas : loadUpload(r, n)) \/ enterCompletion(r) \/ inspectObject(r) \/ completeMultipart(r)
  \/ markAssemblyCompleted(r) \/ verifyUpload(r) \/ throws(r) \/ catchCompletion(r)

UploadNext ==
  \/ createMultipart \/ createUpload \/ ExpiryPasses \/ abort \/ expire \/ abortMultipart
  \/ \E p \in UploadParts :
       \/ putPart(p) \/ addPart(p)
       \/ \E content \in {"declared", "other"} : authorizePart(p, content)
  \/ \E r \in Completions : complete(r)
  \/ \E n \in Replicas : cleanupTick(n) \/ policyTick(n) \/ CrashReplica(n)
  \/ \E k \in JobKinds : LeaseLapses(k) \/ recoverExpired(k)

\* The workers' timers: time passes and some replica's tick comes.
JobProgress(k) ==
  \/ LeaseLapses(k) \/ recoverExpired(k)
  \/ \E n \in Replicas : IF k = "cleanup" THEN cleanupTick(n) ELSE policyTick(n)

UploadSpec == UploadInit /\ [][UploadNext]_uploadVars
                         /\ \A k \in JobKinds : WF_uploadVars(JobProgress(k))

-----------------------------------------------------------------------------
(* Properties.                                                             *)

\* The catch clause of r may refuse the object: a call of r threw, or one of the
\* completion that recorded the assembly, or that one runs in another process,
\* whose set of completions is not this one's.
Excused(r) ==
  \/ r \in threw
  \/ \E q \in recorder : q \in threw \/ Process(q) # Process(r)

RefusesExcused ==
  upload.object # "quarantined" /\ upload'.object = "quarantined" /\ IsHealthy
    => \E r \in Completions : completion[r].at = "failed" /\ Excused(r)

\* upload-service.ts: "Backend failures before durable byte completion remain
\* resumable."  What is served is what was declared, and it is there.  An object
\* whose bytes are what was declared is refused only by a completion that is
\* excused: one that resumes after any number of crashes, at whatever step, never
\* refuses it, and no more does one that overlaps with others of its process.
HealthyIsServed ==
  /\ [](upload.object = "available" => IsHealthy /\ store.object)
  /\ [][RefusesExcused]_uploadVars

\* "Lease-fenced": while its lease runs a claim is ended by nobody but the
\* worker that holds it, whatever the answers of earlier claims' calls.
ClaimsAreFenced ==
  [][\A k \in JobKinds :
       jobs[k].state = "claimed" /\ k \notin lapsed /\ jobs'[k] # jobs[k]
         => work[jobs[k].holder][k] \in {"marking", "retrying"}
            /\ work'[jobs[k].holder][k] = "idle"]_uploadVars

\* A stopped upload's multipart is not gone at the provider yet, or a
\* quarantine has not reached the policy sink, and its job is not failed for an
\* operator after its last attempt either.
UploadJobIsOpen ==
  \/ /\ IsStopped /\ jobs["cleanup"].state # "failed"
     /\ ~(jobs["cleanup"].state = "succeeded" /\ store.multipart = "gone")
  \/ /\ upload.object = "quarantined" /\ jobs["event"].state # "failed"
     /\ ~(jobs["event"].state = "succeeded" /\ sunk)
=============================================================================
