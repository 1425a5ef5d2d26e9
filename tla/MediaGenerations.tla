-------------------------- MODULE MediaGenerations --------------------------
(***************************************************************************)
(* Paid media of one output kind: Studio requests (routes/studio.ts and    *)
(* studio-reservations.ts) and the tool calls of one chat session          *)
(* (chat-media-authorization.ts), with the gateway that runs the tools,    *)
(* the watcher that sees their files (media-watcher.ts), the syncs that    *)
(* see the session's transcript (history-sync.ts), the pipeline that       *)
(* ingests a file (media-pipeline.ts) and the two reapers.                 *)
(*                                                                         *)
(* A file carries nothing that says which request it belongs to.  Here it  *)
(* has the name of the request whose run wrote it, and no guard of the     *)
(* API's looks at that, except through the transcript, where a chat run's  *)
(* message names its file.                                                 *)
(***************************************************************************)
EXTENDS Sequences, FiniteSets, Naturals

CONSTANTS
  StudioRequests,  \* POST /studio/generate of one output kind
  ChatRequests,    \* media tool calls in one chat session
  Syncs,           \* callers of syncSession: trailing, reconciler, a route
  NoMedia,         \* no request
  MaxGenerations,  \* bound: requests that are begun
  MaxMediaFaults   \* bound: failed database calls and crashes

ASSUME MediaAssumption ==
  /\ StudioRequests \cap ChatRequests = {}
  /\ NoMedia \notin StudioRequests \cup ChatRequests
  /\ {MaxGenerations, MaxMediaFaults} \subseteq Nat

VARIABLES
  row,         \* usage_events.status of each request's reservation
  spent,       \* requests whose debit has not been reversed
  quarantined, \* some row carries metadata.outputQuarantine
  tool,        \* the tool call at the gateway
  file,        \* what the watcher knows of each run's file
  studio,      \* where each Studio handler is
  got,         \* the file that resolved each Studio handler's claim
  claims,      \* the watcher's queue of claims
  sighting,    \* the attachment each sync is about to ingest
  creation,    \* metadata.creationId: the file a completed row names
  mediaFaults

mediaVars == <<row, spent, quarantined, tool, file, studio, got, claims,
               sighting, creation, mediaFaults>>

Requests == StudioRequests \cup ChatRequests
Unused == {"pending", "provider_admitted"}
Open == Unused \cup {"refund_pending"}
Final == {"completed", "error"}

MediaInit ==
  /\ row = [r \in Requests |-> "none"]
  /\ spent = {}
  /\ quarantined = FALSE
  /\ tool = [r \in Requests |-> "none"]
  /\ file = [r \in Requests |-> "none"]
  /\ studio = [s \in StudioRequests |-> "idle"]
  /\ got = [s \in StudioRequests |-> NoMedia]
  /\ claims = <<>>
  /\ sighting = [y \in Syncs |-> NoMedia]
  /\ creation = [r \in Requests |-> NoMedia]
  /\ mediaFaults = 0

MediaFault == mediaFaults < MaxMediaFaults /\ mediaFaults' = mediaFaults + 1

\* A transaction commits, or rolls back, or commits and its answer is lost.
Tx(commit, rollback, done, thrown) ==
  \/ commit /\ done /\ UNCHANGED mediaFaults
  \/ MediaFault /\ (commit \/ rollback) /\ thrown

SetRow(r, status) == row' = [row EXCEPT ![r] = status]
StudioGoes(s, place) == studio' = [studio EXCEPT ![s] = place]

Begun == {s \in StudioRequests : studio[s] # "idle"} \cup {c \in ChatRequests : tool[c] # "none"}
MayBegin == Cardinality(Begun) < MaxGenerations

NoRows == UNCHANGED <<row, spent, quarantined, creation>>
NoGateway == UNCHANGED <<tool, file>>
NoHandler == UNCHANGED <<studio, got, claims>>

-----------------------------------------------------------------------------
(* Studio.                                                                 *)

\* Under the output kind's advisory lock: the debit and its row.
reserveStudioGeneration(s) ==
  /\ studio[s] = "idle" /\ MayBegin
  /\ IF quarantined \/ \E q \in StudioRequests : row[q] \in Open
     THEN StudioGoes(s, "ended") /\ UNCHANGED <<row, spent, mediaFaults>>
     ELSE Tx(SetRow(s, "pending") /\ spent' = spent \cup {s},
             UNCHANGED <<row, spent>>,
             StudioGoes(s, "reserved"), StudioGoes(s, "ended"))
  /\ UNCHANGED <<quarantined, got, claims, sighting, creation>> /\ NoGateway

\* claimNext and invokeTool; claimSource.start may throw.
claimNext(s) ==
  /\ studio[s] = "reserved"
  /\ \/ /\ claims' = Append(claims, s)
        /\ tool' = [tool EXCEPT ![s] = "asked"]
        /\ StudioGoes(s, "waiting") /\ UNCHANGED mediaFaults
     \/ MediaFault /\ StudioGoes(s, "failing") /\ UNCHANGED <<claims, tool>>
  /\ NoRows /\ UNCHANGED <<file, got, sighting>>

\* The gateway's hook consumes the ticket before the tool runs.
verifyPendingStudioMedia(s) ==
  /\ tool[s] = "asked"
  /\ IF row[s] = "pending"
     THEN Tx(SetRow(s, "provider_admitted"), UNCHANGED row,
             tool' = [tool EXCEPT ![s] = "running"],
             tool' = [tool EXCEPT ![s] = "blocked"])
     ELSE tool' = [tool EXCEPT ![s] = "blocked"] /\ UNCHANGED <<row, mediaFaults>>
  /\ UNCHANGED <<spent, quarantined, creation, file, sighting>> /\ NoHandler

\* claim.cancel, of a claim that may have its file already.
Unclaimed(s) ==
  LET places == {i \in 1..Len(claims) : claims[i] = s}
      idx == CHOOSE i \in places : TRUE
  IN IF places = {}
     THEN claims
     ELSE SubSeq(claims, 1, idx - 1) \o SubSeq(claims, idx + 1, Len(claims))

\* TTS without a gateway route: admitStudioGeneration, then the provider's
\* answer is this request's own file.
admitStudioGeneration(s) ==
  /\ studio[s] = "waiting" /\ tool[s] = "asked"
  /\ tool' = [tool EXCEPT ![s] = "blocked"]
  /\ claims' = Unclaimed(s)
  /\ IF row[s] = "pending"
     THEN \/ Tx(SetRow(s, "provider_admitted"), UNCHANGED row,
                StudioGoes(s, "ingesting") /\ got' = [got EXCEPT ![s] = s],
                StudioGoes(s, "failing") /\ UNCHANGED got)
          \/ /\ SetRow(s, "provider_admitted") /\ StudioGoes(s, "failing")
             /\ UNCHANGED <<got, mediaFaults>>
     ELSE StudioGoes(s, "failing") /\ UNCHANGED <<row, got, mediaFaults>>
  /\ UNCHANGED <<spent, quarantined, creation, file, sighting>>

\* Both the invocation and the claim have answered.
claimAnswered(s) ==
  /\ studio[s] = "waiting" /\ got[s] # NoMedia /\ tool[s] = "running"
  /\ StudioGoes(s, "ingesting")
  /\ NoRows /\ NoGateway /\ UNCHANGED <<got, claims, sighting, mediaFaults>>

\* The invocation fails or the request's time is up.
giveUp(s) ==
  /\ studio[s] = "waiting"
  /\ claims' = Unclaimed(s)
  /\ got' = [got EXCEPT ![s] = NoMedia]
  /\ StudioGoes(s, "failing")
  /\ NoRows /\ NoGateway /\ UNCHANGED <<sighting, mediaFaults>>

\* Mutant: the artifact's transaction does not look at the row's status.
HasRow(s) == row[s] # "none"

\* completeStudioGeneration, in the transaction of the artifact.
IsUnused(s) == row[s] \in Unused

\* ingestFile without a session.
ingestStudio(s) ==
  /\ studio[s] = "ingesting"
  /\ IF IsUnused(s)
     THEN Tx(SetRow(s, "completed") /\ creation' = [creation EXCEPT ![s] = got[s]],
             UNCHANGED <<row, creation>>,
             StudioGoes(s, "ended"), StudioGoes(s, "failing"))
     ELSE StudioGoes(s, "failing") /\ UNCHANGED <<row, creation, mediaFaults>>
  /\ UNCHANGED <<spent, quarantined, got, claims, sighting>> /\ NoGateway

-----------------------------------------------------------------------------
(* Chat.                                                                   *)

\* Under the session's advisory lock, in the gateway's hook.
reserveChatMedia(c) ==
  /\ tool[c] = "none" /\ MayBegin
  /\ IF \E d \in ChatRequests : row[d] \in Open
     THEN tool' = [tool EXCEPT ![c] = "blocked"] /\ UNCHANGED <<row, spent, mediaFaults>>
     ELSE Tx(SetRow(c, "provider_admitted") /\ spent' = spent \cup {c},
             UNCHANGED <<row, spent>>,
             tool' = [tool EXCEPT ![c] = "running"],
             tool' = [tool EXCEPT ![c] = "blocked"])
  /\ UNCHANGED <<quarantined, creation, file, sighting>> /\ NoHandler

\* onAfterToolCall of a failed call; its callback may be lost.
toolFails(c) ==
  /\ tool[c] = "running"
  /\ tool' = [tool EXCEPT ![c] = "failed"]
  /\ NoRows /\ NoHandler /\ UNCHANGED <<file, sighting, mediaFaults>>

\* A transcript message names the file, and its row has no attachment.
Unattached(c) == \A d \in ChatRequests : creation[d] # c

syncSession(y, c) ==
  /\ sighting[y] = NoMedia
  /\ file[c] # "none" /\ Unattached(c)
  /\ sighting' = [sighting EXCEPT ![y] = c]
  /\ NoRows /\ NoGateway /\ NoHandler /\ UNCHANGED mediaFaults

\* The attachment handler: markProcessed, the quarantine, ingestFile into the
\* session with completePendingChatMedia, for a file that is attached already
\* through settleIdenticalAuthorizedOutput.  Without an unused authorization
\* the file is parked, and a later sync sights it again.
ingestSighting(y) ==
  LET c == sighting[y]
  IN /\ c # NoMedia
     /\ sighting' = [sighting EXCEPT ![y] = NoMedia]
     /\ file' = [file EXCEPT ![c] = IF @ = "landed" THEN "handled" ELSE @]
     /\ \/ /\ ~quarantined
           /\ \E d \in ChatRequests :
                /\ row[d] \in Unused
                /\ SetRow(d, "completed")
                /\ creation' = [creation EXCEPT ![d] = c]
           /\ UNCHANGED mediaFaults
        \/ /\ quarantined \/ \A d \in ChatRequests : row[d] \notin Unused
           /\ UNCHANGED <<row, creation, mediaFaults>>
        \/ MediaFault /\ UNCHANGED <<row, creation>>
     /\ UNCHANGED <<spent, quarantined, tool>> /\ NoHandler

-----------------------------------------------------------------------------
(* Compensation.                                                           *)

\* markCompensation: an admitted Studio run may still write its file.
Mark(r) ==
  /\ SetRow(r, "refund_pending")
  /\ quarantined' = (quarantined \/ (r \in StudioRequests /\ row[r] = "provider_admitted"))

\* requireReversal of a failed Studio request.
compensateStudioGeneration(s) ==
  /\ studio[s] = "failing"
  /\ IF row[s] \in Final
     THEN StudioGoes(s, "ended") /\ UNCHANGED <<row, quarantined, mediaFaults>>
     ELSE Tx(Mark(s), UNCHANGED <<row, quarantined>>,
             StudioGoes(s, "reversing"), StudioGoes(s, "ended"))
  /\ UNCHANGED <<spent, creation, got, claims, sighting>> /\ NoGateway

\* The callback of a failed chat tool call.
compensateChatMedia(c) ==
  /\ tool[c] = "failed"
  /\ tool' = [tool EXCEPT ![c] = "over"]
  /\ IF row[c] \in Final
     THEN UNCHANGED <<row, quarantined, mediaFaults>>
     ELSE Tx(Mark(c), UNCHANGED <<row, quarantined>>, TRUE, TRUE)
  /\ UNCHANGED <<spent, creation, file, sighting>> /\ NoHandler

\* The second transaction: the reversal and the terminal status.
Reversed(r) == SetRow(r, "error") /\ spent' = spent \ {r}

\* The handler's own attempt; its failure leaves the row to the reaper.
reverseStudio(s) ==
  /\ studio[s] = "reversing"
  /\ StudioGoes(s, "ended")
  /\ IF row[s] = "refund_pending"
     THEN Tx(Reversed(s), UNCHANGED <<row, spent>>, TRUE, TRUE)
     ELSE UNCHANGED <<row, spent, mediaFaults>>
  /\ UNCHANGED <<quarantined, creation, got, claims, sighting>> /\ NoGateway

\* The reapers' scans, at any time: how old a row is, against a handler or a
\* run of any speed, is left open.
IsReapable(r) == row[r] \in Open

\* One transaction of a reaper's pass, or of the chat callback's second half.
reap(r) ==
  /\ IsReapable(r)
  /\ IF row[r] = "refund_pending"
     THEN Tx(Reversed(r) /\ UNCHANGED quarantined,
             UNCHANGED <<row, spent, quarantined>>, TRUE, TRUE)
     ELSE Tx(Mark(r) /\ UNCHANGED spent,
             UNCHANGED <<row, spent, quarantined>>, TRUE, TRUE)
  /\ UNCHANGED <<creation, sighting>> /\ NoGateway /\ NoHandler

-----------------------------------------------------------------------------
(* Files.                                                                  *)

\* A tool writes its file, perhaps long after everybody has given it up.
outputLands(r) ==
  /\ tool[r] \in {"running", "failed", "over"} /\ file[r] = "none"
  /\ file' = [file EXCEPT ![r] = "landed"]
  /\ NoRows /\ NoHandler /\ UNCHANGED <<tool, sighting, mediaFaults>>

\* handleStableFile asks for the quarantine and fails closed.
checkQuarantine(r) ==
  /\ file[r] = "landed"
  /\ \/ /\ file' = [file EXCEPT ![r] = IF quarantined THEN "handled" ELSE "checked"]
        /\ UNCHANGED mediaFaults
     \/ MediaFault /\ file' = [file EXCEPT ![r] = "handled"]
  /\ NoRows /\ NoHandler /\ UNCHANGED <<tool, sighting>>

\* The first claim in the queue gets the file; without one it is parked.
routeFile(r) ==
  /\ file[r] = "checked"
  /\ file' = [file EXCEPT ![r] = "handled"]
  /\ IF claims = <<>>
     THEN UNCHANGED <<claims, got>>
     ELSE /\ claims' = Tail(claims)
          /\ got' = [got EXCEPT ![Head(claims)] = r]
  /\ NoRows /\ UNCHANGED <<tool, studio, sighting, mediaFaults>>

\* The API process restarts: markExistingFilesProcessed.
restart ==
  /\ MediaFault
  /\ studio' = [s \in StudioRequests |-> IF studio[s] = "idle" THEN "idle" ELSE "ended"]
  /\ got' = [s \in StudioRequests |-> NoMedia]
  /\ claims' = <<>>
  /\ sighting' = [y \in Syncs |-> NoMedia]
  /\ file' = [r \in Requests |-> IF file[r] = "none" THEN "none" ELSE "handled"]
  /\ NoRows /\ UNCHANGED tool

MediaNext ==
  \/ \E s \in StudioRequests :
       \/ reserveStudioGeneration(s) \/ claimNext(s) \/ verifyPendingStudioMedia(s)
       \/ admitStudioGeneration(s) \/ claimAnswered(s) \/ giveUp(s) \/ ingestStudio(s)
       \/ compensateStudioGeneration(s) \/ reverseStudio(s)
  \/ \E c \in ChatRequests :
       \/ reserveChatMedia(c) \/ toolFails(c) \/ compensateChatMedia(c)
       \/ \E y \in Syncs : syncSession(y, c)
  \/ \E y \in Syncs : ingestSighting(y)
  \/ \E r \in Requests :
       reap(r) \/ outputLands(r) \/ checkQuarantine(r) \/ routeFile(r)
  \/ restart

\* Time passes and the reapers' timers fire.
MediaSpec == MediaInit /\ [][MediaNext]_mediaVars
             /\ \A r \in Requests : WF_mediaVars(reap(r))

-----------------------------------------------------------------------------
(* Properties.                                                             *)

\* studio-reservations.ts:168: "so a later completion can never be FIFO-attributed
\* to another tenant".  A Studio request's creation is the file of its own run.
NeverAnotherTenants ==
  \A s \in StudioRequests : creation[s] \in {s, NoMedia}

\* studio-reservations.ts: "Commit the debit and its durable authorization row
\* as one unit", "Must run in the same transaction that creates the Studio
\* artifact".  Whoever fails, times out, restarts or reaps, and whichever
\* answers are lost: a request keeps its debit exactly while it is open or has
\* an artifact, and a refunded one has none.  Among Studio requests, whose runs
\* write late, after a timeout or a refund, or for a process that restarted, the
\* artifact is its own: until a chat run's file is taken for a Studio request's,
\* which the output kind's lock does not prevent.
ArtifactsArePaid ==
  /\ \A r \in Requests :
       /\ r \in spent <=> row[r] \in Open \cup {"completed"}
       /\ row[r] = "completed" <=> creation[r] # NoMedia
  /\ (\A s \in StudioRequests : creation[s] \notin ChatRequests) => NeverAnotherTenants

\* media-pipeline.ts:453: "An already-correlated identical artifact can be
\* returned/re-homed above without a second charge."  An artifact of the
\* session is paid by one authorization.
NoSecondCharge ==
  \A c, d \in ChatRequests :
    creation[c] = creation[d] /\ creation[c] # NoMedia => c = d

\* A reservation that is neither used nor refunded, although the process may
\* have died, the tool call vanished, the callback or a refund failed.
GenerationIsOpen == \E r \in Requests : row[r] \in Open
=============================================================================
