--------------------------- MODULE Transcriptions ---------------------------
(***************************************************************************)
(* One dictation (apps/api/src/services/transcription-postgres.ts): its    *)
(* row, its private audio, its debit and its usage row.  The owner uploads *)
(* chunks, finalizes and deletes; every API process runs runOnce of        *)
(* transcriptions.ts, one tick after the other: four maintenance steps,    *)
(* then a claim and the provider's call.                                   *)
(*                                                                         *)
(* What an actor has still to do is a sequence of steps; a step that       *)
(* throws ends the tick, or goes to the catch clause of runOnce.           *)
(***************************************************************************)
EXTENDS Sequences, Naturals

CONSTANTS
  Transcribers,  \* API processes
  Owner,         \* the owner's request that deletes
  NoClaim,       \* claimToken is null
  MaxSlips       \* bound: failed or unacknowledged calls, crashes, slow calls

ASSUME TranscriptionAssumption ==
  /\ Owner \notin Transcribers /\ NoClaim \notin Transcribers
  /\ MaxSlips \in Nat

VARIABLES
  session,   \* status, claimToken's process, providerStartedAt, deleteRequestedAt
  audio,     \* the files, and whether audioDeletedAt says that they are gone
  usageRow,  \* usage_events.status
  held,      \* the reservation in the ledger
  overdue,   \* expiresAt has passed
  leaseOver, \* claimExpiresAt has passed
  calls,     \* calls of the provider
  steps,
  slips

transcriptionRows == <<session, audio, usageRow, held, overdue, leaseOver, calls>>
transcriptionVars == <<transcriptionRows, steps, slips>>

TranscriptionInit ==
  /\ session = [status |-> "none", token |-> NoClaim, started |-> FALSE, deleting |-> FALSE]
  /\ audio = "none" /\ usageRow = "none" /\ held = "none"
  /\ overdue = FALSE /\ leaseOver = FALSE
  /\ calls = 0 /\ slips = 0
  /\ steps = [w \in Transcribers \cup {Owner} |-> <<>>]

IsAt(w, step) == steps[w] # <<>> /\ Head(steps[w]) = step
Then(w, more) == steps' = [steps EXCEPT ![w] = more \o Tail(@)]
GoesTo(w, list) == steps' = [steps EXCEPT ![w] = list]

Slip == slips < MaxSlips /\ slips' = slips + 1

\* A transaction commits; or it fails, or its acknowledgement is lost.
Try(w, tx, done, handler) ==
  \/ tx /\ done /\ UNCHANGED slips
  \/ Slip /\ (tx \/ UNCHANGED transcriptionRows) /\ GoesTo(w, handler)

TerminalStatuses == {"completed", "failed", "deleted", "expired"}

\* The statements that end a claim keep nothing of it.
Ended(status) == [session EXCEPT !.status = status, !.token = NoClaim]

-----------------------------------------------------------------------------
(* The owner.                                                              *)

create ==
  /\ session.status = "none"
  /\ session' = [session EXCEPT !.status = "uploading"]
  /\ UNCHANGED <<audio, usageRow, held, overdue, leaseOver, calls, steps, slips>>

\* The file is written before its row; one without a row is deleted with the
\* session's others.
append ==
  /\ session.status = "uploading" /\ ~overdue
  /\ audio' = "files"
  /\ UNCHANGED <<session, usageRow, held, overdue, leaseOver, calls, steps, slips>>

\* Debit, usage row and status in one transaction, once per session.
finalize ==
  /\ session.status = "uploading" /\ ~overdue /\ audio = "files"
  /\ session' = [session EXCEPT !.status = "queued"]
  /\ usageRow' = "pending" /\ held' = "held"
  /\ UNCHANGED <<audio, overdue, leaseOver, calls, steps, slips>>

\* While the provider works the deletion is only requested.
deleteOwned ==
  /\ session.status # "none" /\ steps[Owner] = <<>>
  /\ IF session.status = "processing" /\ session.started
     THEN /\ session' = [session EXCEPT !.deleting = TRUE]
          /\ UNCHANGED <<usageRow, overdue, steps>>
     ELSE LET refund == session.status \in {"queued", "processing"}
          IN /\ session' = [Ended("deleted") EXCEPT !.deleting = TRUE]
             /\ usageRow' = IF refund THEN "refund_pending" ELSE usageRow
             /\ overdue' = FALSE
             /\ GoesTo(Owner, IF refund THEN <<"purge", "compensate">> ELSE <<"purge">>)
  /\ UNCHANGED <<audio, held, leaseOver, calls, slips>>

-----------------------------------------------------------------------------
(* Steps that requests and ticks share.                                    *)

\* purgeAudio: the files first, then the rows that name them.
purgeAudio(w) ==
  /\ IsAt(w, "purge")
  /\ IF audio = "purged" THEN Then(w, <<>>) /\ UNCHANGED <<transcriptionRows, slips>>
     ELSE /\ \/ audio' = "purged" /\ Then(w, <<>>) /\ UNCHANGED slips
             \/ Slip /\ audio' \in {audio, "erased", "purged"} /\ GoesTo(w, <<>>)
          /\ UNCHANGED <<session, usageRow, held, overdue, leaseOver, calls>>

\* compensate: the reversal and the usage row are two transactions.
reverseHeld(w) ==
  /\ IsAt(w, "compensate")
  /\ Try(w, /\ held' = "returned"
            /\ UNCHANGED <<session, audio, usageRow, overdue, leaseOver, calls>>,
         GoesTo(w, <<"markError">> \o Tail(steps[w])), <<>>)

markError(w) ==
  /\ IsAt(w, "markError")
  /\ Try(w, /\ usageRow' = IF usageRow = "refund_pending" THEN "error" ELSE usageRow
            /\ UNCHANGED <<session, audio, held, overdue, leaseOver, calls>>,
         Then(w, <<>>), <<>>)

-----------------------------------------------------------------------------
(* runOnce.                                                                *)

\* A step that finds no row.
Skips(w) == Then(w, <<>>) /\ UNCHANGED <<transcriptionRows, slips>>

runOnce(w) ==
  /\ w \in Transcribers /\ steps[w] = <<>>
  /\ GoesTo(w, <<"recover", "retry", "expire", "cleanup", "claim">>)
  /\ UNCHANGED <<transcriptionRows, slips>>

IsStaleClaim == session.status = "processing" /\ leaseOver

\* A provider that was admitted is not called again.
recoverOneStaleClaim(w) ==
  /\ IsAt(w, "recover")
  /\ IF ~IsStaleClaim THEN Skips(w)
     ELSE IF session.started
     THEN Try(w, /\ session' = Ended("failed") /\ usageRow' = "refund_pending" /\ overdue' = FALSE
                 /\ UNCHANGED <<audio, held, leaseOver, calls>>,
              Then(w, <<"purge", "compensate">>), <<>>)
     ELSE Try(w, /\ session' = Ended("queued")
                 /\ UNCHANGED <<audio, usageRow, held, overdue, leaseOver, calls>>,
              Then(w, <<>>), <<>>)

retryOneCompensation(w) ==
  /\ IsAt(w, "retry")
  /\ IF usageRow = "refund_pending"
     THEN Then(w, <<"compensate">>) /\ UNCHANGED <<transcriptionRows, slips>>
     ELSE Skips(w)

expireOne(w) ==
  /\ IsAt(w, "expire")
  /\ IF overdue /\ session.status \in {"uploading", "queued", "completed", "failed"}
     THEN LET refund == session.status = "queued"
          IN Try(w, /\ session' = [session EXCEPT !.status = "expired"]
                    /\ usageRow' = IF refund /\ usageRow = "pending" THEN "refund_pending"
                                   ELSE usageRow
                    /\ UNCHANGED <<audio, held, overdue, leaseOver, calls>>,
                 Then(w, IF refund THEN <<"purge", "compensate">> ELSE <<"purge">>), <<>>)
     ELSE Skips(w)

cleanupOneTerminalAudio(w) ==
  /\ IsAt(w, "cleanup")
  /\ IF session.status \in TerminalStatuses
     THEN Then(w, <<"purge">>) /\ UNCHANGED <<transcriptionRows, slips>>
     ELSE Skips(w)

\* The chunks are read and verified after the claim has committed.
claimNextSession(w) ==
  /\ IsAt(w, "claim")
  /\ IF session.status = "queued" /\ ~overdue
     THEN /\ \/ /\ session' = [session EXCEPT !.status = "processing", !.token = w]
                /\ \/ Then(w, <<"admit">>) /\ UNCHANGED slips
                   \/ Slip /\ Then(w, <<"fail">>)
             \/ Slip /\ GoesTo(w, <<>>)
                /\ session' \in {session, [session EXCEPT !.status = "processing", !.token = w]}
          /\ leaseOver' = (leaseOver /\ session'.token = NoClaim)
          /\ UNCHANGED <<audio, usageRow, held, overdue, calls>>
     ELSE Skips(w)

HoldsSession(w) == session.status = "processing" /\ session.token = w

markProviderStarted(w) ==
  /\ IsAt(w, "admit")
  /\ IF HoldsSession(w) /\ ~session.started /\ ~session.deleting
     THEN Try(w, /\ session' = [session EXCEPT !.started = TRUE]
                 /\ usageRow' = "provider_admitted"
                 /\ UNCHANGED <<audio, held, overdue, leaseOver, calls>>,
              GoesTo(w, <<"transcribe">>), <<"fail">>)
     ELSE GoesTo(w, <<"fail">>) /\ UNCHANGED <<transcriptionRows, slips>>

\* The provider answers, fails, or finds out that it was cancelled.
transcribe(w) ==
  /\ IsAt(w, "transcribe")
  /\ calls' = calls + 1
  /\ GoesTo(w, <<"complete">>) \/ GoesTo(w, <<"fail">>)
  /\ UNCHANGED <<session, audio, usageRow, held, overdue, leaseOver, slips>>

\* Mutant: the row is not read again for a deletion.
completeUndeleted(w) ==
  /\ session' = Ended("completed") /\ usageRow' = "completed" /\ overdue' = FALSE
  /\ UNCHANGED <<audio, held, leaseOver, calls>>

completeTx(w) ==
  /\ session' = Ended(IF session.deleting THEN "deleted" ELSE "completed")
  /\ usageRow' = IF session.deleting THEN "refund_pending" ELSE "completed"
  /\ overdue' = FALSE
  /\ UNCHANGED <<audio, held, leaseOver, calls>>

completeTranscript(w) ==
  /\ IsAt(w, "complete")
  /\ IF HoldsSession(w)
     THEN Try(w, completeTx(w),
              GoesTo(w, IF session.deleting THEN <<"purge", "compensate">> ELSE <<"purge">>),
              <<"fail">>)
     ELSE GoesTo(w, <<"fail">>) /\ UNCHANGED <<transcriptionRows, slips>>

failAndRefund(w) ==
  /\ IsAt(w, "fail")
  /\ IF HoldsSession(w) /\ usageRow \in {"pending", "provider_admitted"}
     THEN Try(w, /\ session' = Ended(IF session.deleting THEN "deleted" ELSE "failed")
                 /\ usageRow' = "refund_pending" /\ overdue' = FALSE
                 /\ UNCHANGED <<audio, held, leaseOver, calls>>,
              GoesTo(w, <<"purge", "compensate">>), <<>>)
     ELSE GoesTo(w, <<>>) /\ UNCHANGED <<transcriptionRows, slips>>

-----------------------------------------------------------------------------
(* Time and crashes.                                                       *)

TtlPasses ==
  /\ session.status # "none" /\ ~overdue
  /\ overdue' = TRUE
  /\ UNCHANGED <<session, audio, usageRow, held, leaseOver, calls, steps, slips>>

WorksOnClaim(w) == \E step \in {"admit", "transcribe", "complete", "fail"} : IsAt(w, step)

\* The lease runs out when its process died, or under one that is too slow.
ClaimLapses ==
  /\ session.status = "processing" /\ ~leaseOver
  /\ IF WorksOnClaim(session.token) THEN Slip ELSE UNCHANGED slips
  /\ leaseOver' = TRUE
  /\ UNCHANGED <<session, audio, usageRow, held, overdue, calls, steps>>

Dies(w) ==
  /\ steps[w] # <<>> /\ Slip
  /\ GoesTo(w, <<>>)
  /\ UNCHANGED transcriptionRows

TranscriptionStep(w) ==
  \/ purgeAudio(w) \/ reverseHeld(w) \/ markError(w)
  \/ runOnce(w) \/ recoverOneStaleClaim(w) \/ retryOneCompensation(w) \/ expireOne(w)
  \/ cleanupOneTerminalAudio(w) \/ claimNextSession(w) \/ markProviderStarted(w)
  \/ transcribe(w) \/ completeTranscript(w) \/ failAndRefund(w)

TranscriptionNext ==
  \/ create \/ append \/ finalize \/ deleteOwned \/ TtlPasses \/ ClaimLapses
  \/ \E w \in Transcribers \cup {Owner} : TranscriptionStep(w) \/ Dies(w)

\* The workers' loops, and the clock.
TranscriptionSpec ==
  /\ TranscriptionInit /\ [][TranscriptionNext]_transcriptionVars
  /\ WF_transcriptionVars(ClaimLapses)
  /\ \A w \in Transcribers : WF_transcriptionVars(TranscriptionStep(w))

-----------------------------------------------------------------------------
(* Properties.                                                             *)

\* transcription-postgres.ts: "DB checkpoints and private files converge
\* fail-closed."  A transcript that can be read is paid for and its owner has
\* asked for no deletion, whatever ran meanwhile; money that went back stays
\* back; and the provider is called at most once, whoever claims the session.
TranscriptIsPaidAndWanted ==
  /\ session.status = "completed" => held = "held" /\ usageRow = "completed" /\ ~session.deleting
  /\ held = "returned" => usageRow \in {"refund_pending", "error"}
  /\ calls <= 1

\* A dictation that was finalized ends when its audio is gone and the charge is
\* either kept with a completed usage row or returned with an error row.
DictationIsOpen ==
  /\ usageRow # "none"
  /\ ~ /\ session.status \in TerminalStatuses /\ audio = "purged"
       /\ \/ held = "held" /\ usageRow = "completed"
          \/ held = "returned" /\ usageRow = "error"
=============================================================================
