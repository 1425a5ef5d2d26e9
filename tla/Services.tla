------------------------------ MODULE Services ------------------------------
(***************************************************************************)
(* The services that keep their state in tables of their own, side by      *)
(* side.  A behavior is one of a service: but for the kernel under chat    *)
(* turns and dreams, whose turns are distinct, they share no variable of   *)
(* these models, so an interleaving of two of them shows nothing that      *)
(* their own behaviors do not, and the state space is the sum, not the     *)
(* product.                                                                *)
(***************************************************************************)
EXTENDS ChatTurns, Uploads, MediaGenerations, Billing, Transcriptions, VoiceNotes,
        AccountErasure, TurnAdmission, SubscriptionTurnClaims, AgentRuntimes, MemoryDreams,
        ChannelConnections, ChannelCredentials

CONSTANT Running  \* the services that a run looks at

VARIABLE service

serviceVars == <<chatVars, uploadVars, mediaVars, billingVars, transcriptionVars,
                 voiceVars, erasureVars, admissionVars, sessionVars, runtimeVars,
                 ownDreamVars, connectionVars, credentialVars, service>>

ServicesInit ==
  /\ service \in Running
  /\ IF service = "dreams" THEN FundedKernel ELSE Init /\ faults = 0
  /\ NoChats /\ NoDreams /\ UploadInit /\ MediaInit /\ BillingInit /\ TranscriptionInit
  /\ IF service = "connections" THEN ConnectionsInit ELSE NoConnections
  /\ IF service = "credentials" THEN CredentialsInit ELSE NoCredentials
  /\ VoiceInit /\ ErasureInit /\ AdmissionInit /\ SessionInit /\ RuntimesInit

Only(s) ==
  /\ service = s /\ service' = s
  /\ s \notin {"chat", "dreams"} => UNCHANGED <<kernel, faults>>
  /\ s # "chat" => UNCHANGED ownChatVars
  /\ s # "dreams" => UNCHANGED ownDreamVars
  /\ s # "uploads" => UNCHANGED uploadVars
  /\ s # "media" => UNCHANGED mediaVars
  /\ s # "billing" => UNCHANGED billingVars
  /\ s # "transcription" => UNCHANGED transcriptionVars
  /\ s # "voice" => UNCHANGED voiceVars
  /\ s # "erasure" => UNCHANGED erasureVars
  /\ s # "admission" => UNCHANGED admissionVars
  /\ s # "sessions" => UNCHANGED sessionVars
  /\ s # "agents" => UNCHANGED runtimeVars
  /\ s # "connections" => UNCHANGED connectionVars
  /\ s # "credentials" => UNCHANGED credentialVars

ServicesNext ==
  \/ Only("chat") /\ ChatNext
  \/ Only("uploads") /\ UploadNext
  \/ Only("media") /\ MediaNext
  \/ Only("billing") /\ BillingNext
  \/ Only("transcription") /\ TranscriptionNext
  \/ Only("voice") /\ VoiceNext
  \/ Only("erasure") /\ ErasureNext
  \/ Only("admission") /\ AdmissionNext
  \/ Only("sessions") /\ SessionNext
  \/ Only("agents") /\ RuntimesNext
  \/ Only("dreams") /\ DreamNext
  \/ Only("connections") /\ ConnectionsNext
  \/ Only("credentials") /\ CredentialsNext

ServicesSpec == ServicesInit /\ [][ServicesNext]_serviceVars

\* The fairness of each service, as its module states it.
ServicesFairness ==
  /\ WF_chatVars(Only("chat") /\ Reap)
  /\ \A t \in Turns : WF_chatVars(Only("chat") /\ Expire(t))
  /\ \A k \in JobKinds : WF_uploadVars(Only("uploads") /\ JobProgress(k))
  /\ \A r \in Requests : WF_mediaVars(Only("media") /\ reap(r))
  /\ \A k \in Checkouts : WF_billingVars(Only("billing") /\ handleCheckoutCompleted(k))
  /\ WF_transcriptionVars(Only("transcription") /\ ClaimLapses)
  /\ \A w \in Transcribers : WF_transcriptionVars(Only("transcription") /\ TranscriptionStep(w))
  /\ \A p \in Voices \ VoiceRequests : WF_voiceVars(Only("voice") /\ VoiceStep(p))
  /\ \A a \in Users : WF_erasureVars(Only("erasure") /\ WorkEnds(a))
  /\ \A a \in Users : WF_erasureVars(Only("erasure") /\ LeaseEnds(a))
  /\ \A w \in Sweepers : WF_erasureVars(Only("erasure") /\ SweeperStep(w))
  /\ \A p \in Syncers : WF_runtimeVars(Only("agents") /\ SyncStep(p))
  /\ \A b \in Builders : WF_runtimeVars(Only("agents") /\ BuildStep(b))
  /\ WF_runtimeVars(Only("agents") /\ SyncLeaseLapses)
  /\ WF_runtimeVars(Only("agents") /\ BuildLapses)
  /\ \A p \in Dreamers : WF_dreamVars(Only("dreams") /\ DreamStep(p))
  /\ WF_dreamVars(Only("dreams") /\ \E p \in Dreamers : ClaimSweep(p))
  /\ WF_dreamVars(Only("dreams") /\ \E r \in Turns : ReapDream(r))
  /\ WF_dreamVars(Only("dreams") /\ AbandonedRunLapses)
  /\ WF_dreamVars(Only("dreams") /\ AbandonedSweepLapses)
  /\ WF_dreamVars(Only("dreams") /\ NewDay)

FairServicesSpec == ServicesSpec /\ ServicesFairness

-----------------------------------------------------------------------------
(* What the services together promise of their work.                       *)

\* Whatever a user's manna is reserved for - a chat turn, a dream, a
\* generation, a dictation, a voice note - is delivered and paid or refunded in the end,
\* though processes die at any step, calls hang and refunds fail.
PaidJobIsOpen ==
  ReservationIsOpen \/ GenerationIsOpen \/ DictationIsOpen \/ NoteIsOpen

EveryPaidJobEnds == PaidJobIsOpen ~> ~PaidJobIsOpen

\* Work that is recorded for a background worker - the cleanup of a multipart,
\* the event of a quarantine, an erasure, the build of an agent and the new
\* revision of its runtime, a dream that has begun - is done in the end or left
\* to an operator as failed, though sinks fail, workers die and claims lapse.
RecordedJobIsOpen ==
  \/ UploadJobIsOpen \/ ErasureIsOpen
  \/ service = "agents" /\ RuntimeIsOpen
  \/ service = "dreams" /\ DreamIsOpen

EveryRecordedJobEnds == RecordedJobIsOpen ~> ~RecordedJobIsOpen
=============================================================================
