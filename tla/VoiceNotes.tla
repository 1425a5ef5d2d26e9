------------------------------ MODULE VoiceNotes ------------------------------
(***************************************************************************)
(* The voice note of one chat message (apps/api/src/services/              *)
(* voice-kernel.ts): its job, one execution for each generation of the     *)
(* job, the private audio file and the attachment.  The owner's requests   *)
(* and three of the four loops of server.ts work on them (direct jobs,     *)
(* stale executions, orphaned outputs); the loops of a process do not wait *)
(* for each other, and one that overruns its deadline overlaps the next.   *)
(*                                                                         *)
(* All generations have the same text and here the same audio: one file    *)
(* under one digest, which every execution with an output refers to.       *)
(*                                                                         *)
(* What an actor has still to do is a sequence of steps.  An error goes to *)
(* the catch clause of processDirectVoiceJob if one is open (giveUp); that *)
(* of synthesize continues with recoverFailedExecution.                    *)
(*                                                                         *)
(* Every row that a loop reads counts as old: a row that is too young for  *)
(* it is a tick that does not happen.                                      *)
(***************************************************************************)
EXTENDS Sequences, Naturals

CONSTANTS
  VoiceRequests, DirectLoops, StaleLoops, OrphanLoops,  \* the actors
  ProcessOf,       \* the API process of each
  MaxNotes,        \* bound: generations of the job (100 in the code)
  MaxVoiceFaults   \* bound: failed or unacknowledged calls, crashes,
                   \* requests for a note that is under way

Voices == VoiceRequests \cup DirectLoops \cup StaleLoops \cup OrphanLoops
Processes == {ProcessOf[p] : p \in Voices}
Generations == 1..MaxNotes

ASSUME VoiceAssumption == MaxNotes \in Nat /\ MaxVoiceFaults \in Nat

VARIABLES
  note,        \* direct_voice_jobs: status, generation, execution_id (0: null), refresh_state
  execution,   \* voice_executions by generation, and whether its debit is not reversed
  audioFile,   \* the file is in the private root
  attached,    \* executions the message's attachments name
  dirty,       \* privateOutputDirty of each process
  syntheses,   \* calls of the provider for each generation
  todo,
  voiceFaults

voiceRows == <<note, execution, audioFile, attached>>
voiceVars == <<voiceRows, dirty, syntheses, todo, voiceFaults>>

VoiceInit ==
  /\ note = [status |-> "none", generation |-> 1, bound |-> 0, refresh |-> "none"]
  /\ execution = [g \in Generations |-> [status |-> "none", output |-> FALSE, paid |-> FALSE]]
  /\ audioFile = FALSE /\ attached = {}
  /\ dirty = [n \in Processes |-> FALSE]
  /\ syntheses = [g \in Generations |-> 0]
  /\ todo = [p \in Voices |-> <<>>]
  /\ voiceFaults = 0

Do(what, g) == [do |-> what, gen |-> g]
Doing(p, what) == todo[p] # <<>> /\ Head(todo[p]).do = what
Gen(p) == Head(todo[p]).gen
Proceed(p, list) == todo' = [todo EXCEPT ![p] = list \o Tail(@)]
Return(p, list) == todo' = [todo EXCEPT ![p] = list]
Throw(p) == Return(p, SelectSeq(Tail(todo[p]), LAMBDA s : s.do = "giveUp"))

VoiceFault == voiceFaults < MaxVoiceFaults /\ voiceFaults' = voiceFaults + 1

\* A transaction commits; or it fails, or its acknowledgement is lost.
VoiceTx(tx, done, handler) ==
  \/ tx /\ done /\ UNCHANGED voiceFaults
  \/ VoiceFault /\ (tx \/ UNCHANGED voiceRows) /\ handler

SetNote(status, bound) ==
  note' = [note EXCEPT !.status = status, !.bound = bound]
SetExecution(g, status) ==
  execution' = [execution EXCEPT ![g].status = status]

-----------------------------------------------------------------------------
(* What a failed execution leaves behind.                                  *)

\* Everything but what was delivered is refunded.
failExecution(p) ==
  /\ \E s \in {"fail", "tryFail", "stale"} : Doing(p, s)
  /\ LET g == Gen(p)
         e == execution[g]
         more == IF Doing(p, "stale") THEN <<Do("clean", g)>> ELSE <<>>
     IN IF e.status \in {"none", "completed", "failed"}
        THEN Proceed(p, more) /\ UNCHANGED <<voiceRows, voiceFaults>>
        ELSE VoiceTx(/\ execution' = [execution EXCEPT ![g].paid = FALSE,
                          ![g].status = IF e.output THEN "artifact_cleanup_pending" ELSE "failed"]
                     /\ UNCHANGED <<note, audioFile, attached>>,
                     Proceed(p, more),
                     IF Doing(p, "tryFail") THEN Proceed(p, <<>>) ELSE Throw(p))
  /\ UNCHANGED <<dirty, syntheses>>

\* Of the executions to clean up one, by its id, is elected.
ElectedOnly(g) ==
  \A h \in Generations : execution[h].status = "artifact_cleanup_pending" => g <= h

\* Another execution may have published the same bytes.
MayDelete(g) ==
  /\ \A h \in Generations \ {g} :
       execution[h].output => execution[h].status \in {"failed", "artifact_cleanup_pending"}
  /\ ElectedOnly(g)

\* The file goes before the row says so.
cleanupFailedArtifact(p) ==
  /\ \E s \in {"clean", "tryClean"} : Doing(p, s)
  /\ LET g == Gen(p)
         kept == audioFile /\ ~MayDelete(g)
     IN IF execution[g].status # "artifact_cleanup_pending"
        THEN Proceed(p, <<>>) /\ UNCHANGED <<execution, audioFile, voiceFaults>>
        ELSE \/ /\ audioFile' = kept
                /\ execution' = [execution EXCEPT ![g].status = "failed", ![g].output = FALSE]
                /\ Proceed(p, <<>>) /\ UNCHANGED voiceFaults
             \/ /\ VoiceFault
                /\ audioFile' \in {audioFile, kept} /\ UNCHANGED execution
                /\ IF Doing(p, "tryClean") THEN Proceed(p, <<>>) ELSE Throw(p)
  /\ UNCHANGED <<note, attached, dirty, syntheses>>

IsReferenced == \E g \in Generations : execution[g].output /\ execution[g].status # "failed"

\* scanOrphanedOutputs: before an admission or a publication, when the process
\* has failed to publish since the last scan.
Scans(p, done, handler) ==
  /\ \/ /\ audioFile' = (audioFile /\ IsReferenced)
        /\ dirty' = [dirty EXCEPT ![ProcessOf[p]] = FALSE]
        /\ done /\ UNCHANGED voiceFaults
     \/ VoiceFault /\ handler /\ UNCHANGED <<audioFile, dirty>>
  /\ UNCHANGED <<note, execution, attached, syntheses>>

\* recoverFailedExecution: its three steps swallow their errors.
Recover(g) == <<Do("tryFail", g), Do("tryClean", g), Do("scan", g)>>

reconcileOrphanedOutputs(p) ==
  /\ Doing(p, "scan")
  /\ IF dirty[ProcessOf[p]] THEN Scans(p, Proceed(p, <<>>), Proceed(p, <<>>))
     ELSE Proceed(p, <<>>) /\ UNCHANGED <<voiceRows, dirty, syntheses, voiceFaults>>

-----------------------------------------------------------------------------
(* synthesize, with deferSettlement.                                       *)

scanBefore(p) ==
  /\ dirty[ProcessOf[p]]
  /\ \/ Doing(p, "admit") /\ Scans(p, UNCHANGED todo, Throw(p))
     \/ Doing(p, "publish") /\ Scans(p, UNCHANGED todo, Proceed(p, Recover(Gen(p))))

\* The key of a generation admits one execution, whoever asks for it; the
\* debit, the voice or the quote may be refused.
admit(p) ==
  /\ Doing(p, "admit") /\ ~dirty[ProcessOf[p]]
  /\ LET g == Gen(p)
     IN \/ /\ execution[g].status = "none"
           /\ VoiceTx(/\ execution' = [execution EXCEPT ![g].status = "provider_started",
                                                        ![g].paid = TRUE]
                      /\ UNCHANGED <<note, audioFile, attached>>,
                      Proceed(p, <<Do("provider", g)>>), Throw(p))
        \/ /\ execution[g].status = "completed"
           /\ Proceed(p, <<Do("bind", g)>>) /\ UNCHANGED <<voiceRows, voiceFaults>>
        \/ /\ execution[g].status # "completed"
           /\ Throw(p) /\ UNCHANGED <<voiceRows, voiceFaults>>
  /\ UNCHANGED <<dirty, syntheses>>

callProvider(p) ==
  /\ Doing(p, "provider")
  /\ syntheses' = [syntheses EXCEPT ![Gen(p)] = @ + 1]
  /\ Proceed(p, <<Do("transcode", Gen(p))>>) \/ Proceed(p, Recover(Gen(p)))
  /\ UNCHANGED <<voiceRows, dirty, voiceFaults>>

\* The number of rows is not checked.
markTranscoding(p) ==
  /\ Doing(p, "transcode")
  /\ LET g == Gen(p)
     IN VoiceTx(/\ IF execution[g].status = "provider_started"
                   THEN SetExecution(g, "transcoding") ELSE UNCHANGED execution
                /\ UNCHANGED <<note, audioFile, attached>>,
                Proceed(p, <<Do("publish", g)>>), Proceed(p, Recover(g)))
  /\ UNCHANGED <<dirty, syntheses>>

\* The bytes are written inside the transaction that refers to them.
publishOutput(p) ==
  /\ Doing(p, "publish") /\ ~dirty[ProcessOf[p]]
  /\ LET g == Gen(p)
         isMine == execution[g].status = "transcoding"
         published == [execution EXCEPT ![g].output = TRUE]
     IN \/ /\ isMine
           /\ audioFile' = TRUE /\ execution' = published
           /\ Proceed(p, <<Do("defer", g)>>) /\ UNCHANGED <<dirty, voiceFaults>>
        \/ /\ IF isMine
              THEN /\ VoiceFault
                   /\ \/ audioFile' \in {audioFile, TRUE} /\ UNCHANGED execution
                      \/ audioFile' = TRUE /\ execution' = published
              ELSE audioFile' = TRUE /\ UNCHANGED <<execution, voiceFaults>>
           /\ dirty' = [dirty EXCEPT ![ProcessOf[p]] = TRUE]
           /\ Proceed(p, Recover(g))
        \/ \* the audio is invalid
           /\ Proceed(p, Recover(g)) /\ UNCHANGED <<audioFile, execution, dirty, voiceFaults>>
  /\ UNCHANGED <<note, attached, syntheses>>

deferSettlement(p) ==
  /\ Doing(p, "defer")
  /\ \/ /\ execution[Gen(p)].status = "transcoding"
        /\ Proceed(p, <<Do("bind", Gen(p))>>) /\ UNCHANGED voiceFaults
     \/ /\ IF execution[Gen(p)].status = "transcoding" THEN VoiceFault ELSE UNCHANGED voiceFaults
        /\ Proceed(p, Recover(Gen(p)))
  /\ UNCHANGED <<voiceRows, dirty, syntheses>>

-----------------------------------------------------------------------------
(* The job.                                                                *)

\* directVoiceNote: a failed job begins its next generation.
directVoiceNote(p) ==
  /\ p \in VoiceRequests /\ todo[p] = <<>>
  /\ \/ note.status = "none" /\ SetNote("queued", 0) /\ UNCHANGED voiceFaults
     \/ /\ note.status = "failed" /\ note.generation < MaxNotes
        /\ note' = [note EXCEPT !.status = "queued", !.bound = 0, !.generation = @ + 1]
        /\ UNCHANGED voiceFaults
     \/ note.status \notin {"none", "failed", "completed"} /\ VoiceFault /\ UNCHANGED note
  /\ Return(p, <<Do("claim", 0)>>)
  /\ UNCHANGED <<execution, audioFile, attached, dirty, syntheses>>

Refresh == IF note.refresh = "pending" THEN <<Do("refresh", 0)>> ELSE <<>>

\* processDirectVoiceJob.
claim(p) ==
  /\ Doing(p, "claim")
  /\ LET g == note.generation
     IN \/ /\ note.status = "queued"
           /\ VoiceTx(SetNote("generating", 0) /\ UNCHANGED <<execution, audioFile, attached>>,
                      Return(p, <<Do("admit", g), Do("giveUp", g)>>), Return(p, <<>>))
        \/ \* the message's text has changed
           /\ note.status = "queued" /\ SetNote("failed", 0) /\ Return(p, <<>>)
           /\ UNCHANGED <<execution, audioFile, attached, voiceFaults>>
        \/ /\ note.status # "queued"
           /\ Return(p, CASE note.status = "completed" -> Refresh
                          [] note.status = "attachment_pending" -> <<Do("settle", 0)>>
                          [] OTHER -> <<>>)
           /\ UNCHANGED <<voiceRows, voiceFaults>>
  /\ UNCHANGED <<dirty, syntheses>>

OwnsNote(g) == note.status = "generating" /\ note.generation = g

bindExecution(p) ==
  /\ Doing(p, "bind")
  /\ LET g == Gen(p)
     IN IF OwnsNote(g)
        THEN VoiceTx(SetNote("attachment_pending", g) /\ UNCHANGED <<execution, audioFile, attached>>,
                     Proceed(p, <<Do("settle", 0)>>), Throw(p))
        ELSE Proceed(p, <<Do("fail", g), Do("clean", g)>>) /\ UNCHANGED <<voiceRows, voiceFaults>>
  /\ UNCHANGED <<dirty, syntheses>>

\* The catch clause of processDirectVoiceJob.
giveUpJob(p) ==
  /\ Doing(p, "giveUp")
  /\ IF OwnsNote(Gen(p))
     THEN VoiceTx(SetNote("failed", note.bound) /\ UNCHANGED <<execution, audioFile, attached>>,
                  Return(p, <<>>), Return(p, <<>>))
     ELSE Return(p, <<>>) /\ UNCHANGED <<voiceRows, voiceFaults>>
  /\ UNCHANGED <<dirty, syntheses>>

\* Mutant: an execution that was refunded meanwhile still has its output.
HasOutput(g) == g # 0 /\ execution[g].output

HasPlayableOutput(g) == g # 0 /\ execution[g].status = "transcoding" /\ execution[g].output

\* settleDirectVoiceAttachment: the attachment, the charge and the job in one
\* transaction, if the message is still there to be spoken.
settle(p) ==
  /\ Doing(p, "settle")
  /\ \/ /\ note.status = "attachment_pending" /\ HasPlayableOutput(note.bound)
        /\ VoiceTx(/\ attached' = attached \cup {note.bound}
                   /\ SetExecution(note.bound, "completed")
                   /\ note' = [note EXCEPT !.status = "completed", !.refresh = "pending"]
                   /\ UNCHANGED audioFile,
                   Return(p, <<Do("refresh", 0)>>), Throw(p))
     \/ /\ note.status = "completed"
        /\ Return(p, Refresh) /\ UNCHANGED <<voiceRows, voiceFaults>>
     \/ /\ note.status # "completed"
        /\ note.status = "attachment_pending" => ~HasPlayableOutput(note.bound)
        /\ Throw(p) /\ UNCHANGED <<voiceRows, voiceFaults>>
     \/ \* the message is not eligible any more
        /\ Proceed(p, (IF note.bound = 0 THEN <<>>
                       ELSE <<Do("fail", note.bound), Do("clean", note.bound)>>)
                      \o <<Do("dropBound", 0)>>)
        /\ UNCHANGED <<voiceRows, voiceFaults>>
  /\ UNCHANGED <<dirty, syntheses>>

\* The event, then the mark that it was published.
publishRefresh(p) ==
  /\ Doing(p, "refresh")
  /\ VoiceTx(/\ note' = IF note.refresh = "pending" THEN [note EXCEPT !.refresh = "published"]
                        ELSE note
             /\ UNCHANGED <<execution, audioFile, attached>>,
             Return(p, <<>>), Return(p, <<>>))
  /\ UNCHANGED <<dirty, syntheses>>

-----------------------------------------------------------------------------
(* reconcileDirectVoiceJobs: what it has read of the job decides what it   *)
(* does, after further reads, to the job it then finds.                    *)

readJob(p) ==
  /\ p \in DirectLoops /\ todo[p] = <<>>
  /\ \/ note.status = "completed" /\ note.refresh = "pending" /\ Return(p, <<Do("refresh", 0)>>)
     \/ note.status = "queued" /\ Return(p, <<Do("claim", 0)>>)
     \/ note.status = "attachment_pending" /\ Return(p, <<Do("checkBound", note.bound)>>)
     \/ note.status = "generating" /\ Return(p, <<Do("checkKey", note.generation)>>)
  /\ UNCHANGED <<voiceRows, dirty, syntheses, voiceFaults>>

\* Mutant: a bound execution that was refunded meanwhile is settled again.
SettleAnyBound(g) == <<Do("claim", 0)>>

RecoverBound(g) ==
  CASE execution[g].status = "failed" -> <<Do("dropBound", 0)>>
    [] execution[g].status = "artifact_cleanup_pending" -> <<Do("clean", g), Do("dropBound", 0)>>
    [] OTHER -> <<Do("claim", 0)>>

checkBound(p) ==
  /\ Doing(p, "checkBound")
  /\ Return(p, RecoverBound(Gen(p)))
  /\ UNCHANGED <<voiceRows, dirty, syntheses, voiceFaults>>

checkKey(p) ==
  /\ Doing(p, "checkKey")
  /\ LET g == Gen(p)
     IN Return(p, CASE HasPlayableOutput(g) -> <<Do("adopt", g), Do("claim", 0)>>
                    [] execution[g].status \in {"failed", "artifact_cleanup_pending"} ->
                         <<Do("clean", g), Do("dropAny", 0)>>
                    [] execution[g].status = "none" -> <<Do("requeue", 0), Do("claim", 0)>>
                    [] OTHER -> <<Do("fail", g), Do("clean", g), Do("dropGenerating", 0)>>)
  /\ UNCHANGED <<voiceRows, dirty, syntheses, voiceFaults>>

\* The generation is not compared.
recoverJob(p) ==
  /\ Doing(p, "adopt") \/ Doing(p, "requeue")
  /\ IF note.status = "generating"
     THEN VoiceTx(/\ IF Doing(p, "adopt") THEN SetNote("attachment_pending", Gen(p))
                     ELSE SetNote("queued", 0)
                  /\ UNCHANGED <<execution, audioFile, attached>>,
                  Proceed(p, <<>>), Return(p, <<>>))
     ELSE Proceed(p, <<>>) /\ UNCHANGED <<voiceRows, voiceFaults>>
  /\ UNCHANGED <<dirty, syntheses>>

DropsFrom ==
  [dropBound |-> {"attachment_pending"},
   dropAny |-> {"generating", "attachment_pending"},
   dropGenerating |-> {"generating"}]

dropJob(p) ==
  /\ \E s \in DOMAIN DropsFrom :
       /\ Doing(p, s)
       /\ IF note.status \in DropsFrom[s]
          THEN VoiceTx(SetNote("failed", 0) /\ UNCHANGED <<execution, audioFile, attached>>,
                       Proceed(p, <<>>), Throw(p))
          ELSE Proceed(p, <<>>) /\ UNCHANGED <<voiceRows, voiceFaults>>
  /\ UNCHANGED <<dirty, syntheses>>

-----------------------------------------------------------------------------
(* The other loops, and crashes.                                           *)

\* The execution of the generation that the job is at belongs to the job.
IsStaleExecution(g) ==
  /\ execution[g].status \in {"provider_started", "transcoding", "artifact_cleanup_pending"}
  /\ ~(note.status \in {"queued", "generating", "attachment_pending"} /\ note.generation = g)

reconcileStaleExecutions(p) ==
  /\ p \in StaleLoops /\ todo[p] = <<>>
  /\ \E g \in Generations : IsStaleExecution(g)
  /\ Return(p, SelectSeq([g \in Generations |-> Do("stale", g)],
                         LAMBDA s : IsStaleExecution(s.gen)))
  /\ UNCHANGED <<voiceRows, dirty, syntheses, voiceFaults>>

orphanTick(p) ==
  /\ p \in OrphanLoops /\ todo[p] = <<>> /\ dirty[ProcessOf[p]]
  /\ Return(p, <<Do("scan", 0)>>)
  /\ UNCHANGED <<voiceRows, dirty, syntheses, voiceFaults>>

\* A process that starts again is dirty.
VoiceCrash(n) ==
  /\ VoiceFault
  /\ \E p \in Voices : ProcessOf[p] = n /\ todo[p] # <<>>
  /\ todo' = [p \in Voices |-> IF ProcessOf[p] = n THEN <<>> ELSE todo[p]]
  /\ dirty' = [dirty EXCEPT ![n] = TRUE]
  /\ UNCHANGED <<voiceRows, syntheses>>

VoiceStep(p) ==
  \/ failExecution(p) \/ cleanupFailedArtifact(p) \/ reconcileOrphanedOutputs(p)
  \/ scanBefore(p) \/ admit(p) \/ callProvider(p) \/ markTranscoding(p) \/ publishOutput(p)
  \/ deferSettlement(p) \/ claim(p) \/ bindExecution(p) \/ giveUpJob(p) \/ settle(p)
  \/ publishRefresh(p) \/ readJob(p) \/ checkBound(p) \/ checkKey(p) \/ recoverJob(p)
  \/ dropJob(p) \/ reconcileStaleExecutions(p) \/ orphanTick(p)

VoiceNext ==
  \/ \E p \in Voices : directVoiceNote(p) \/ VoiceStep(p)
  \/ \E n \in Processes : VoiceCrash(n)

\* The loops have a deadline and run again; a request may hang for ever.
VoiceSpec ==
  /\ VoiceInit /\ [][VoiceNext]_voiceVars
  /\ \A p \in Voices \ VoiceRequests : WF_voiceVars(VoiceStep(p))

-----------------------------------------------------------------------------
(* Properties.                                                             *)

\* voice-kernel.ts: "A reservation settles only when a playable, durable
\* attachment exists."  Whatever overlaps, one execution at most is paid for
\* in the end, it is the one the message shows and its file is there; what has
\* failed is refunded; and no generation calls the provider twice.
VoiceNotesAreExact ==
  /\ note.status = "completed" =>
       /\ attached = {note.bound} /\ audioFile
       /\ execution[note.bound].status = "completed" /\ execution[note.bound].paid
  /\ \A g \in Generations :
       /\ execution[g].status = "completed" => note.status = "completed" /\ note.bound = g
       /\ execution[g].status \in {"failed", "artifact_cleanup_pending"} => ~execution[g].paid
       /\ syntheses[g] <= 1

\* A requested note ends when it is attached and the client is told, or has
\* failed, and no execution keeps a reservation and no file stays without one.
NoteIsOpen ==
  /\ note.status # "none"
  /\ ~ /\ note.status = "failed" \/ note.refresh = "published"
       /\ \A g \in Generations : execution[g].status \in {"none", "failed", "completed"}
       /\ audioFile => note.status = "completed"
=============================================================================
