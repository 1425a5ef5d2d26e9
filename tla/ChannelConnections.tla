------------------------- MODULE ChannelConnections -------------------------
(***************************************************************************)
(* One hosted channel connection (apps/api/src/routes/channels.ts): its    *)
(* row, the pairing requests of its senders, and its named account in the  *)
(* gateway's configuration (packages/gateway/src/channel-sync.ts).         *)
(*                                                                         *)
(* The requests of the lifecycle run one at a time, under an advisory lock *)
(* that belongs to a database session and is gone with it.  Pairing,       *)
(* denials and the change of the agent take no lease.  A call's own        *)
(* identity stands for the random ids it makes: the generation of the      *)
(* mapping (_runtimeBindingId), the nonces of its markers                  *)
(* (_runtimeOperation, _pairingDecision) and the credential's generation.  *)
(***************************************************************************)
EXTENDS Integers, FiniteSets

CONSTANTS
  LifecycleCalls,       \* requests under the lease, each with one operation
  NoCall,
  Pairings,             \* pairing requests that the runtime may forward
  PeerOf,               \* the sender of each
  Listed,               \* the senders whom the owner lists when activating
  Agents,               \* the agents that the owner may attach
  PendingLimit,         \* pending requests of other senders that refuse one more
  MaxConnectionFaults   \* bound: failed calls, crashes and lost sessions

ASSUME ChannelConnectionsAssumption ==
  /\ NoCall \notin LifecycleCalls /\ Agents # {}
  /\ PendingLimit \in Nat /\ MaxConnectionFaults \in Nat

VARIABLES
  link,      \* the row of channel_connections
  pairing,   \* the rows of channel_pairing_requests
  gateway,   \* the enabled account's mapping in openclaw.json
  lifecycle, \* the holder of the lifecycle lease
  handler,   \* where each call is, the row it works with, its pairing request
  current,   \* activations since whose read updated_at has not changed
  excused,   \* history: a fault after which an active row may have no runtime
  upsets

connectionVars == <<link, pairing, gateway, lifecycle, handler, current, excused, upsets>>

NoMapping == [binding |-> NoCall, allow |-> {}, epoch |-> NoCall, agent |-> NoCall]

NoLink ==
  [state |-> "inactive", agent |-> NoCall, binding |-> NoCall, allow |-> {},
   epoch |-> NoCall, operation |-> NoCall, decision |-> NoCall]

Idle == [op |-> "none", at |-> "idle", row |-> NoLink, request |-> NoCall]

\* What ensureHostedChannelAccount is told of a row.
MappingOf(row) ==
  [binding |-> row.binding, allow |-> row.allow, epoch |-> row.epoch, agent |-> row.agent]

NoCalls ==
  /\ gateway = IF link.state = "active" THEN MappingOf(link) ELSE NoMapping
  /\ pairing = [q \in Pairings |-> [status |-> "none", nonce |-> NoCall]]
  /\ handler = [c \in LifecycleCalls |-> Idle]
  /\ lifecycle = NoCall /\ current = {} /\ excused = FALSE /\ upsets = 0

\* A connection that was just stored with some agent, or is active since before
\* the mappings had generations.
ConnectionsInit ==
  /\ \E state \in {"inactive", "active"} :
       link = [NoLink EXCEPT !.state = state, !.agent = CHOOSE agent \in Agents : TRUE]
  /\ NoCalls

NoConnections == link = NoLink /\ NoCalls

Upset == upsets < MaxConnectionFaults /\ upsets' = upsets + 1

Exists == link.state # "deleted"
HandlerAt(c, op, at) == handler[c].op = op /\ handler[c].at = at
ReadRow(c) == handler[c].row

ThenAt(c, at) == handler' = [handler EXCEPT ![c].at = at] /\ UNCHANGED lifecycle

\* The handler returns or throws: withChannelLifecycleLease unlocks.
EndHandler(c) ==
  /\ handler' = [handler EXCEPT ![c] = [Idle EXCEPT !.at = "done"]]
  /\ lifecycle' = IF lifecycle = c THEN NoCall ELSE lifecycle

ThenAtOrEnd(c, at) == IF at = "done" THEN EndHandler(c) ELSE ThenAt(c, at)

\* Every update of the row sets updated_at.
Update(row) == link' = row /\ current' = {}

KeepRow == UNCHANGED <<link, pairing, current>>

-----------------------------------------------------------------------------
(* The gateway's configuration.  A call of it may fail before or after the *)
(* write.                                                                  *)

sync(c, mapping, next, failed) ==
  /\ KeepRow /\ UNCHANGED excused
  /\ \/ /\ gateway' = mapping
        /\ ThenAtOrEnd(c, next) /\ UNCHANGED upsets
     \/ /\ Upset
        /\ gateway' \in {gateway, mapping}
        /\ ThenAtOrEnd(c, failed)

ensureHostedChannelAccount(c, mapping, next, failed) == sync(c, mapping, next, failed)

removeHostedChannelAccount(c, next, failed) == sync(c, NoMapping, next, failed)

-----------------------------------------------------------------------------
(* The lease.                                                              *)

\* The handler reads the row that it will compare with.
enter(c, op, q) ==
  /\ handler[c].at = "idle" /\ lifecycle = NoCall /\ Exists
  /\ op \in {"activate", "approve"} => link.agent # NoCall
  /\ op = "approve" => link.state = "active" /\ q \in Pairings /\ pairing[q].status # "none"
  /\ op # "approve" => q = NoCall
  /\ handler' = [handler EXCEPT ![c] = [op |-> op, at |-> "read", row |-> link, request |-> q]]
  /\ lifecycle' = c
  /\ current' = IF op = "activate" THEN current \cup {c} ELSE current
  /\ UNCHANGED <<link, pairing, gateway, excused, upsets>>

\* A refusal before the first write: an unprovisioned agent, a bot that another
\* connection has, a wrong pairing code, a row that has changed or is gone.
refuseRequest(c) ==
  /\ handler[c].at = "read"
  /\ EndHandler(c)
  /\ KeepRow /\ UNCHANGED <<gateway, excused, upsets>>

\* The process dies, or a statement fails for which the handler has no catch.
HandlerDies(c) ==
  /\ handler[c].at \notin {"idle", "queued", "read", "done"} /\ Upset
  /\ EndHandler(c)
  /\ excused' = (excused \/ handler[c].at \in {"reject", "cutoff", "shut"})
  /\ KeepRow /\ UNCHANGED gateway

\* The database session that holds the lock is lost; the handler works on.
SessionLost ==
  /\ lifecycle # NoCall /\ Upset
  /\ lifecycle' = NoCall /\ excused' = TRUE
  /\ KeepRow /\ UNCHANGED <<gateway, handler>>

-----------------------------------------------------------------------------
(* Retry: the stored token, or a new one, is validated again, and an       *)
(* active account is restarted with it.                                    *)

retry(c, rotate, valid) ==
  LET restarted == valid /\ link.state = "active"
      row == [link EXCEPT !.state = IF valid THEN @ ELSE "inactive",
                          !.epoch = IF rotate THEN c ELSE @,
                          !.binding = IF restarted THEN c ELSE @,
                          !.operation = IF restarted THEN c ELSE @]
  IN /\ HandlerAt(c, "retry", "read") /\ Exists
     /\ rotate \/ link.epoch = ReadRow(c).epoch
     /\ Update(row)
     /\ IF link.state = "active"
        THEN /\ handler' = [handler EXCEPT ![c].row = row,
                                       ![c].at = IF valid THEN "detach" ELSE "backout"]
             /\ UNCHANGED lifecycle
        ELSE EndHandler(c)
     /\ UNCHANGED <<pairing, gateway, excused, upsets>>

\* The account is toggled, so that it resolves the new credential.
detach(c) == HandlerAt(c, "retry", "detach") /\ removeHostedChannelAccount(c, "publish", "undo")

\* The transaction after the publication, of a retry or an activation.
StillMine(c) ==
  link.state = "active" /\ link.agent = ReadRow(c).agent /\ link.operation = c

finish(c) ==
  /\ handler[c].op \in {"retry", "activate"} /\ handler[c].at = "finish"
  /\ \/ /\ StillMine(c)
        /\ Update([link EXCEPT !.operation = NoCall])
        /\ EndHandler(c) /\ UNCHANGED <<pairing, excused, upsets>>
     \/ /\ ~StillMine(c)
        /\ ThenAt(c, "backout") /\ KeepRow /\ UNCHANGED <<excused, upsets>>
     \/ /\ Upset /\ handler[c].op = "retry"
        /\ ThenAt(c, "undo") /\ UNCHANGED pairing
        /\ \/ UNCHANGED <<link, current, excused>>
           \/ /\ StillMine(c) /\ excused' = TRUE
              /\ Update([link EXCEPT !.operation = NoCall])
  /\ UNCHANGED gateway

\* The catch of a failed publication, and its conditional update.
undo(c) == handler[c].at = "undo" /\ removeHostedChannelAccount(c, "revoke", "revoke")

revoke(c) ==
  /\ handler[c].at = "revoke"
  /\ IF link.state = "active" /\ link.operation = c
     THEN Update([link EXCEPT !.state = "inactive"])
     ELSE UNCHANGED <<link, current>>
  /\ EndHandler(c)
  /\ UNCHANGED <<pairing, gateway, excused, upsets>>

\* The row belongs to a later mutation, or is inactive already.
backOut(c) == handler[c].at = "backout" /\ removeHostedChannelAccount(c, "done", "done")

-----------------------------------------------------------------------------
(* Activation.                                                             *)

\* The row is active before its SecretRef is published.
activate(c, body) ==
  LET row == [link EXCEPT !.state = "active", !.binding = c, !.allow = body,
                          !.operation = c, !.decision = NoCall]
  IN /\ HandlerAt(c, "activate", "read") /\ Exists /\ c \in current
     /\ Update(row)
     /\ handler' = [handler EXCEPT ![c].row = row, ![c].at = "publish"]
     /\ UNCHANGED <<pairing, gateway, lifecycle, excused, upsets>>

activateInvalid(c) ==
  /\ HandlerAt(c, "activate", "read")
  /\ ThenAt(c, IF ReadRow(c).state = "active" THEN "expel" ELSE "reject")
  /\ KeepRow /\ UNCHANGED <<gateway, excused, upsets>>

expel(c) == handler[c].at = "expel" /\ removeHostedChannelAccount(c, "reject", "reject")

reject(c) ==
  /\ handler[c].at = "reject"
  /\ IF Exists THEN Update([link EXCEPT !.state = "inactive"]) ELSE UNCHANGED <<link, current>>
  /\ EndHandler(c)
  /\ UNCHANGED <<pairing, gateway, excused, upsets>>

publishAccount(c) ==
  /\ handler[c].op \in {"retry", "activate"} /\ handler[c].at = "publish"
  /\ ensureHostedChannelAccount(c, MappingOf(ReadRow(c)), "finish", "undo")

-----------------------------------------------------------------------------
(* Deactivation and deletion revoke the row first.  The refunds of a       *)
(* deletion are ChannelTurns's.                                            *)

deactivate(c) ==
  /\ handler[c].op \in {"deactivate", "delete"} /\ handler[c].at = "read" /\ Exists
  /\ Update([link EXCEPT !.state = "inactive"])
  /\ pairing' = [q \in Pairings |->
                   IF pairing[q].status = "pending" THEN [pairing[q] EXCEPT !.status = "expired"]
                   ELSE pairing[q]]
  /\ ThenAt(c, "withdraw")
  /\ UNCHANGED <<gateway, excused, upsets>>

withdraw(c) == handler[c].at = "withdraw" /\ removeHostedChannelAccount(c, "stopped", "failing")

\* configuration_error, of the row that is inactive already.
stopFailed(c) ==
  /\ handler[c].at = "failing"
  /\ Update(link) /\ EndHandler(c)
  /\ UNCHANGED <<pairing, gateway, excused, upsets>>

stopped(c) ==
  /\ handler[c].at = "stopped"
  /\ IF handler[c].op = "deactivate"
     THEN /\ IF Exists THEN Update([link EXCEPT !.state = "inactive"])
             ELSE UNCHANGED <<link, current>>
          /\ UNCHANGED pairing
     ELSE /\ Update([link EXCEPT !.state = "deleted"])
          /\ pairing' = [q \in Pairings |-> [status |-> "gone", nonce |-> NoCall]]
  /\ EndHandler(c)
  /\ UNCHANGED <<gateway, excused, upsets>>

-----------------------------------------------------------------------------
(* Approval of a sender.                                                   *)

Peer(c) == PeerOf[handler[c].request]

\* Mutant: the longer list keeps the generation of the shorter one.
WidenedInPlace(row, c) == [row EXCEPT !.allow = @ \cup {Peer(c)}]

\* The list with the sender, under a new generation of the mapping.
Widened(row, c) == [row EXCEPT !.allow = @ \cup {Peer(c)}, !.binding = c]

Claims(c, nonce) == pairing[handler[c].request] = [status |-> "approved", nonce |-> nonce]

approve(c) ==
  LET q == handler[c].request
  IN /\ HandlerAt(c, "approve", "read")
     /\ link.state = "active" /\ link.agent = ReadRow(c).agent /\ link.decision = NoCall
     /\ pairing[q].status = "pending"
     /\ pairing' = [pairing EXCEPT ![q] = [status |-> "approved", nonce |-> c]]
     /\ Update([Widened(link, c) EXCEPT !.decision = c])
     /\ handler' = [handler EXCEPT ![c].row = link, ![c].at = "publish"]
     /\ UNCHANGED <<gateway, lifecycle, excused, upsets>>

apply(c) ==
  /\ HandlerAt(c, "approve", "publish")
  /\ ensureHostedChannelAccount(c, MappingOf(Widened(ReadRow(c), c)), "finish", "restore")

restore(c) ==
  /\ handler[c].at = "restore"
  /\ ensureHostedChannelAccount(c, MappingOf(ReadRow(c)), "compensate", "abandon")

abandon(c) ==
  handler[c].at = "abandon" /\ removeHostedChannelAccount(c, "compensateStopped", "compensateStopped")

\* The old metadata and request come back, unless somebody has decided since.
\* The unique index bears it: a sender on the list asks for no second pairing.
compensate(c) ==
  LET q == handler[c].request
      back == [link EXCEPT !.allow = ReadRow(c).allow, !.binding = ReadRow(c).binding,
                           !.operation = ReadRow(c).operation, !.decision = ReadRow(c).decision]
  IN /\ handler[c].at \in {"compensate", "compensateStopped"}
     /\ IF Exists /\ Claims(c, c) /\ link.decision = c
        THEN /\ \E status \in {"pending", "expired"} :
                  pairing' = [pairing EXCEPT ![q] = [status |-> status, nonce |-> NoCall]]
             /\ Update(back)
             /\ IF handler[c].at = "compensate" THEN EndHandler(c) ELSE ThenAt(c, "cutoff")
        ELSE KeepRow /\ ThenAt(c, "cutoff")
     /\ UNCHANGED <<gateway, excused, upsets>>

cutOff(c) == handler[c].at = "cutoff" /\ removeHostedChannelAccount(c, "shut", "shut")

\* Mutant: the row stays active.
shutQuietly(c) ==
  /\ handler[c].at = "shut" /\ EndHandler(c)
  /\ KeepRow /\ UNCHANGED <<gateway, excused, upsets>>

\* What is cut off is revoked, whatever became of the account.
shut(c) ==
  /\ handler[c].at = "shut"
  /\ IF Exists THEN Update([link EXCEPT !.state = "inactive"]) ELSE UNCHANGED <<link, current>>
  /\ EndHandler(c)
  /\ UNCHANGED <<pairing, gateway, excused, upsets>>

\* The markers go when the gateway has the new list; a lost answer shuts too.
Decided(c, marker) ==
  link.state = "active" /\ link.decision = marker /\ Claims(c, marker)

Clear(c) ==
  /\ Update([link EXCEPT !.decision = NoCall])
  /\ pairing' = [pairing EXCEPT ![handler[c].request].nonce = NoCall]

cleanup(c) ==
  /\ HandlerAt(c, "approve", "finish")
  /\ \/ Decided(c, c) /\ Clear(c) /\ EndHandler(c) /\ UNCHANGED upsets
     \/ ~Decided(c, c) /\ KeepRow /\ ThenAt(c, "cutoff") /\ UNCHANGED upsets
     \/ /\ Upset /\ ThenAt(c, "cutoff")
        /\ KeepRow \/ (Decided(c, c) /\ Clear(c))
  /\ UNCHANGED <<gateway, excused>>

\* An approval that was cut short is taken up by the next one of its request,
\* whose row bears the marker's nonce.
resume(c) ==
  /\ HandlerAt(c, "approve", "read")
  /\ ReadRow(c).decision # NoCall
  /\ Claims(c, ReadRow(c).decision)
  /\ ThenAt(c, "resume")
  /\ KeepRow /\ UNCHANGED <<gateway, excused, upsets>>

reapply(c) ==
  /\ handler[c].at = "resume"
  /\ ensureHostedChannelAccount(c, MappingOf(ReadRow(c)), "confirm", "done")

confirm(c) ==
  /\ handler[c].at = "confirm"
  /\ IF Decided(c, ReadRow(c).decision) /\ link.agent = ReadRow(c).agent
     THEN Clear(c) /\ EndHandler(c)
     ELSE KeepRow /\ ThenAt(c, "backout")
  /\ UNCHANGED <<gateway, excused, upsets>>

-----------------------------------------------------------------------------
(* What takes no lease, and the runtime's reports, which wait for it.      *)

\* channelRuntimeBindingMatches: the caller runs the published generation.
BindingMatches(mapping) ==
  link.state = "active" /\ mapping.binding = link.binding /\ mapping.agent = link.agent

\* A sender who is not on the account's list writes to the bot.
runtimePairing(q) ==
  LET waiting == {r \in Pairings : pairing[r].status = "pending"}
  IN /\ pairing[q].status = "none" /\ BindingMatches(gateway)
     /\ PeerOf[q] \notin gateway.allow
     /\ PeerOf[q] \notin {PeerOf[r] : r \in waiting}
     /\ Cardinality(waiting) < PendingLimit
     /\ pairing' = [pairing EXCEPT ![q].status = "pending"]
     /\ UNCHANGED <<link, gateway, lifecycle, handler, current, excused, upsets>>

Decide(q, status) ==
  /\ pairing[q].status = "pending"
  /\ pairing' = [pairing EXCEPT ![q].status = status]
  /\ UNCHANGED <<link, gateway, lifecycle, handler, current, excused, upsets>>

deny(q) == Decide(q, "denied")

\* expires_at passes, whether or not the row says so yet.
PairingExpires(q) == Decide(q, "expired")

\* The attachment of a managed Telegram bot, while it is inactive.
attach(agent) ==
  /\ link.state = "inactive" /\ agent # link.agent
  /\ Update([link EXCEPT !.agent = agent])
  /\ UNCHANGED <<pairing, gateway, lifecycle, handler, excused, upsets>>

Report(c) ==
  /\ handler[c].at = "idle" /\ gateway # NoMapping
  /\ handler' = [handler EXCEPT ![c].op = "status", ![c].at = "queued",
                            ![c].row.binding = gateway.binding, ![c].row.agent = gateway.agent]
  /\ KeepRow /\ UNCHANGED <<gateway, lifecycle, excused, upsets>>

\* A fatal report revokes the row and then stops the account.
runtimeStatus(c, fatal) ==
  /\ HandlerAt(c, "status", "queued") /\ lifecycle = NoCall
  /\ IF BindingMatches(MappingOf(ReadRow(c)))
     THEN /\ Update([link EXCEPT !.state = IF fatal THEN "inactive" ELSE @])
          /\ IF fatal
             THEN handler' = [handler EXCEPT ![c].at = "backout"] /\ lifecycle' = c
             ELSE EndHandler(c)
     ELSE EndHandler(c) /\ UNCHANGED <<link, current>>
  /\ UNCHANGED <<pairing, gateway, excused, upsets>>

-----------------------------------------------------------------------------
Operations == {"retry", "activate", "deactivate", "delete", "approve"}

ConnectionStep(c) ==
  \/ \E op \in Operations, q \in Pairings \cup {NoCall} : enter(c, op, q)
  \/ refuseRequest(c) \/ HandlerDies(c)
  \/ \E rotate, valid \in BOOLEAN : retry(c, rotate, valid)
  \/ \E body \in SUBSET Listed : activate(c, body)
  \/ activateInvalid(c) \/ expel(c) \/ reject(c)
  \/ detach(c) \/ publishAccount(c) \/ finish(c) \/ undo(c) \/ revoke(c) \/ backOut(c)
  \/ deactivate(c) \/ withdraw(c) \/ stopFailed(c) \/ stopped(c)
  \/ approve(c) \/ apply(c) \/ restore(c) \/ abandon(c) \/ compensate(c)
  \/ cutOff(c) \/ shut(c) \/ cleanup(c) \/ resume(c) \/ reapply(c) \/ confirm(c)
  \/ Report(c) \/ \E fatal \in BOOLEAN : runtimeStatus(c, fatal)

ConnectionsNext ==
  \/ \E c \in LifecycleCalls : ConnectionStep(c)
  \/ SessionLost
  \/ \E q \in Pairings : runtimePairing(q) \/ deny(q) \/ PairingExpires(q)
  \/ \E agent \in Agents : attach(agent)

ConnectionsSpec == ConnectionsInit /\ [][ConnectionsNext]_connectionVars

-----------------------------------------------------------------------------
(* Properties.                                                             *)

\* "One published hosted-channel mapping" has one generation.  Whatever fails,
\* dies or loses the lease between the row and the gateway: an account whose
\* calls the API accepts admits exactly the senders of the row's list, each of
\* whom the owner listed or approved, and none whom he denied or whose approval
\* was taken back.
OnlyTheDecided ==
  BindingMatches(gateway) =>
    /\ gateway.allow = link.allow
    /\ \A p \in gateway.allow :
         p \in Listed \/ \E q \in Pairings : PeerOf[q] = p /\ pairing[q].status = "approved"

\* An active row that nobody works on and that bears no marker of an
\* interrupted call has its account in the gateway, with the row's generation,
\* senders, agent and credential.  Otherwise the owner would see a connection
\* that can never answer, and no request would know of it.
ActiveIsPublished ==
  link.state = "active" /\ lifecycle = NoCall /\ ~excused
    /\ link.operation = NoCall /\ link.decision = NoCall
    => gateway = MappingOf(link)
=============================================================================
