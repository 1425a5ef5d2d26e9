------------------------- MODULE ChannelCredentials -------------------------
(***************************************************************************)
(* The transactions that take a bot's credential into custody: a hosted    *)
(* connection and its retry or activation (apps/api/src/routes/            *)
(* channels.ts), an X connection (postgres-channel-connector-custody.ts)   *)
(* and a managed Telegram bot (postgres-telegram-managed-bot-custody.ts)   *)
(* with its onboarding intent; and the posts and revocations of X.         *)
(*                                                                         *)
(* No index makes tokens or bots unique.  Each transaction takes its       *)
(* advisory locks one after the other, looks for a conflict, writes and    *)
(* commits, which releases them.                                           *)
(***************************************************************************)
EXTENDS Integers, FiniteSets, Sequences

CONSTANTS
  Creates,      \* requests for a hosted connection
  Seals,        \* requests for an X connection
  Exchanges,    \* managed_bot updates of Telegram's webhook
  Rotations,    \* retries and activations, with a new token or the stored one
  Posts,        \* posts of an X connection
  Revocations,  \* revocations of an X connection
  Owners, OwnerOf,        \* accounts, and whose a call is
  Tokens, NoToken, TokenOf,  \* the token a call brings
  Bots, NoBot, BotOf,     \* the provider's bot of a token
  TargetOf,     \* the connection that a rotation works on or a call of X uses
  Onboardings, OnboarderOf,  \* onboarding intents, and the account of each
  Granters, GranterOf,    \* Telegram users, and whose bot an update reports
  Quota,
  Workloads     \* bound: the calls and intents that are asked for together

Storing == Creates \cup Seals \cup Exchanges
CredentialCalls == Storing \cup Rotations \cup Posts \cup Revocations

ASSUME ChannelCredentialsAssumption ==
  /\ TargetOf \in [CredentialCalls \ (Creates \cup Exchanges) -> Storing]
  /\ Workloads \subseteq SUBSET (CredentialCalls \cup Onboardings)
  /\ NoToken \notin Tokens /\ NoBot \notin Bots /\ Quota \in Nat
  /\ TokenOf \in [Storing \cup Rotations -> Tokens] /\ BotOf \in [Tokens -> Bots]
  /\ OwnerOf \in [CredentialCalls -> Owners]
  \* A call is of one kind, and an X connection revokes its own credential.
  /\ Creates \cap (Seals \cup Exchanges) = {} /\ Seals \cap Exchanges = {}
  /\ Storing \cap (Rotations \cup Posts \cup Revocations) = {}
  /\ Rotations \cap (Posts \cup Revocations) = {} /\ Posts \cap Revocations = {}
  /\ \A c \in Seals : TargetOf[c] = c

VARIABLES
  custody,   \* the row each storing call has made in channel_connections
  locks,     \* the advisory locks that are held
  credential,\* where each call is: its token, bot and the locks it still takes
  intents,   \* the rows of channel_onboarding_intents: the Telegram user they
             \* are bound to and the exchange that took them up, if any
  lateIntents       \* intents whose expires_at has passed

credentialVars == <<custody, locks, credential, intents, lateIntents>>

NoCredential == [token |-> NoToken, bot |-> NoBot, state |-> "none"]

ActiveIntent == {"pending_owner", "awaiting_bot", "exchanging"}

Asked(what) ==
  /\ custody = [c \in Storing |-> NoCredential]
  /\ locks = {} /\ lateIntents = {}
  /\ credential = [c \in CredentialCalls |->
                     [at |-> IF c \in what THEN "idle" ELSE "done",
                      token |-> NoToken, bot |-> NoBot, todo |-> <<>>, held |-> {}]]
  /\ intents = [i \in Onboardings \cap what |->
                  [state |-> "none", granter |-> {}, exchange |-> {}]]

CredentialsInit == \E workload \in Workloads : Asked(workload)

NoCredentials == Asked({})

Stored == {c \in Storing : custody[c].state # "none"}
OwnedBy(a) == {c \in Stored : OwnerOf[c] = a}
Full(a) == Cardinality(OwnedBy(a)) >= Quota

CredentialAt(c, at) == credential[c].at = at
Move(c, at) == credential' = [credential EXCEPT ![c].at = at]

\* The end of a call's transaction, and of the call.
End(c) ==
  /\ credential' = [credential EXCEPT ![c] = [@ EXCEPT !.at = "done", !.todo = <<>>, !.held = {}]]
  /\ locks' = locks \ credential[c].held

\* Mutant: two tokens of one bot do not meet.
TokenLockOnly(token, bot) == <<<<"token", token>>>>

\* channelCredentialLockKeys: sorted, and without a bot that is not known.
channelCredentialLockKeys(token, bot) ==
  (IF bot = NoBot THEN <<>> ELSE <<<<"bot", bot>>>>) \o <<<<"token", token>>>>

-----------------------------------------------------------------------------
(* Onboarding of a managed bot.                                            *)

WithGranter(g) == {i \in DOMAIN intents : intents[i].granter = {g} /\ intents[i].state \in ActiveIntent}

Intent(i, state) == intents' = [intents EXCEPT ![i].state = state]

KeepCalls == UNCHANGED <<custody, locks, credential, lateIntents>>

\* Of an account's active intents the unique index bears one.
startOnboarding(i) ==
  LET mine == {j \in DOMAIN intents : OnboarderOf[j] = OnboarderOf[i]}
      expired == {j \in mine \cap lateIntents : intents[j].state \in ActiveIntent}
  IN /\ intents[i].state = "none"
     /\ \A j \in mine \ expired : intents[j].state \notin ActiveIntent
     /\ intents' = [j \in DOMAIN intents |->
                      IF j = i THEN [intents[i] EXCEPT !.state = "pending_owner"]
                      ELSE IF j \in expired THEN [intents[j] EXCEPT !.state = "expired"]
                      ELSE intents[j]]
     /\ KeepCalls

\* The Telegram user opens the link; he is bound to one active intent.
bindOwner(i, g) ==
  /\ intents[i].state = "pending_owner" /\ i \notin lateIntents
  /\ WithGranter(g) = {}
  /\ intents' = [intents EXCEPT ![i].state = "awaiting_bot", ![i].granter = {g}]
  /\ KeepCalls

cancel(i) == intents[i].state \in ActiveIntent /\ Intent(i, "failed") /\ KeepCalls

readLate(i) == intents[i].state \in ActiveIntent /\ i \in lateIntents /\ Intent(i, "expired") /\ KeepCalls

IntentExpires(i) ==
  /\ intents[i].state \in ActiveIntent /\ i \notin lateIntents
  /\ lateIntents' = lateIntents \cup {i}
  /\ UNCHANGED <<custody, locks, credential, intents>>

\* The intent that an update's exchange works for.
Onboarding(c) == CHOOSE i \in DOMAIN intents : intents[i].exchange = {c}
Exchanging(c) == intents[Onboarding(c)].state = "exchanging"

managedBot(c) ==
  /\ c \in Exchanges /\ CredentialAt(c, "idle")
  /\ \E i \in WithGranter(GranterOf[c]) \ lateIntents :
       /\ intents[i].state = "awaiting_bot"
       /\ intents' = [intents EXCEPT ![i].state = "exchanging", ![i].exchange = {c}]
  /\ Move(c, "exchanging")
  /\ UNCHANGED <<custody, locks, lateIntents>>

\* The failure is recorded, if the intent still waits for it.
failExchange(c) ==
  /\ IF Exchanging(c) THEN Intent(Onboarding(c), "failed") ELSE UNCHANGED intents
  /\ End(c)
  /\ UNCHANGED <<custody, lateIntents>>

refuseExchange(c) ==
  CredentialAt(c, "exchanging") /\ failExchange(c)

-----------------------------------------------------------------------------
(* Custody.                                                                *)

\* The first look at the quota, and the provider's answer on the token.
validate(c) ==
  /\ c \in Storing /\ ~Full(OwnerOf[c])
  /\ \/ c \in Creates \cup Seals /\ CredentialAt(c, "idle")
     \/ c \in Exchanges /\ CredentialAt(c, "exchanging")
  /\ \E bot \in IF c \in Creates THEN {NoBot, BotOf[TokenOf[c]]}
                ELSE IF c \in Seals THEN {NoBot} ELSE {BotOf[TokenOf[c]]} :
       credential' = [credential EXCEPT ![c] =
         [@ EXCEPT !.at = "locking", !.token = TokenOf[c], !.bot = bot,
                   !.todo = <<<<"account", OwnerOf[c]>>>>
                              \o channelCredentialLockKeys(TokenOf[c], bot)]]
  /\ UNCHANGED <<custody, locks, intents, lateIntents>>

\* A retry or activation, under its connection's lease, with the token it
\* brings or the one it has read.
revalidate(c) ==
  LET row == custody[TargetOf[c]]
      lease == <<"lease", TargetOf[c]>>
  IN /\ c \in Rotations /\ CredentialAt(c, "idle")
     /\ TargetOf[c] \in Stored \ Seals /\ lease \notin locks
     /\ locks' = locks \cup {lease}
     /\ \E token \in {row.token, TokenOf[c]} : \E bot \in {NoBot, BotOf[token]} :
          credential' = [credential EXCEPT ![c] =
            [at |-> "locking", token |-> token, bot |-> bot,
             todo |-> channelCredentialLockKeys(token, bot), held |-> {lease}]]
     /\ UNCHANGED <<custody, intents, lateIntents>>

\* The next lock; with the account's the quota is asserted.
lock(c) ==
  LET key == Head(credential[c].todo)
  IN /\ CredentialAt(c, "locking") /\ credential[c].todo # <<>> /\ key \notin locks
     /\ key[1] = "account" => ~Full(OwnerOf[c])
     /\ locks' = locks \cup {key}
     /\ credential' = [credential EXCEPT ![c].todo = Tail(@), ![c].held = @ \cup {key}]
     /\ UNCHANGED <<custody, intents, lateIntents>>

Conflicts(c) ==
  {d \in Stored \ (IF c \in Rotations THEN {TargetOf[c]} ELSE {}) :
     \/ custody[d].token = credential[c].token
     \/ credential[c].bot # NoBot /\ custody[d].bot = credential[c].bot}

look(c) ==
  /\ CredentialAt(c, "locking") /\ credential[c].todo = <<>> /\ Conflicts(c) = {}
  /\ Move(c, "write")
  /\ UNCHANGED <<custody, locks, intents, lateIntents>>

\* A conflict, a full quota, an answer that fails, or a process that dies: the
\* transaction is rolled back, and its locks are free.
rollBack(c) ==
  /\ credential[c].at \notin {"idle", "exchanging", "done"}
  /\ \/ c \in Exchanges /\ failExchange(c)
     \/ End(c) /\ UNCHANGED <<custody, intents, lateIntents>>

\* The row, its audit and the intent's binding commit together.
storeCredential(c) ==
  LET i == Onboarding(c)
  IN /\ c \in Storing /\ CredentialAt(c, "write")
     /\ custody' = [custody EXCEPT ![c] =
                      [token |-> credential[c].token, bot |-> credential[c].bot,
                       state |-> IF c \in Seals THEN "active" ELSE "stored"]]
     /\ IF c \in Exchanges
        THEN /\ Exchanging(c) /\ i \notin lateIntents
             /\ Intent(i, "stored")
        ELSE UNCHANGED intents
     /\ IF c \in Seals
        THEN /\ credential' = [credential EXCEPT ![c].at = "announce", ![c].held = {}]
             /\ locks' = locks \ credential[c].held
        ELSE End(c)
     /\ UNCHANGED lateIntents

rotate(c) ==
  /\ c \in Rotations /\ CredentialAt(c, "write")
  /\ custody' = [custody EXCEPT ![TargetOf[c]].token = credential[c].token,
                                ![TargetOf[c]].bot = credential[c].bot]
  /\ End(c)
  /\ UNCHANGED <<intents, lateIntents>>

-----------------------------------------------------------------------------
(* X: a post and a revocation use the credential one at a time.            *)

UseLock(c) == <<"use", TargetOf[c]>>
IsUsable(c) == custody[TargetOf[c]].state = "active"

KeepCustody == UNCHANGED <<custody, intents, lateIntents>>

\* The identity of a new connection is written; if that fails, it is revoked.
connected(c) ==
  /\ CredentialAt(c, "announce")
  /\ End(c) \/ (Move(c, "revoking") /\ UNCHANGED locks)
  /\ KeepCustody

\* Two transactions read the active row: the post is admitted, and then said
\* to have started.
admitPost(p) ==
  /\ p \in Posts /\ CredentialAt(p, "idle") /\ IsUsable(p)
  /\ Move(p, "admitted")
  /\ UNCHANGED locks /\ KeepCustody

startPost(p) ==
  /\ CredentialAt(p, "admitted")
  /\ Move(p, IF IsUsable(p) THEN "started" ELSE "done")
  /\ UNCHANGED locks /\ KeepCustody

\* withPlaintext: the lock is held while the provider works.
withPlaintext(p) ==
  /\ CredentialAt(p, "started") /\ UseLock(p) \notin locks
  /\ IF IsUsable(p)
     THEN /\ locks' = locks \cup {UseLock(p)}
          /\ credential' = [credential EXCEPT ![p].at = "posting", ![p].held = {UseLock(p)}]
     ELSE Move(p, "done") /\ UNCHANGED locks
  /\ KeepCustody

\* The provider's answer "revoked" revokes the row, in another transaction.
posted(p) ==
  /\ CredentialAt(p, "posting")
  /\ \/ End(p)
     \/ /\ locks' = locks \ {UseLock(p)}
        /\ credential' = [credential EXCEPT ![p].at = "revoking", ![p].held = {}]
  /\ KeepCustody

revokeCredential(c) ==
  /\ \/ c \in Revocations /\ CredentialAt(c, "idle") /\ IsUsable(c)
     \/ CredentialAt(c, "revoking")
  /\ UseLock(c) \notin locks
  /\ custody' = [custody EXCEPT ![TargetOf[c]].state = "revoked"]
  /\ End(c)
  /\ UNCHANGED <<intents, lateIntents>>

-----------------------------------------------------------------------------
CredentialsNext ==
  \/ \E i \in DOMAIN intents :
       startOnboarding(i) \/ cancel(i) \/ readLate(i) \/ IntentExpires(i)
         \/ \E g \in Granters : bindOwner(i, g)
  \/ \E c \in CredentialCalls :
       \/ managedBot(c) \/ refuseExchange(c) \/ validate(c) \/ revalidate(c)
       \/ lock(c) \/ look(c) \/ rollBack(c) \/ storeCredential(c) \/ rotate(c)
       \/ connected(c) \/ revokeCredential(c)
  \/ \E p \in Posts : admitPost(p) \/ startPost(p) \/ withPlaintext(p) \/ posted(p)

CredentialsSpec == CredentialsInit /\ [][CredentialsNext]_credentialVars

-----------------------------------------------------------------------------
(* Properties.                                                             *)

OneConnectionPerBot ==
  \A c, d \in Stored :
    c # d => /\ custody[c].token # custody[d].token
             /\ custody[c].bot = custody[d].bot => custody[c].bot = NoBot

QuotaHolds == \A a \in Owners : Cardinality(OwnedBy(a)) <= Quota

\* "A crash cannot strand an unclaimable token".
BoundToIntent ==
  /\ \A c \in Exchanges \cap Stored :
       \E i \in DOMAIN intents : intents[i].state = "stored" /\ intents[i].exchange = {c}
  /\ \A i \in DOMAIN intents : intents[i].state = "stored" => intents[i].exchange \subseteq Stored

Blocked == {c \in CredentialCalls :
              CredentialAt(c, "locking") /\ credential[c].todo # <<>>
                /\ Head(credential[c].todo) \in locks}

LocksAreOrdered ==
  \A circle \in (SUBSET Blocked) \ {{}} :
    \E c \in circle : \A d \in circle : Head(credential[c].todo) \notin credential[d].held

\* "This provider bot is already connected".  However creations, exchanges,
\* retries and activations of several owners interleave: a token and a bot are
\* one connection's, no owner has more connections than the quota, a managed
\* bot is stored exactly with the intent that asked for it, cancelled and
\* expired ones never; no post uses a credential that is revoked, and no calls
\* wait for each other's locks.
CustodyIsExclusive ==
  /\ OneConnectionPerBot /\ QuotaHolds /\ BoundToIntent /\ LocksAreOrdered
  /\ \A p \in Posts : CredentialAt(p, "posting") => IsUsable(p)
=============================================================================
