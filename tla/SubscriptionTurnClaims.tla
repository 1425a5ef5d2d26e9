----------------------- MODULE SubscriptionTurnClaims -----------------------
(***************************************************************************)
(* The lease that lets one subscription-backed Claude turn at a time use a *)
(* gateway session (apps/api/src/services/subscription-turn-claims.ts and  *)
(* runTurn of turns.ts).  Sessions are independent: this is the row of one *)
(* session key in claude_session_turn_claims and the turns that compete    *)
(* for it, each in an API process with a clock of its own.                 *)
(*                                                                         *)
(* A statement is sent with a time read before it and runs later.  A live  *)
(* process has a heartbeat committed at least every Gap; a turn's run at   *)
(* the provider ends within MaxTurn, also when its process has died, and   *)
(* is over when the process leaves runClaimedTurn.                         *)
(***************************************************************************)
EXTENDS Integers

CONSTANTS
  SessionTurns,      \* turns that want the session
  Nobody,     \* there is no row
  Lease,      \* SUBSCRIPTION_TURN_LEASE_MS
  MaxTurn,    \* MAX_PROVIDER_TURN_MS, enforced by the gateway
  Gap,        \* longest age of a live process's last committed clock reading
  MaxSkew,    \* how far the clocks of two processes may differ
  Skew,       \* each process's clock, ahead of the slowest
  MaxClock    \* bound: the last tick

ASSUME BoundsAssumption ==
  /\ {Lease, MaxTurn, Gap, MaxSkew, MaxClock} \subseteq Nat
  /\ Skew \in [SessionTurns -> 0..MaxSkew]
ASSUME NobodyAssumption == Nobody \notin SessionTurns

\* The lease outlives the longest run, the longest silence of its owner and
\* the difference of two clocks together.
ASSUME LeaseAssumption == MaxTurn + Gap + MaxSkew < Lease

VARIABLES
  now,
  turnClaim,      \* the row: turn_id and lease_expires_at
  pc,         \* where the turn's process is
  reads,      \* clock readings of statements that were sent and have not run
  fresh,      \* the reading of the last acquisition or renewal that committed
  started     \* when the run at the provider began, -1 if there is none

sessionVars == <<now, turnClaim, pc, reads, fresh, started>>

Free == [turn |-> Nobody, expires |-> 0]

SessionInit ==
  /\ now = 0
  /\ turnClaim = Free
  /\ pc = [t \in SessionTurns |-> "idle"]
  /\ reads = [t \in SessionTurns |-> {}]
  /\ fresh = [t \in SessionTurns |-> 0]
  /\ started = [t \in SessionTurns |-> -1]

Acquiring(t) == pc[t] \in {"acquiring", "orphaned"}
AtProvider(t) == started[t] >= 0
Active(t) == pc[t] = "claimed" \/ AtProvider(t)
Reading(t, r) == r + Skew[t]

-----------------------------------------------------------------------------
(* acquire.                                                                *)

beginAcquire(t) ==
  /\ pc[t] = "idle"
  /\ pc' = [pc EXCEPT ![t] = "acquiring"]
  /\ reads' = [reads EXCEPT ![t] = {now}]
  /\ UNCHANGED <<now, turnClaim, fresh, started>>

\* Mutant: the comparison is turned round.
FreeUntilExpiry(t, r) == turnClaim.turn = Nobody \/ turnClaim.expires >= Reading(t, r)

\* The insert finds no row, or the WHERE clause of its conflict update holds.
Available(t, r) == turnClaim.turn = Nobody \/ turnClaim.expires <= Reading(t, r)

\* The statement of a process that died meanwhile runs all the same.
acquireClaim(t, r) ==
  /\ Acquiring(t) /\ r \in reads[t]
  /\ reads' = [reads EXCEPT ![t] = {}]
  /\ IF Available(t, r)
     THEN /\ turnClaim' = [turn |-> t, expires |-> Reading(t, r) + Lease]
          /\ pc' = [pc EXCEPT ![t] = IF @ = "acquiring" THEN "claimed" ELSE "ended"]
          /\ fresh' = [fresh EXCEPT ![t] = r]
     ELSE pc' = [pc EXCEPT ![t] = "ended"] /\ UNCHANGED <<turnClaim, fresh>>
  /\ UNCHANGED <<now, started>>

-----------------------------------------------------------------------------
(* The heartbeat.                                                          *)

\* The timer fires; released and renewing are clear.
beginRenew(t) ==
  /\ pc[t] = "claimed" /\ reads[t] = {}
  /\ reads' = [reads EXCEPT ![t] = {now}]
  /\ UNCHANGED <<now, turnClaim, pc, fresh, started>>

\* The statement runs, if need be after its process released or died.  A turn
\* that has lost the row learns nothing but an error message.
renew(t, r) ==
  /\ ~Acquiring(t) /\ r \in reads[t]
  /\ reads' = [reads EXCEPT ![t] = @ \ {r}]
  /\ IF turnClaim.turn = t
     THEN /\ turnClaim' = [turnClaim EXCEPT !.expires = Reading(t, r) + Lease]
          /\ fresh' = [fresh EXCEPT ![t] = r]
     ELSE UNCHANGED <<turnClaim, fresh>>
  /\ UNCHANGED <<now, pc, started>>

\* A statement, the acquisition too, fails without effect.
fail(t) ==
  /\ reads[t] # {}
  /\ reads' = [reads EXCEPT ![t] = {}]
  /\ pc' = [pc EXCEPT ![t] = IF Acquiring(t) THEN "ended" ELSE @]
  /\ UNCHANGED <<now, turnClaim, fresh, started>>

-----------------------------------------------------------------------------
(* The turn.                                                               *)

beginProvider(t) ==
  /\ pc[t] = "claimed" /\ ~AtProvider(t)
  /\ started' = [started EXCEPT ![t] = now]
  /\ UNCHANGED <<now, turnClaim, pc, reads, fresh>>

endProvider(t) ==
  /\ AtProvider(t)
  /\ started' = [started EXCEPT ![t] = -1]
  /\ UNCHANGED <<now, turnClaim, pc, reads, fresh>>

\* The DELETE names the turn.
DeleteClaim(t) == IF turnClaim.turn = t THEN Free ELSE turnClaim

\* The finally clause of runTurn; a DELETE that fails leaves the row.
releaseClaim(t) ==
  /\ pc[t] = "claimed" /\ ~AtProvider(t)
  /\ pc' = [pc EXCEPT ![t] = "ended"]
  /\ turnClaim' \in {DeleteClaim(t), turnClaim}
  /\ UNCHANGED <<now, reads, fresh, started>>

\* The process dies, and the run at the provider goes on.
crash(t) ==
  /\ pc[t] \in {"acquiring", "claimed"}
  /\ pc' = [pc EXCEPT ![t] = IF @ = "acquiring" THEN "orphaned" ELSE "ended"]
  /\ UNCHANGED <<now, turnClaim, reads, fresh, started>>

\* Time passes while no run is too long and no live process is silent.
Tick ==
  /\ now < MaxClock
  /\ \A t \in SessionTurns :
       /\ AtProvider(t) => now < started[t] + MaxTurn
       /\ pc[t] = "claimed" => now < fresh[t] + Gap
       /\ pc[t] = "acquiring" => \A r \in reads[t] : now < r + Gap
  /\ now' = now + 1
  /\ UNCHANGED <<turnClaim, pc, reads, fresh, started>>

SessionNext ==
  \/ Tick
  \/ \E t \in SessionTurns :
       \/ beginAcquire(t) \/ beginRenew(t) \/ fail(t)
       \/ \E r \in reads[t] : acquireClaim(t, r) \/ renew(t, r)
       \/ beginProvider(t) \/ endProvider(t) \/ releaseClaim(t) \/ crash(t)

SessionSpec == SessionInit /\ [][SessionNext]_sessionVars

-----------------------------------------------------------------------------
(* Properties.                                                             *)

\* Every reading lies in the past and a process has one statement under way.
SessionTypeOK ==
  /\ now \in Nat
  /\ turnClaim \in [turn : SessionTurns \cup {Nobody}, expires : Nat]
  /\ pc \in [SessionTurns -> {"idle", "acquiring", "orphaned", "claimed", "ended"}]
  /\ reads \in [SessionTurns -> SUBSET (0..now)]
  /\ fresh \in [SessionTurns -> 0..now]
  /\ started \in [SessionTurns -> -1..now]
  /\ \A t \in SessionTurns : \A r, s \in reads[t] : r = s

\* runTurn: "reject ... when another API process owns this gateway session".
\* Two turns never use the session at once, although heartbeats are late, fail
\* or run after their process died, clocks differ, and a dead owner's run goes
\* on at the provider.
OneTurnPerSession ==
  \A t, u \in SessionTurns : Active(t) /\ Active(u) => t = u

\* A statement that was sent early and runs late never cuts the lease short:
\* while a turn keeps the row its expiry only grows.
LeaseOnlyGrows ==
  [][turnClaim'.turn = turnClaim.turn => turnClaim'.expires >= turnClaim.expires]_sessionVars
=============================================================================
