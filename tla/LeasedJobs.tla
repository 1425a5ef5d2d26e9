----------------------------- MODULE LeasedJobs -----------------------------
(***************************************************************************)
(* A row of durable work that replicas claim under a lease: the pattern of *)
(* the multipart cleanup, the policy event outbox and the transcription    *)
(* leases.  A claim's random token is named by the worker it was           *)
(* issued to: a worker has one claim of a row at a time.                   *)
(***************************************************************************)
EXTENDS Naturals

CONSTANTS
  MaxAttempts,  \* maxAttempts of the worker
  NoHolder      \* no token

ASSUME JobsAssumption == MaxAttempts \in Nat \ {0}

NoJob == [state |-> "none", attempts |-> 0, holder |-> NoHolder]
NewJob == [state |-> "pending", attempts |-> 0, holder |-> NoHolder]

IsDue(job) == job.state = "pending" /\ job.attempts < MaxAttempts

ClaimedBy(job, n) ==
  [state |-> "claimed", attempts |-> job.attempts + 1, holder |-> n]

\* Mutant: the claim token is not compared.
HoldsAnyClaim(job, n) == job.state = "claimed"

\* The fence of every statement a worker sends after its call.
HoldsClaim(job, n) == job.state = "claimed" /\ job.holder = n

Succeeded(job) == [job EXCEPT !.state = "succeeded", !.holder = NoHolder]

\* A failed attempt or a lapsed claim: again, unless that was the last one.
Released(job) ==
  [job EXCEPT !.state = IF job.attempts >= MaxAttempts THEN "failed" ELSE "pending",
              !.holder = NoHolder]

IsOver(job) == job.state \in {"succeeded", "failed"}
=============================================================================
