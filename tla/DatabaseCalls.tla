--------------------------- MODULE DatabaseCalls ---------------------------
(***************************************************************************)
(* A call of the database as the API process sees it: the transaction      *)
(* commits and the call returns, or the call throws, after the rollback    *)
(* or, when the acknowledgement is lost, after the commit.                 *)
(***************************************************************************)
EXTENDS Naturals

CONSTANTS
  MaxFaults,   \* bound: failed database calls and crashes
  LostAcks     \* TRUE: a call may fail after its commit

ASSUME FaultsAssumption == MaxFaults \in Nat /\ LostAcks \in BOOLEAN

VARIABLE faults

Fault ==
  /\ faults < MaxFaults
  /\ faults' = faults + 1

\* The caller goes on with done, or with thrown.
Attempt(tx, rollback, done, thrown) ==
  \/ tx /\ done /\ UNCHANGED faults
  \/ Fault /\ rollback /\ thrown
  \/ LostAcks /\ Fault /\ tx /\ thrown
=============================================================================
