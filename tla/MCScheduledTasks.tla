-------------------------- MODULE MCScheduledTasks --------------------------
(* ScheduledTasks on a small instance: two due instants, one manual run.   *)
EXTENDS ScheduledTasks, TLC

CONSTANTS a1, f1, s1, s2, m1, p1, p2

MCPayer == [o \in Turns |-> a1]
MCMax == [o \in Turns |-> 1]
MCDueAt == <<s1, s2>>
OneInstant == <<s1>>

\* A manual run is on its way or has been recorded.
ManualRuns ==
  IF \E o \in Manual : \/ task.pend = o \/ outcomes[o] # "none"
                       \/ \E p \in Workers : Occ(p) = o
  THEN 1 ELSE 0

\* Bound: two faults, edits or manual runs disturb the schedule, and a manual
\* run comes before the second instant.
TwoDisturbances ==
  /\ faults + edits + ManualRuns <= 2
  /\ ManualRuns = 1 => now = 1

Symmetry == Permutations(Workers)
=============================================================================
