--------------------------- MODULE MCAgentRuntimes ---------------------------
(* AgentRuntimes on a small instance: two processes.                       *)
EXTENDS AgentRuntimes

CONSTANTS h1, h2, m1, m2, j1, j2, l1

MCHostOf == [p \in RuntimeActors |-> IF p \in {m1, j1} THEN h1 ELSE h2]
=============================================================================
