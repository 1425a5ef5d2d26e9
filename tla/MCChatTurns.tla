---------------------------- MODULE MCChatTurns ----------------------------
(* ChatTurns on a small instance.                                          *)
EXTENDS ChatTurns, TLC

CONSTANTS a1, f1, t1, t2

MCPayer == [t \in Turns |-> a1]
MCMax == [t \in Turns |-> 2]

Symmetry == Permutations(Turns)
=============================================================================
