------------------------ MODULE MCTurnAuthorization ------------------------
(* TurnAuthorization on a small instance: two turns of one payer, whose    *)
(* account two purchases or grants fund.                                   *)
EXTENDS TurnAuthorization, TLC

CONSTANTS a1, f1, f2, t1, t2

MCPayer == [t \in Turns |-> a1]
MCMax == [t \in Turns |-> 3]

Symmetry == Permutations(Turns) \cup Permutations(Ops \ Turns)
=============================================================================
