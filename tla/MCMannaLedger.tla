--------------------------- MODULE MCMannaLedger ---------------------------
(* MannaLedger on a small instance: two accounts, four keys.               *)
EXTENDS MannaLedger, TLC

CONSTANTS a1, a2, o1, o2, o3, o4

Symmetry == Permutations(Accounts) \cup Permutations(Ops)
=============================================================================
