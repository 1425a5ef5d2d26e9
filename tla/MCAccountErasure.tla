---- MODULE MCAccountErasure ----
EXTENDS AccountErasure
CONSTANTS a1, a2, w1, w2
MCTargetId == [a \in Users |-> IF a = a1 THEN 1 ELSE 2]
====
