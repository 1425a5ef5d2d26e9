--------------------------- MODULE MCChannelTurns ---------------------------
(* ChannelTurns on a small instance.                                       *)
EXTENDS ChannelTurns

CONSTANTS a1, f1, t1, h1, h2

MCPayer == [t \in Turns |-> a1]
MCMax == [t \in Turns |-> 2]
=============================================================================
