------------------------- MODULE MCTransactionGuard --------------------------
(* Amounts in rupees around the default threshold of 500, and the ways the   *)
(* calls are shared between agents.                                          *)
EXTENDS TransactionGuard

CONSTANTS c1, c2, c3, a1, a2

MCAmount == {0, 500, 501}
OneAgent == [c \in Call |-> a1]
TwoAgents == [c \in Call |-> IF c = c1 THEN a1 ELSE a2]

==============================================================================
