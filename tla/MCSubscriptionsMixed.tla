------------------------- MODULE MCSubscriptionsMixed -------------------------
(* A small instance of both modes at once for TLC.                         *)
EXTENDS SubscriptionsMixed

MCMinimum == [f \in Funds |-> 2]
===============================================================================
