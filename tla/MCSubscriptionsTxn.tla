------------------------- MODULE MCSubscriptionsTxn -------------------------
(* Small instance of the transaction mode for TLC.                         *)
EXTENDS SubscriptionsTxn

MCMinimum == [f \in Funds |-> 2]
=============================================================================
