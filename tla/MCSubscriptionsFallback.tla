---------------------- MODULE MCSubscriptionsFallback ----------------------
(* Small instances of the fallback mode for TLC.                           *)
EXTENDS SubscriptionsFallback, TLC

(* One amount is exactly the minimum, one is above it, and not all the     *)
(* investments a user may ask for fit in the balance.                      *)
MCMinimum == [f \in Funds |-> 2]

RequestSymmetry == Permutations(Requests)
=============================================================================
