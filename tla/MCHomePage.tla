------------------------------ MODULE MCHomePage ------------------------------
(* A small instance for TLC: the user can afford both funds only at their  *)
(* minimum.                                                                *)
EXTENDS HomePage

MCMinimum == [f \in Funds |-> IF f = "f1" THEN 1 ELSE 2]
=============================================================================
