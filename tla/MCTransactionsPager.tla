-------------------------- MODULE MCTransactionsPager --------------------------
(* A small instance for TLC; the two types are interchangeable, but the    *)
(* run checks liveness, so no symmetry is declared.                        *)
EXTENDS TransactionsPager
=============================================================================
