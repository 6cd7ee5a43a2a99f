---------------------------- MODULE MCAuthContext -----------------------------
(* A small instance for TLC; users and tokens are interchangeable but for  *)
(* the role of one user.                                                   *)
EXTENDS AuthContext, TLC

TokenSymmetry == Permutations(Tokens)
=============================================================================
