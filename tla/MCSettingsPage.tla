---------------------------- MODULE MCSettingsPage ----------------------------
(* A small instance for TLC: one dispatch, which no other one can reach.   *)
EXTENDS SettingsPage
=============================================================================
