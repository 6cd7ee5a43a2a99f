--------------------------- MODULE MCFundCatalogue ---------------------------
(* A small instance of the catalogue for TLC.  The administrators' funds   *)
(* may take both keys, one key or no key of a mandatory fund.              *)
EXTENDS FundCatalogue, TLC

CONSTANTS a, b

MCNames == {a, b}

MCMandatory == {[id |-> 1, nombre |-> a, by |-> Seed],
                [id |-> 2, nombre |-> b, by |-> Seed]}

RequestSymmetry == Permutations(Requests)
=============================================================================
