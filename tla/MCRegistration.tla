---------------------------- MODULE MCRegistration ----------------------------
(* A small instance for TLC: two visitors type two addresses, one of them  *)
(* in two spellings, and two phone numbers; one number has no E.164 form.  *)
EXTENDS Registration

CONSTANTS mateo, Mateo, ana, mobile, office, junk

MCSpellings == {mateo, Mateo, ana}

MCLower == [s \in MCSpellings |-> IF s = Mateo THEN mateo ELSE s]

MCPhones == {mobile, office, junk}

MCE164 == [p \in MCPhones |-> IF p = junk THEN None ELSE p]

(* Registration does not look at the provider: with AWS only the boot is  *)
(* explored, with the log adapter the forms as well.                       *)
MCMaxSubmits == [aws |-> 0, log |-> 3]

WithAws == [provider |-> "aws", region |-> TRUE, from |-> TRUE,
            keys |-> FALSE, lambda |-> TRUE]

MCEnvironments == {WithAws, [WithAws EXCEPT !.lambda = FALSE],
                   [WithAws EXCEPT !.provider = "log", !.from = FALSE]}

MCAwsStates == {[authorised |-> TRUE, verified |-> TRUE, sandbox |-> FALSE],
                [authorised |-> TRUE, verified |-> TRUE, sandbox |-> TRUE],
                [authorised |-> TRUE, verified |-> FALSE, sandbox |-> TRUE],
                [authorised |-> FALSE, verified |-> TRUE, sandbox |-> FALSE]}
=============================================================================
