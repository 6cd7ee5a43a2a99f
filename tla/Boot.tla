--------------------------------- MODULE Boot ---------------------------------
(***************************************************************************)
(* Bringing an API process up: the import of core.settings, the lifespan   *)
(* of main.py and the AWS probes of the notifications diagnostics.  A      *)
(* process that fails or dies is started again (restart: always), the      *)
(* indexes it built stay in the database.                                  *)
(*                                                                         *)
(* Faults: MongoDB does not answer a call of the lifespan, the process     *)
(* dies at any point.  AWS is an environment that changes while probed.    *)
(***************************************************************************)
EXTENDS Naturals, FiniteSets

CONSTANTS
    Environments,    \* the environments that may be configured
    AwsStates,       \* what AWS may look like when it is asked
    MaxFaults        \* bound: how many faults hit the lifespan

(* The fields of Settings that its cross-field validators look at, and     *)
(* what the probes learn: whether calls are authorised, SES_FROM_EMAIL is  *)
(* a verified identity, the account is in the SMS sandbox.                 *)
Environment == [provider : {"aws", "log"}, region : BOOLEAN, from : BOOLEAN,
                keys : BOOLEAN, lambda : BOOLEAN]

Aws == [authorised : BOOLEAN, verified : BOOLEAN, sandbox : BOOLEAN]

ASSUME BootAssumption ==
    /\ Environments \subseteq Environment
    /\ AwsStates \subseteq Aws
    /\ MaxFaults \in Nat

VARIABLES
    env,             \* the environment of the process, fixed
    aws,             \* the state AWS is in
    stage,           \* the call of the lifespan the process makes next
    built,           \* the indexes that exist in the database
    verdicts,        \* the status of each probe made since the start
    seen,            \* history: the states AWS was in since the first probe
    faults           \* history: how many faults there were

bootVars == <<env, aws, stage, built, verdicts, seen, faults>>

(* The lifespan, one awaited call after the other.  The index that the     *)
(* transactions also call by_user_recent is by_user_timestamp here.        *)
Lifespan == <<"down", "ping",
    "uniq_email", "uniq_phone", "uniq_jti", "uniq_nombre", "by_activo",
    "uniq_user_fund", "by_user_recent", "by_user_timestamp", "by_type",
    "ses.credentials", "ses.from_email", "sns.attributes", "sns.sandbox",
    "serving">>

Stages  == {Lifespan[i] : i \in 1..16}
Indexes == {Lifespan[i] : i \in 3..11}
Probes  == {Lifespan[i] : i \in 12..15}

Following(s) == Lifespan[1 + CHOOSE i \in 1..15 : Lifespan[i] = s]

Serving == stage = "serving"

(* The validators of Settings; "" counts as unset.  In Lambda the          *)
(* execution role provides the credentials.                                *)
Valid(e) ==
    /\ e.region
    /\ e.provider = "aws" => e.from /\ (e.lambda \/ e.keys)

BootInit ==
    /\ env \in Environments
    /\ aws \in AwsStates
    /\ env.provider = "log" => aws = CHOOSE s \in AwsStates : TRUE
    /\ stage = "down"
    /\ built = {} /\ verdicts = {} /\ seen = {}
    /\ faults = 0

----------------------------------------------------------------------------
(* Settings() runs at import: an invalid environment ends the process      *)
(* before the lifespan, at every restart.                                  *)
Launch ==
    /\ stage = "down"
    /\ Valid(env)
    /\ stage' = Following(stage)
    /\ verdicts' = {} /\ seen' = {}
    /\ UNCHANGED <<env, aws, built, faults>>

(* connect_to_mongo.                                                       *)
Ping ==
    /\ stage = "ping"
    /\ stage' = Following(stage)
    /\ UNCHANGED <<env, aws, built, verdicts, seen, faults>>

BugIndexNotAwaited ==
    /\ stage \in Indexes
    /\ stage' = Following(stage)
    /\ UNCHANGED <<env, aws, built, verdicts, seen, faults>>

(* One create_index of one of the five ensure_indexes; a no-op when the    *)
(* index exists.                                                           *)
EnsureIndex ==
    /\ stage \in Indexes
    /\ built' = built \cup {stage}
    /\ stage' = Following(stage)
    /\ UNCHANGED <<env, aws, verdicts, seen, faults>>

----------------------------------------------------------------------------
(* log_startup_validation.                                                 *)

BugSandboxIsOk(probe) ==
    IF ~aws.authorised \/ (probe = "ses.from_email" /\ ~aws.verified)
    THEN "error" ELSE "ok"

(* What a probe reports.  A call that is not authorised raises and is      *)
(* turned into an "error" by _ses_error.                                   *)
Status(probe) ==
    IF ~aws.authorised THEN "error"
    ELSE IF probe = "ses.from_email" /\ ~aws.verified THEN "error"
    ELSE IF probe = "sns.sandbox" /\ aws.sandbox THEN "warning"
    ELSE "ok"

(* The four probes in their order; the log provider probes nothing.        *)
(* Whatever they report, the process comes up.                             *)
Probe ==
    /\ stage \in Probes
    /\ IF env.provider = "aws"
       THEN /\ stage' = Following(stage)
            /\ verdicts' = verdicts \cup {Status(stage)}
            /\ seen' = seen \cup {aws}
       ELSE /\ stage' = "serving"
            /\ verdicts' = {"ok"}
            /\ UNCHANGED seen
    /\ UNCHANGED <<env, aws, built, faults>>

BugExceptionEscapes ==
    /\ stage \in Probes /\ env.provider = "aws"
    /\ stage' = "down"
    /\ verdicts' = {} /\ seen' = {}
    /\ UNCHANGED <<env, aws, built, faults>>

(* The validation itself raises, not one of its calls: a client cannot be  *)
(* built, or an answer not be read.  The exception is logged, there is no  *)
(* report, and the process comes up.                                       *)
ValidationRaises ==
    /\ stage \in Probes /\ env.provider = "aws"
    /\ stage' = "serving"
    /\ verdicts' = {} /\ seen' = {}
    /\ UNCHANGED <<env, aws, built, faults>>

(* _aggregate.                                                             *)
Overall ==
    IF "error" \in verdicts THEN "unhealthy"
    ELSE IF "warning" \in verdicts THEN "degraded"
    ELSE "healthy"

----------------------------------------------------------------------------
(* MongoDB fails the call in hand, or the process dies; it is back at the  *)
(* beginning either way.                                                   *)
Fall ==
    /\ stage # "down"
    /\ faults < MaxFaults
    /\ faults' = faults + 1
    /\ stage' = "down"
    /\ verdicts' = {} /\ seen' = {}
    /\ UNCHANGED <<env, aws, built>>

(* AWS may change at any time; only while it is probed does that matter.   *)
AwsChanges ==
    /\ env.provider = "aws" /\ stage \in Probes
    /\ aws' \in AwsStates \ {aws}
    /\ seen' = IF verdicts = {} THEN seen ELSE seen \cup {aws'}
    /\ UNCHANGED <<env, stage, built, verdicts, faults>>

BootStep == Launch \/ Ping \/ EnsureIndex \/ Probe \/ ValidationRaises

BootNext == BootStep \/ Fall \/ AwsChanges

----------------------------------------------------------------------------
BootTypeOK ==
    /\ env \in Environments /\ aws \in AwsStates
    /\ stage \in Stages
    /\ built \subseteq Indexes
    /\ verdicts \subseteq {"ok", "warning", "error"}
    /\ seen \subseteq AwsStates
    /\ faults \in 0..MaxFaults

(* The verdict the boot log gives about AWS is put together from four      *)
(* calls made at different times.  "healthy" means that while they were    *)
(* made AWS was authorised and verified at some time and out of the        *)
(* sandbox at some time; "degraded" and "unhealthy" that it was in a state *)
(* that warrants them at some time.  A validation that raised gives none.  *)
VerdictHonest ==
    Serving /\ env.provider = "aws" /\ verdicts # {} =>
        /\ Overall = "healthy" =>
             /\ \E s \in seen : s.authorised /\ s.verified
             /\ \E s \in seen : s.authorised /\ ~s.sandbox
        /\ Overall = "degraded" => \E s \in seen : s.authorised /\ s.sandbox
        /\ Overall = "unhealthy" => \E s \in seen : ~s.authorised \/ ~s.verified

(* A process with a valid environment comes up and stays up once MongoDB   *)
(* and the machine stop failing, however AWS answers and though the        *)
(* validation raise: the docstring of log_startup_validation says failures *)
(* "NEVER raise".                                                          *)
ComesUp == Valid(env) => <>[]Serving
=============================================================================
