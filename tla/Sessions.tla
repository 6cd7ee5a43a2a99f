------------------------------- MODULE Sessions -------------------------------
(***************************************************************************)
(* The API's side of a session: login, get_current_user, require_role and  *)
(* logout, over the collections users and revoked_tokens.  A request is    *)
(* checked in two awaited reads before its handler runs; requests with the *)
(* same token interleave at every await.                                   *)
(***************************************************************************)
EXTENDS Naturals, FiniteSets

CONSTANTS
    Users,
    Admins,          \* the users whose document says role = ADMIN
    Tokens,
    MaxRequests,     \* bound: how many authenticated requests there are
    None

Requests == 1..MaxRequests
Kinds == {"profile", "page", "admin", "logout"}

ASSUME SessionsAssumption ==
    /\ Admins \subseteq Users
    /\ MaxRequests \in Nat
    /\ None \notin Users \cup Tokens

VARIABLES
    owner,           \* the user each issued token is for (its sub claim)
    revoked,         \* revoked_tokens: the jti of the tokens logged out
    enabled,         \* the users with is_active = true
    sent,            \* how many requests were made
    kind, bearer,    \* what each request asks for, and with which token
    pc,              \* the call each request makes next, or its status
    late             \* history: requests made when their session was over

sessionVars == <<owner, revoked, enabled, sent, kind, bearer, pc, late>>

Calls == {"is_revoked", "get_by_id", "handler", "add"}
Statuses == {"200", "401", "403"}

Goto(r, label) == pc' = [pc EXCEPT ![r] = label]

SessionInit ==
    /\ owner = [t \in Tokens |-> None]
    /\ revoked = {} /\ enabled = Users
    /\ sent = 0
    /\ kind = [r \in Requests |-> None]
    /\ bearer = [r \in Requests |-> None]
    /\ pc = [r \in Requests |-> "idle"]
    /\ late = {}

----------------------------------------------------------------------------
(* The session of token t is over: the API has confirmed a logout of it,   *)
(* or its owner is disabled.                                               *)
Over(t) ==
    \/ \E r \in Requests : kind[r] = "logout" /\ bearer[r] = t /\ pc[r] = "200"
    \/ owner[t] \in Users \ enabled

(* create_jwt for a user whose password was verified and who is active;    *)
(* the token is stored nowhere on this side.                               *)
Issue(u, t) ==
    /\ u \in enabled
    /\ owner[t] = None
    /\ owner' = [owner EXCEPT ![t] = u]

(* A request reaches the API; without a token, or with one that does not   *)
(* decode, it is over.                                                     *)
Arrive(r, k, t) ==
    /\ r = sent + 1 /\ r \in Requests
    /\ sent' = r
    /\ kind' = [kind EXCEPT ![r] = k]
    /\ bearer' = [bearer EXCEPT ![r] = t]
    /\ Goto(r, IF t = None THEN "401" ELSE "is_revoked")
    /\ late' = IF t # None /\ Over(t) THEN late \cup {r} ELSE late

IsRevoked(r) ==
    /\ pc[r] = "is_revoked"
    /\ Goto(r, IF bearer[r] \in revoked THEN "401" ELSE "get_by_id")
    /\ UNCHANGED <<owner, revoked, enabled, sent, kind, bearer, late>>

(* The user of the sub claim, whose document says whether it is active and *)
(* which role it has.                                                      *)
GetById(r) ==
    /\ pc[r] = "get_by_id"
    /\ LET u == owner[bearer[r]] IN
       Goto(r, IF u \notin enabled \/ (kind[r] = "admin" /\ u \notin Admins)
               THEN "403"
               ELSE IF kind[r] = "logout" THEN "add" ELSE "handler")
    /\ UNCHANGED <<owner, revoked, enabled, sent, kind, bearer, late>>

Handler(r) ==
    /\ pc[r] = "handler"
    /\ Goto(r, "200")
    /\ UNCHANGED <<owner, revoked, enabled, sent, kind, bearer, late>>

BugAddInBackground(r) ==
    \/ /\ pc[r] = "add"
       /\ Goto(r, "200")
       /\ UNCHANGED <<owner, revoked, enabled, sent, kind, bearer, late>>
    \/ /\ kind[r] = "logout" /\ pc[r] = "200"
       /\ revoked' = revoked \cup {bearer[r]}
       /\ UNCHANGED <<owner, enabled, sent, kind, bearer, pc, late>>

(* RevokedToken.add, an upsert; the handler answers when it is done.       *)
Add(r) ==
    /\ pc[r] = "add"
    /\ revoked' = revoked \cup {bearer[r]}
    /\ Goto(r, "200")
    /\ UNCHANGED <<owner, enabled, sent, kind, bearer, late>>

(* An operator disables an account in the database.                        *)
Disable(u) ==
    /\ u \in enabled
    /\ enabled' = enabled \ {u}
    /\ UNCHANGED <<owner, revoked, sent, kind, bearer, pc, late>>

Serve(r) == IsRevoked(r) \/ GetById(r) \/ Handler(r) \/ Add(r)

----------------------------------------------------------------------------
SessionTypeOK ==
    /\ owner \in [Tokens -> Users \cup {None}]
    /\ revoked \subseteq {t \in Tokens : owner[t] # None}
    /\ enabled \subseteq Users
    /\ sent \in 0..MaxRequests
    /\ kind \in [Requests -> Kinds \cup {None}]
    /\ bearer \in [Requests -> Tokens \cup {None}]
    /\ pc \in [Requests -> {"idle"} \cup Calls \cup Statuses]
    /\ late \subseteq 1..sent

(* get_current_user's docstring: the blacklist "makes /logout effective    *)
(* immediately for the next request".  A request made after the API has    *)
(* confirmed a logout of its token, or after its user was disabled, is     *)
(* never served, whatever interleaves with its two checks.  A request that *)
(* was already under way may be.                                           *)
EndedIsRefused == \A r \in late : pc[r] # "200"
=============================================================================
