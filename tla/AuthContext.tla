----------------------------- MODULE AuthContext ------------------------------
(***************************************************************************)
(* The web side of a session, on the API of module Sessions: AuthProvider, *)
(* the token in localStorage, the interceptors of httpClient and the two   *)
(* route guards.  Every reply may be late: the page has changed, the user  *)
(* has signed out or someone else has signed in when it arrives.           *)
(***************************************************************************)
EXTENDS Sessions

VARIABLES
    token, stored,   \* localStorage: the token, and whose profile it holds
    user,            \* React state: whose profile the context holds
    authenticated,   \* the memoised isAuthenticated
    isLoading,       \* the initial load of the profile is under way
    awaited,         \* the requests whose replies this page awaits
    out,             \* history: signed out, and not signed in since
    stale            \* history: the profile held came from another session

webVars == <<token, stored, user, authenticated, isLoading, awaited, out, stale>>
vars == <<sessionVars, webVars>>

WebInit ==
    /\ token = None /\ stored = None /\ user = None
    /\ authenticated = FALSE /\ isLoading = FALSE
    /\ awaited = {}
    /\ out = FALSE /\ stale = FALSE

AtHome  == authenticated /\ ~isLoading
AtLogin == ~authenticated /\ ~isLoading

BugUserIsEnough(u) == u # None

(* isAuthenticated is computed again whenever the context's user changes,  *)
(* from the token as it is then.                                           *)
SignedIn(u) == u # None /\ token' # None

SetUser(u) == user' = u /\ authenticated' = SignedIn(u)

(* A request with the token that is in storage when it is sent.            *)
Send(k) ==
    /\ Arrive(sent + 1, k, token')
    /\ awaited' = awaited \cup {sent + 1}

----------------------------------------------------------------------------
(* login: the token is stored, the profile fetched; the context still      *)
(* holds the user it held.                                                 *)
SignIn(u, t) ==
    /\ AtLogin
    /\ Issue(u, t)
    /\ token' = t
    /\ Send("profile")
    /\ out' = FALSE
    /\ UNCHANGED <<revoked, enabled, stored, user, authenticated, isLoading, stale>>

(* register: the user is shown at once, the profile fetched after that.    *)
SignUp(u, t) ==
    /\ AtLogin
    /\ Issue(u, t)
    /\ token' = t /\ stored' = u
    /\ SetUser(u)
    /\ Send("profile")
    /\ out' = FALSE /\ stale' = FALSE
    /\ UNCHANGED <<revoked, enabled, isLoading>>

(* The page is loaded again: replies under way go nowhere, the context     *)
(* starts from storage and fetches the profile if there is a token.        *)
Reload ==
    /\ UNCHANGED <<token, stored, out, stale>>
    /\ user' = IF token = None THEN None ELSE stored
    /\ authenticated' = SignedIn(user')
    /\ isLoading' = (token # None)
    /\ IF token = None
       THEN awaited' = {} /\ UNCHANGED sessionVars
       ELSE /\ Arrive(sent + 1, "profile", token)
            /\ awaited' = {sent + 1}
            /\ UNCHANGED <<owner, revoked, enabled>>

(* A protected page asks for its data; the user presses sign out.          *)
Ask(k) ==
    /\ AtHome
    /\ UNCHANGED <<token, owner, revoked, enabled, stored, user, authenticated,
                   isLoading, out, stale>>
    /\ Send(k)

----------------------------------------------------------------------------
Cleared == token' = None /\ stored' = None

(* fetchProfile succeeds.                                                  *)
ProfileArrives(r) ==
    /\ kind[r] = "profile" /\ pc[r] = "200"
    /\ UNCHANGED token
    /\ stored' = owner[bearer[r]]
    /\ SetUser(owner[bearer[r]])
    /\ stale' = (bearer[r] # token)
    /\ isLoading' = FALSE
    /\ awaited' = awaited \ {r}
    /\ UNCHANGED <<sessionVars, out>>

(* fetchProfile fails in any other way than 401: a 403, or no answer in    *)
(* time.                                                                   *)
ProfileFails(r) ==
    /\ kind[r] = "profile" /\ pc[r] # "200" /\ pc[r] # "401"
    /\ Cleared /\ SetUser(None)
    /\ isLoading' = FALSE
    /\ awaited' = awaited \ {r}
    /\ UNCHANGED <<sessionVars, out, stale>>

BugLogoutKeepsUser(r) ==
    /\ kind[r] = "logout" /\ pc[r] # "401"
    /\ Cleared /\ SetUser(user)
    /\ out' = TRUE
    /\ awaited' = awaited \ {r}
    /\ UNCHANGED <<sessionVars, isLoading, stale>>

(* logout ends locally whatever the API answered, or did not answer.       *)
LogoutEnds(r) ==
    /\ kind[r] = "logout" /\ pc[r] # "401"
    /\ Cleared /\ SetUser(None)
    /\ out' = TRUE
    /\ awaited' = awaited \ {r}
    /\ UNCHANGED <<sessionVars, isLoading, stale>>

(* Data for a page: nothing of the session changes.                        *)
PageArrives(r) ==
    /\ kind[r] = "page" /\ pc[r] # "401"
    /\ awaited' = awaited \ {r}
    /\ UNCHANGED <<sessionVars, token, stored, user, authenticated, isLoading,
                   out, stale>>

(* 401: the interceptor empties the storage and, away from /login, loads   *)
(* the page again there.  At /login the caller's own handler runs as well; *)
(* a page's data has none that touches the session.                        *)
Unauthorized(r) ==
    /\ pc[r] = "401"
    /\ Cleared
    /\ IF AtLogin /\ kind[r] = "page"
       THEN UNCHANGED <<user, authenticated>>
       ELSE SetUser(None)
    /\ awaited' = IF AtLogin THEN awaited \ {r} ELSE {}
    /\ isLoading' = FALSE
    /\ out' = (out \/ kind[r] = "logout")
    /\ UNCHANGED <<sessionVars, stale>>

(* A reply, or axios giving up after HTTP_TIMEOUT_MS.                      *)
Deliver(r) ==
    /\ r \in awaited
    /\ \/ ProfileArrives(r) \/ ProfileFails(r) \/ LogoutEnds(r)
       \/ PageArrives(r) \/ Unauthorized(r)

----------------------------------------------------------------------------
(* Another holder of an issued token: a script, another device.            *)
Client(k, t) ==
    /\ owner[t] # None
    /\ Arrive(sent + 1, k, t)
    /\ UNCHANGED <<owner, revoked, enabled, webVars>>

Init == SessionInit /\ WebInit

Next ==
    \/ \E u \in Users, t \in Tokens : SignIn(u, t) \/ SignUp(u, t)
    \/ \E k \in {"page", "logout"} : Ask(k)
    \/ Reload
    \/ \E r \in Requests : Deliver(r)
    \/ \E k \in {"page", "admin", "logout"}, t \in Tokens : Client(k, t)
    \/ (\E r \in Requests : Serve(r)) /\ UNCHANGED webVars
    \/ (\E u \in Users : Disable(u)) /\ UNCHANGED webVars

Spec == Init /\ [][Next]_vars

----------------------------------------------------------------------------
(* The shapes of the variables; every awaited request was sent, and the    *)
(* spinner always has a reply to wait for.                                 *)
TypeOK ==
    /\ SessionTypeOK
    /\ token \in Tokens \cup {None}
    /\ stored \in Users \cup {None} /\ user \in Users \cup {None}
    /\ authenticated \in BOOLEAN /\ isLoading \in BOOLEAN
    /\ awaited \subseteq 1..sent
    /\ isLoading => awaited # {}
    /\ out \in BOOLEAN /\ stale \in BOOLEAN

(* AuthContext.tsx: "Logout local debe funcionar incluso si el servidor    *)
(* falla."  From the end of a logout to the next sign-in no protected page *)
(* is shown and no token is kept, even if a profile asked for before the   *)
(* logout arrives after it.                                                *)
SignedOutStaysOut == out => ~AtHome /\ token = None

(* The profile in the context, from which every page reads the name and    *)
(* the balance, belongs to the token the requests carry: unless the last   *)
(* profile to arrive was asked for with another token.                     *)
ContextIsOwner ==
    user # None /\ token # None /\ ~stale => user = owner[token]
=============================================================================
