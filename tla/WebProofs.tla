------------------------------ MODULE WebProofs -------------------------------
(***************************************************************************)
(* Theorems about what a browser holds: the session, on both sides of the  *)
(* API, for any users and tokens and any number of requests; then the      *)
(* transactions page.                                                      *)
(***************************************************************************)
EXTENDS AuthContext, TransactionsPager, FiniteSetTheorems, SequenceTheorems, TLAPS

Checked == {"is_revoked", "get_by_id", "handler", "add"}

(* What the API's labels say about a request: it carries an issued token   *)
(* once that was decoded, and a confirmed logout has revoked its token.    *)
RequestsInv ==
    \A r \in Requests :
        /\ r > sent => pc[r] = "idle"
        /\ pc[r] # "idle" => kind[r] \in Kinds
        /\ pc[r] \in Checked \cup {"200", "403"} =>
             bearer[r] \in Tokens /\ owner[bearer[r]] # None
        /\ pc[r] = "handler" => kind[r] # "logout"
        /\ kind[r] = "logout" /\ pc[r] = "200" => bearer[r] \in revoked

(* A request made when its session was over cannot get past the read that  *)
(* ended it.                                                               *)
LateInv ==
    \A r \in late :
        /\ pc[r] \in {"is_revoked", "get_by_id", "401", "403"}
        /\ bearer[r] \in Tokens
        /\ bearer[r] \in revoked \/ owner[bearer[r]] \in Users \ enabled
        /\ pc[r] = "get_by_id" => owner[bearer[r]] \notin enabled

SessionInv == SessionTypeOK /\ RequestsInv /\ LateInv

WebTypeOK ==
    /\ token \in Tokens \cup {None}
    /\ stored \in Users \cup {None} /\ user \in Users \cup {None}
    /\ authenticated \in BOOLEAN /\ isLoading \in BOOLEAN
    /\ awaited \subseteq 1..sent
    /\ out \in BOOLEAN /\ stale \in BOOLEAN

(* The spinner waits for a profile.                                        *)
SpinnerInv == isLoading => \E r \in awaited : kind[r] = "profile"

(* Who is signed in: somebody with a token that was issued, and, unless    *)
(* the profile is stale, whoever the token was issued for, in the context  *)
(* and in storage.                                                         *)
TokenInv ==
    /\ token # None => owner[token] # None
    /\ authenticated => token # None
    /\ out => token = None

ProfileInv ==
    ~stale =>
        /\ stored # None \/ user # None => authenticated
        /\ authenticated => /\ stored # None => stored = owner[token]
                            /\ user # None => user = owner[token]

WebInv == WebTypeOK /\ SpinnerInv /\ TokenInv /\ ProfileInv

IInv == SessionInv /\ WebInv

----------------------------------------------------------------------------
(* The API.                                                                *)

(* A request arrives, perhaps with a token just issued.                    *)
LEMMA ArriveStep ==
    ASSUME SessionInv, NEW k \in Kinds, NEW t \in Tokens \cup {None},
           Arrive(sent + 1, k, t),
           owner' \in [Tokens -> Users \cup {None}],
           \A s \in Tokens : owner[s] # None => owner'[s] = owner[s],
           t # None => owner'[t] # None,
           UNCHANGED <<revoked, enabled>>
    PROVE  /\ SessionInv'
           /\ sent' = sent + 1
           /\ sent + 1 \in Requests
           /\ kind'[sent + 1] = k
           /\ \A r \in 1..sent : kind'[r] = kind[r]
<1> DEFINE n == sent + 1
<1> USE DEF SessionInv, SessionTypeOK, Requests
<1>1. n \in Requests /\ sent \in Nat /\ sent' = n /\ n \notin 1..sent
  BY SessionsAssumption DEF Arrive
<1>2. kind' = [kind EXCEPT ![n] = k] /\ bearer' = [bearer EXCEPT ![n] = t]
  BY DEF Arrive
<1>3. pc' = [pc EXCEPT ![n] = IF t = None THEN "401" ELSE "is_revoked"]
  BY DEF Arrive, Goto
<1>4. late' = IF t # None /\ Over(t) THEN late \cup {n} ELSE late
  BY DEF Arrive
<1>5. SessionTypeOK'
  BY <1>1, <1>2, <1>3, <1>4, SessionsAssumption DEF Calls, Statuses
<1>6. RequestsInv'
  BY <1>1, <1>2, <1>3 DEF RequestsInv, Checked
<1>7. ASSUME t # None, Over(t)
      PROVE  t \in revoked \/ owner'[t] \in Users \ enabled
  BY <1>7, SessionsAssumption DEF Over, RequestsInv
<1>8. LateInv'
  <2> SUFFICES ASSUME NEW r \in late'
               PROVE  /\ pc'[r] \in {"is_revoked", "get_by_id", "401", "403"}
                      /\ bearer'[r] \in Tokens
                      /\ bearer'[r] \in revoked' \/ owner'[bearer'[r]] \in Users \ enabled'
                      /\ pc'[r] = "get_by_id" => owner'[bearer'[r]] \notin enabled'
    BY DEF LateInv
  <2>1. CASE r \in late
    <3>1. r # n /\ r \in Requests
      BY <1>1, <2>1, SessionsAssumption
    <3>2. pc'[r] = pc[r] /\ bearer'[r] = bearer[r] /\ bearer[r] \in Tokens
      BY <1>2, <1>3, <2>1, <3>1 DEF LateInv
    <3>3. owner[bearer[r]] \in Users => owner'[bearer[r]] = owner[bearer[r]]
      BY <3>2, SessionsAssumption
    <3>4. pc[r] = "get_by_id" => owner[bearer[r]] # None
      BY <3>1 DEF RequestsInv, Checked
    <3> QED BY <2>1, <3>2, <3>3, <3>4 DEF LateInv
  <2>2. CASE r \notin late
    <3>1. r = n /\ t # None /\ Over(t)
      BY <1>4, <2>2
    <3>2. pc'[n] = "is_revoked" /\ bearer'[n] = t
      BY <1>1, <1>2, <1>3, <3>1
    <3> QED BY <1>7, <3>1, <3>2
  <2> QED BY <2>1, <2>2
<1> QED BY <1>1, <1>2, <1>5, <1>6, <1>8

(* The steps of a request that was received.                               *)
LEMMA ServeStep ==
    ASSUME SessionInv, NEW r \in Requests, Serve(r)
    PROVE  SessionInv' /\ UNCHANGED <<owner, sent, kind>>
<1> USE DEF SessionInv, SessionTypeOK, RequestsInv, LateInv, Goto, Calls,
            Statuses, Checked, Requests
<1>1. CASE IsRevoked(r)
  BY <1>1 DEF IsRevoked
<1>2. CASE GetById(r)
  BY <1>2 DEF GetById
<1>3. CASE Handler(r)
  BY <1>3 DEF Handler
<1>4. CASE Add(r)
  BY <1>4 DEF Add
<1> QED BY <1>1, <1>2, <1>3, <1>4 DEF Serve

LEMMA DisableStep ==
    ASSUME SessionInv, NEW u \in Users, Disable(u)
    PROVE  SessionInv' /\ UNCHANGED <<owner, sent, kind>>
BY DEF SessionInv, SessionTypeOK, RequestsInv, LateInv, Disable

(* A step of the API changes nothing that the web side is judged by.       *)
LEMMA WebStays ==
    ASSUME WebInv, UNCHANGED <<webVars, owner, sent, kind>>
    PROVE  WebInv'
BY DEF WebInv, WebTypeOK, SpinnerInv, TokenInv, ProfileInv, webVars

LEMMA InitIInv == Init => IInv
<1> SUFFICES ASSUME Init PROVE IInv
  OBVIOUS
<1> USE SessionsAssumption DEF Init, SessionInit, WebInit
<1>1. SessionTypeOK
  BY DEF SessionTypeOK, Requests
<1>2. RequestsInv /\ LateInv
  BY DEF RequestsInv, LateInv, Checked
<1>3. WebInv
  BY DEF WebInv, WebTypeOK, SpinnerInv, TokenInv, ProfileInv
<1> QED BY <1>1, <1>2, <1>3 DEF IInv, SessionInv

----------------------------------------------------------------------------
(* The page sends a request.                                               *)

(* The token of a sign-in is new; the context holds nobody, or somebody    *)
(* stale.                                                                  *)
LEMMA SignInStep ==
    ASSUME IInv, NEW u \in Users, NEW t \in Tokens, SignIn(u, t) \/ SignUp(u, t)
    PROVE  IInv'
<1> USE SessionsAssumption DEF IInv
<1>1. /\ AtLogin /\ u \in enabled /\ owner[t] = None
      /\ owner' = [owner EXCEPT ![t] = u]
      /\ token' = t
      /\ Arrive(sent + 1, "profile", t)
      /\ awaited' = awaited \cup {sent + 1}
      /\ out' = FALSE
      /\ UNCHANGED <<revoked, enabled, isLoading>>
  BY DEF SignIn, SignUp, Issue, Send
<1>2. /\ owner' \in [Tokens -> Users \cup {None}]
      /\ \A s \in Tokens : owner[s] # None => owner'[s] = owner[s]
      /\ owner'[t] = u /\ u # None
  BY <1>1 DEF SessionInv, SessionTypeOK
<1>3. /\ SessionInv' /\ sent' = sent + 1
      /\ \A r \in 1..sent : kind'[r] = kind[r]
  BY <1>1, <1>2, ArriveStep DEF Kinds
<1>4. WebTypeOK' /\ (authenticated' => token' # None)
  <2>1. awaited' \subseteq 1..sent'
    BY <1>1, <1>3 DEF WebInv, WebTypeOK, SessionInv, SessionTypeOK
  <2>2. t # None /\ u \in Users
    OBVIOUS
  <2>3. CASE SignIn(u, t)
    BY <1>1, <2>1, <2>2, <2>3 DEF SignIn, WebInv, WebTypeOK
  <2>4. CASE SignUp(u, t)
    BY <1>1, <2>1, <2>2, <2>4 DEF SignUp, SetUser, SignedIn, WebInv, WebTypeOK
  <2> QED BY <2>3, <2>4
<1>5. SpinnerInv' /\ TokenInv'
  BY <1>1, <1>2, <1>4 DEF SpinnerInv, TokenInv, AtLogin
<1>6. ProfileInv'
  <2>1. CASE SignIn(u, t)
    BY <1>1, <2>1 DEF SignIn, AtLogin, WebInv, ProfileInv
  <2>2. CASE SignUp(u, t)
    BY <1>1, <1>2, <2>2 DEF SignUp, SetUser, SignedIn, ProfileInv
  <2> QED BY <2>1, <2>2
<1> QED BY <1>3, <1>4, <1>5, <1>6 DEF WebInv

LEMMA ReloadStep == ASSUME IInv, Reload PROVE IInv'
<1> USE SessionsAssumption DEF IInv
<1>1. CASE token = None
  <2>1. SessionInv'
    BY <1>1 DEF Reload, sessionVars, SessionInv, SessionTypeOK, RequestsInv, LateInv
  <2>2. WebInv'
    BY <1>1 DEF Reload, sessionVars, SetUser, SignedIn, WebInv, WebTypeOK,
                SpinnerInv, TokenInv, ProfileInv
  <2> QED BY <2>1, <2>2
<1>2. CASE token # None
  <2>1. /\ SessionInv' /\ sent' = sent + 1
        /\ sent + 1 \in Requests
        /\ kind'[sent + 1] = "profile"
        /\ UNCHANGED owner
    <3>1. /\ token \in Tokens /\ owner[token] # None
          /\ owner \in [Tokens -> Users \cup {None}]
      BY <1>2 DEF WebInv, WebTypeOK, TokenInv, SessionInv, SessionTypeOK
    <3>2. Arrive(sent + 1, "profile", token) /\ UNCHANGED <<owner, revoked, enabled>>
      BY <1>2 DEF Reload
    <3> QED BY <3>1, <3>2, ArriveStep DEF Kinds
  <2>2. awaited' = {sent + 1} /\ awaited' \subseteq 1..sent'
    BY <1>2, <2>1 DEF Reload, SessionInv, SessionTypeOK
  <2>3. WebTypeOK'
    BY <1>2, <2>2 DEF Reload, SignedIn, WebInv, WebTypeOK
  <2>4. SpinnerInv'
    BY <2>1, <2>2 DEF SpinnerInv
  <2>5. TokenInv' /\ ProfileInv'
    BY <1>2, <2>1 DEF Reload, SignedIn, WebInv, TokenInv, ProfileInv
  <2> QED BY <2>1, <2>3, <2>4, <2>5 DEF WebInv
<1> QED BY <1>1, <1>2

(* A request with a token that was issued, from the page or from another   *)
(* holder of the token.                                                    *)
LEMMA AskStep ==
    ASSUME IInv, NEW k \in Kinds,
           \/ Ask(k)
           \/ \E t \in Tokens : Client(k, t)
    PROVE  IInv'
<1> USE SessionsAssumption DEF IInv
<1>1. PICK t \in Tokens \cup {None} :
          /\ Arrive(sent + 1, k, t)
          /\ t # None => owner[t] # None
          /\ UNCHANGED <<owner, revoked, enabled, token, stored, user,
                         authenticated, isLoading, out, stale>>
          /\ awaited' \subseteq awaited \cup {sent + 1}
          /\ awaited \subseteq awaited'
  <2>1. CASE Ask(k)
    BY <2>1 DEF Ask, Send, WebInv, WebTypeOK, TokenInv
  <2>2. ASSUME NEW t \in Tokens, Client(k, t)
        PROVE  /\ Arrive(sent + 1, k, t)
               /\ owner[t] # None
               /\ UNCHANGED <<owner, revoked, enabled, token, stored, user,
                              authenticated, isLoading, out, stale, awaited>>
    BY <2>2 DEF Client, webVars
  <2> QED BY <2>1, <2>2
<1>2. /\ SessionInv' /\ sent' = sent + 1
      /\ \A r \in 1..sent : kind'[r] = kind[r]
  <2>1. owner' \in [Tokens -> Users \cup {None}]
    BY <1>1 DEF SessionInv, SessionTypeOK
  <2> QED BY <1>1, <2>1, ArriveStep
<1>3. WebInv'
  BY <1>1, <1>2 DEF WebInv, WebTypeOK, SpinnerInv, TokenInv, ProfileInv,
                    SessionInv, SessionTypeOK
<1> QED BY <1>2, <1>3

----------------------------------------------------------------------------
(* A reply reaches the page.  The API does not move.                       *)
LEMMA SessionStays == ASSUME SessionInv, UNCHANGED sessionVars PROVE SessionInv'
BY DEF SessionInv, SessionTypeOK, RequestsInv, LateInv, sessionVars, Over

LEMMA DeliverStep == ASSUME IInv, NEW r \in Requests, Deliver(r) PROVE IInv'
<1> USE SessionsAssumption DEF IInv
<1>0. /\ r \in awaited
      /\ UNCHANGED sessionVars
      /\ SessionInv'
      /\ kind[r] = "profile" /\ pc[r] = "200" =>
           /\ bearer[r] \in Tokens /\ owner[bearer[r]] \in Users
  <2>1. r \in awaited /\ UNCHANGED sessionVars
    BY DEF Deliver, ProfileArrives, ProfileFails, LogoutEnds, PageArrives, Unauthorized
  <2> QED BY <2>1, SessionStays DEF SessionInv, SessionTypeOK, RequestsInv, Checked
<1> USE DEF WebInv, WebTypeOK, SpinnerInv, TokenInv, ProfileInv, sessionVars,
            SetUser, SignedIn, Cleared
<1>1. CASE ProfileArrives(r)
  BY <1>0, <1>1 DEF ProfileArrives
<1>2. CASE ProfileFails(r)
  BY <1>0, <1>2 DEF ProfileFails
<1>3. CASE LogoutEnds(r)
  BY <1>0, <1>3 DEF LogoutEnds
<1>4. CASE PageArrives(r)
  BY <1>0, <1>4 DEF PageArrives
<1>5. CASE Unauthorized(r)
  BY <1>0, <1>5 DEF Unauthorized, AtLogin
<1> QED BY <1>1, <1>2, <1>3, <1>4, <1>5 DEF Deliver

----------------------------------------------------------------------------
LEMMA NextIInv == IInv /\ [Next]_vars => IInv'
<1> SUFFICES ASSUME IInv, [Next]_vars PROVE IInv'
  OBVIOUS
<1>1. ASSUME NEW u \in Users, NEW t \in Tokens, SignIn(u, t) \/ SignUp(u, t)
      PROVE  IInv'
  BY <1>1, SignInStep
<1>2. CASE \E k \in {"page", "logout"} : Ask(k)
  BY <1>2, AskStep DEF Kinds
<1>3. CASE Reload
  BY <1>3, ReloadStep
<1>4. CASE \E r \in Requests : Deliver(r)
  BY <1>4, DeliverStep
<1>5. CASE \E k \in {"page", "admin", "logout"}, t \in Tokens : Client(k, t)
  BY <1>5, AskStep DEF Kinds
<1>6. CASE (\E r \in Requests : Serve(r)) /\ UNCHANGED webVars
  BY <1>6, ServeStep, WebStays DEF IInv
<1>7. CASE (\E u \in Users : Disable(u)) /\ UNCHANGED webVars
  BY <1>7, DisableStep, WebStays DEF IInv
<1>8. CASE UNCHANGED vars
  BY <1>8, SessionStays, WebStays DEF IInv, vars, sessionVars
<1> QED BY <1>1, <1>2, <1>3, <1>4, <1>5, <1>6, <1>7, <1>8 DEF Next

LEMMA Invariance == Spec => []IInv
<1>1. Init => IInv
  BY InitIInv
<1>2. IInv /\ [Next]_vars => IInv'
  BY NextIInv
<1> QED BY <1>1, <1>2, PTL DEF Spec

(* Type correctness; the spinner always has a reply to wait for.           *)
THEOREM TypeCorrect == Spec => []TypeOK
<1>1. IInv => TypeOK
  BY DEF IInv, SessionInv, WebInv, WebTypeOK, SpinnerInv, TypeOK
<1> QED BY <1>1, Invariance, PTL

(* A request made after the API has confirmed a logout of its token, or    *)
(* after its user was disabled, is never served.                           *)
THEOREM LateIsRefused == Spec => []EndedIsRefused
<1>1. IInv => EndedIsRefused
  BY DEF IInv, SessionInv, LateInv, EndedIsRefused
<1> QED BY <1>1, Invariance, PTL

(* From the end of a logout to the next sign-in no protected page is shown *)
(* and no token is kept, whatever replies are still under way.             *)
THEOREM LogoutIsLocal == Spec => []SignedOutStaysOut
<1>1. IInv => SignedOutStaysOut
  BY DEF IInv, WebInv, TokenInv, SignedOutStaysOut, AtHome
<1> QED BY <1>1, Invariance, PTL

(* The profile in the context belongs to the token the requests carry,     *)
(* unless the last profile to arrive was asked for with another one.       *)
THEOREM ProfileIsOwners == Spec => []ContextIsOwner
<1>1. IInv => ContextIsOwner
  BY DEF IInv, WebInv, ProfileInv, ContextIsOwner
<1> QED BY <1>1, Invariance, PTL

----------------------------------------------------------------------------
(***************************************************************************)
(* The transactions page, for any page size, number of rows and number of  *)
(* pages asked for.  It shares nothing with the session above.             *)
(***************************************************************************)

(* Among more rows the place of a row is no nearer the top.                *)
LEMMA PlaceGrows ==
  ASSUME NEW rows, NEW more, IsFiniteSet(more), rows \subseteq more, NEW row
  PROVE  /\ Place(rows, row) \in Nat
         /\ Place(rows, row) <= Place(more, row)
         /\ Place(rows, row) <= Cardinality(rows)
<1> DEFINE above(s) == {other \in s : other >= row}
<1>1. above(rows) \in SUBSET above(more) /\ above(more) \in SUBSET more
  OBVIOUS
<1>2. IsFiniteSet(rows) /\ IsFiniteSet(above(more))
  BY <1>1, FS_Subset
<1>3. above(rows) \in SUBSET rows
  OBVIOUS
<1>4. /\ Cardinality(above(rows)) \in Nat
      /\ Cardinality(above(rows)) <= Cardinality(above(more))
      /\ Cardinality(above(rows)) <= Cardinality(rows)
  BY <1>1, <1>2, <1>3, FS_Subset, FS_CardinalityType
<1> HIDE DEF above
<1>5. /\ Place(rows, row) = Cardinality(above(rows))
      /\ Place(more, row) = Cardinality(above(more))
  BY DEF Place, above
<1> QED
  BY <1>4, <1>5

(* An older row has a later place.                                         *)
LEMMA PlaceOrder ==
  ASSUME NEW rows, rows \subseteq Nat, IsFiniteSet(rows),
         NEW old \in rows, NEW new \in rows, old < new
  PROVE  Place(rows, new) < Place(rows, old)
<1> DEFINE above(row) == {other \in rows : other >= row}
<1>1. above(new) \in SUBSET above(old) /\ above(old) \in SUBSET rows
  <2>1. ASSUME NEW other \in rows, other >= new
        PROVE  other >= old
    <3>1. other \in Nat /\ new \in Nat /\ old \in Nat
      OBVIOUS
    <3> QED
      BY <2>1, <3>1
  <2> QED
    BY <2>1
<1>2. old \in above(old) /\ old \notin above(new)
  <2>1. old \in Nat /\ new \in Nat
    OBVIOUS
  <2> QED
    BY <2>1
<1>3. IsFiniteSet(above(old)) /\ IsFiniteSet(above(new))
  BY <1>1, FS_Subset
<1>4. above(new) # above(old)
  BY <1>2
<1>5. /\ Cardinality(above(new)) <= Cardinality(above(old))
      /\ Cardinality(above(new)) # Cardinality(above(old))
  BY <1>1, <1>3, <1>4, FS_Subset
<1>6. Cardinality(above(new)) \in Nat /\ Cardinality(above(old)) \in Nat
  BY <1>3, FS_CardinalityType
<1>7. Cardinality(above(new)) < Cardinality(above(old))
  BY <1>5, <1>6
<1> HIDE DEF above
<1>8. /\ Place(rows, new) = Cardinality(above(new))
      /\ Place(rows, old) = Cardinality(above(old))
  BY DEF Place, above
<1> QED
  BY <1>7, <1>8

(* Places start at one.                                                    *)
LEMMA PlaceRange ==
  ASSUME NEW rows, IsFiniteSet(rows), rows \subseteq Nat, NEW row \in rows
  PROVE  Place(rows, row) \in 1..Cardinality(rows)
<1>1. {row} \subseteq rows /\ IsFiniteSet({row})
  BY FS_Singleton
<1>2. {other \in {row} : other >= row} = {row}
  OBVIOUS
<1>3. Place({row}, row) = 1
  BY <1>2, FS_Singleton DEF Place
<1>4. /\ Place(rows, row) \in Nat
      /\ Place({row}, row) <= Place(rows, row)
      /\ Place(rows, row) <= Cardinality(rows)
  BY <1>1, PlaceGrows
<1>5. Cardinality(rows) \in Nat
  BY FS_CardinalityType
<1> QED
  BY <1>3, <1>4, <1>5

(* Two rows never share a place, so every place has its row.               *)
LEMMA PlaceTaken ==
  ASSUME NEW rows, IsFiniteSet(rows), rows \subseteq Nat,
         NEW i \in 1..Cardinality(rows)
  PROVE  \E row \in rows : Place(rows, row) = i
<1> DEFINE place == [row \in rows |-> Place(rows, row)]
           places == 1..Cardinality(rows)
<1>1. Cardinality(rows) \in Nat
  BY FS_CardinalityType
<1>2. IsFiniteSet(places) /\ Cardinality(places) = Cardinality(rows)
  BY <1>1, FS_Interval
<1>3. place \in [rows -> places]
  BY PlaceRange
<1>4. ASSUME NEW a \in rows, NEW b \in rows, place[a] = place[b]
      PROVE  a = b
  <2>1. place[a] = Place(rows, a) /\ place[b] = Place(rows, b)
    OBVIOUS
  <2>2. place[a] \in Int /\ place[b] \in Int
    BY <1>3, <1>1
  <2> HIDE DEF place
  <2>3. a < b => place[b] < place[a]
    BY <2>1, PlaceOrder
  <2>4. b < a => place[a] < place[b]
    BY <2>1, PlaceOrder
  <2>5. a \in Nat /\ b \in Nat
    OBVIOUS
  <2> QED
    BY <1>4, <2>2, <2>3, <2>4, <2>5
<1>5. place \in Injection(rows, places)
  BY <1>3, <1>4, Zenon DEF Injection, IsInjective
<1>6. place \in Surjection(rows, places)
  BY <1>2, <1>5, FS_Injection
<1>7. \E row \in rows : place[row] = i
  BY <1>6 DEF Surjection
<1> QED
  BY <1>7

(* So places tell rows apart, and order them.                              *)
LEMMA PlaceTells ==
  ASSUME NEW rows, IsFiniteSet(rows), rows \subseteq Nat,
         NEW a \in rows, NEW b \in rows
  PROVE  /\ Place(rows, a) = Place(rows, b) => a = b
         /\ Place(rows, a) <= Place(rows, b) <=> b <= a
<1>1. a < b => Place(rows, b) < Place(rows, a)
  BY PlaceOrder
<1>2. b < a => Place(rows, a) < Place(rows, b)
  BY PlaceOrder
<1>3. Place(rows, a) \in Nat /\ Place(rows, b) \in Nat
  BY PlaceGrows
<1>4. a \in Nat /\ b \in Nat
  OBVIOUS
<1> QED
  BY <1>1, <1>2, <1>3, <1>4

(* NewestFirst lists each row at its place.                                *)
LEMMA NewestFirstPlaces ==
  ASSUME NEW rows, IsFiniteSet(rows), rows \subseteq Nat
  PROVE  LET list == NewestFirst(rows) IN
         /\ list \in Seq(rows)
         /\ Len(list) = Cardinality(rows)
         /\ \A i \in 1..Len(list) : Place(rows, list[i]) = i
<1> DEFINE n == Cardinality(rows)
           At(i) == CHOOSE row \in rows : Place(rows, row) = i
           list == NewestFirst(rows)
<1>1. n \in Nat
  BY FS_CardinalityType
<1>2. ASSUME NEW i \in 1..n
      PROVE  At(i) \in rows /\ Place(rows, At(i)) = i
  BY PlaceTaken
<1>3. list = [i \in 1..n |-> At(i)]
  BY DEF NewestFirst
<1> HIDE DEF At, n, list
<1>4. list \in [1..n -> rows] /\ \A i \in 1..n : list[i] = At(i)
  BY <1>2, <1>3
<1>5. list \in Seq(rows) /\ Len(list) = n
  BY <1>1, <1>4
<1>6. ASSUME NEW i \in 1..Len(list)
      PROVE  Place(rows, list[i]) = i
  BY <1>2, <1>4, <1>5
<1> QED
  BY <1>5, <1>6 DEF n, list

(* Whether a list has a row.                                               *)
Has(list, row) == \E i \in 1..Len(list) : list[i] = row

(* The rows of a page follow the skipped ones, place by place.             *)
PageOf(rows, skip, page) ==
    /\ page \in Seq(rows)
    /\ \A i \in 1..Len(page) : Place(rows, page[i]) = skip + i

LEMMA PageIsPageOf ==
  ASSUME NEW rows, IsFiniteSet(rows), rows \subseteq Nat, NEW skip \in Nat,
         PageSize \in Nat
  PROVE  PageOf(rows, skip, Page(NewestFirst(rows), skip))
<1> DEFINE list == NewestFirst(rows)
           last == IF skip + PageSize < Len(list) THEN skip + PageSize ELSE Len(list)
           page == SubSeq(list, skip + 1, last)
<1>1. /\ list \in Seq(rows)
      /\ \A i \in 1..Len(list) : Place(rows, list[i]) = i
  BY NewestFirstPlaces
<1> HIDE DEF list
<1>2. Len(list) \in Nat
  BY <1>1
<1>3. last \in Int /\ last <= Len(list)
  BY <1>2
<1> HIDE DEF last
<1>4. \A i \in skip + 1 .. last : i \in 1..Len(list) /\ list[i] \in rows
  BY <1>1, <1>2, <1>3
<1>5. /\ page \in Seq(rows)
      /\ Len(page) = IF skip + 1 <= last THEN last - (skip + 1) + 1 ELSE 0
      /\ \A i \in 1 .. last - (skip + 1) + 1 : page[i] = list[(skip + 1) + i - 1]
  BY <1>3, <1>4, SubSeqProperties
<1> HIDE DEF page
<1>6. ASSUME NEW i \in 1..Len(page)
      PROVE  Place(rows, page[i]) = skip + i
  <2>1. i \in 1 .. last - (skip + 1) + 1 /\ skip + i \in skip + 1 .. last
    BY <1>3, <1>5
  <2>2. page[i] = list[skip + i]
    BY <1>5, <2>1
  <2> QED
    BY <1>1, <1>4, <2>1, <2>2
<1>7. page = Page(list, skip)
  BY DEF Page, page, last
<1> QED
  BY <1>5, <1>6, <1>7 DEF PageOf, list

(* What a page that shows `shown' of the rows must not have lost: there is *)
(* an oldest row, at least as many places down as rows are shown, and      *)
(* every row from it up to the first one shown is shown.                   *)
Solid(rows, shown) ==
    /\ shown \in Seq(rows)
    /\ shown # <<>> =>
         \E old \in 1..Len(shown) :
            /\ \A i \in 1..Len(shown) : shown[old] <= shown[i]
            /\ Len(shown) <= Place(rows, shown[old])
            /\ \A row \in rows :
                 shown[old] <= row /\ row <= shown[1] => Has(shown, row)

(* The oldest of the rows is shown.                                        *)
ToTheEnd(rows, shown) ==
    \E i \in 1..Len(shown) : \A row \in rows : shown[i] <= row

(* Rows newer than all of these are no reason to lose one.                 *)
LEMMA SolidGrows ==
  ASSUME NEW rows, NEW more, NEW shown, Solid(rows, shown),
         IsFiniteSet(more), more \subseteq Nat, rows \subseteq more,
         \A row \in rows, new \in more \ rows : row < new
  PROVE  Solid(more, shown)
<1>1. shown \in Seq(rows) /\ shown \in Seq(more)
  <2>1. shown \in Seq(rows)
    BY DEF Solid
  <2>2. shown \in [1..Len(shown) -> rows] /\ Len(shown) \in Nat
    BY <2>1
  <2>3. shown \in [1..Len(shown) -> more]
    BY <2>2
  <2> QED
    BY <2>1, <2>2, <2>3
<1>2. ASSUME shown # <<>>
      PROVE  \E old \in 1..Len(shown) :
                /\ \A i \in 1..Len(shown) : shown[old] <= shown[i]
                /\ Len(shown) <= Place(more, shown[old])
                /\ \A row \in more :
                     shown[old] <= row /\ row <= shown[1] => Has(shown, row)
  <2>1. PICK old \in 1..Len(shown) :
            /\ \A i \in 1..Len(shown) : shown[old] <= shown[i]
            /\ Len(shown) <= Place(rows, shown[old])
            /\ \A row \in rows :
                 shown[old] <= row /\ row <= shown[1] => Has(shown, row)
    BY <1>2 DEF Solid
  <2>2. /\ Place(rows, shown[old]) \in Nat
        /\ Place(rows, shown[old]) <= Place(more, shown[old])
    BY PlaceGrows
  <2>3. Place(more, shown[old]) \in Nat
    BY PlaceGrows
  <2>4. Len(shown) <= Place(more, shown[old])
    BY <1>1, <2>1, <2>2, <2>3
  <2>5. shown[1] \in rows
    BY <1>1, <1>2
  <2>6. ASSUME NEW row \in more, row <= shown[1]
        PROVE  row \in rows
    <3>1. row \in Nat /\ shown[1] \in Nat
      BY <2>5
    <3> QED
      BY <2>5, <2>6, <3>1
  <2> QED
    BY <2>1, <2>4, <2>6
<1> QED
  BY <1>1, <1>2 DEF Solid

LEMMA ToTheEndGrows ==
  ASSUME NEW rows, NEW more, NEW shown, ToTheEnd(rows, shown), shown \in Seq(rows),
         more \subseteq Nat, rows \subseteq more,
         \A row \in rows, new \in more \ rows : row < new
  PROVE  ToTheEnd(more, shown)
<1>1. PICK i \in 1..Len(shown) : \A row \in rows : shown[i] <= row
  BY DEF ToTheEnd
<1>2. shown[i] \in rows
  OBVIOUS
<1>3. ASSUME NEW row \in more
      PROVE  shown[i] <= row
  <2>1. shown[i] \in Nat /\ row \in Nat
    BY <1>2
  <2> QED
    BY <1>1, <1>2, <2>1
<1> QED
  BY <1>3 DEF ToTheEnd

(* A page as long as there are rows has come to the end of them.           *)
LEMMA SolidToTheEnd ==
  ASSUME NEW rows, IsFiniteSet(rows), rows \subseteq Nat,
         NEW shown, Solid(rows, shown), shown # <<>>,
         Cardinality(rows) <= Len(shown)
  PROVE  ToTheEnd(rows, shown)
<1>1. PICK old \in 1..Len(shown) : Len(shown) <= Place(rows, shown[old])
  BY DEF Solid
<1>2. shown \in Seq(rows)
  BY DEF Solid
<1>3. shown[old] \in rows
  BY <1>2
<1>4. ASSUME NEW row \in rows
      PROVE  shown[old] <= row
  <2>1. row \in Nat /\ shown[old] \in Nat
    BY <1>3
  <2>2. row < shown[old] => Place(rows, shown[old]) < Place(rows, row)
    BY <1>3, PlaceOrder
  <2>3. /\ Place(rows, row) \in 1..Cardinality(rows)
        /\ Place(rows, shown[old]) \in 1..Cardinality(rows)
    BY <1>3, PlaceRange
  <2>4. Cardinality(rows) \in Nat /\ Len(shown) \in Nat
    BY <1>2, FS_CardinalityType
  <2> QED
    BY <1>1, <2>1, <2>2, <2>3, <2>4
<1> QED
  BY <1>4 DEF ToTheEnd

(* A row after the skipped ones, and no older than one on the page, is on it. *)
LEMMA PageCovers ==
  ASSUME NEW rows, IsFiniteSet(rows), rows \subseteq Nat,
         NEW skip \in Nat, NEW page, PageOf(rows, skip, page),
         NEW last \in 1..Len(page), NEW row \in rows,
         page[last] <= row, skip < Place(rows, row)
  PROVE  Has(page, row)
<1>1. page \in Seq(rows) /\ Len(page) \in Nat
  BY DEF PageOf
<1>2. \A i \in 1..Len(page) : page[i] \in rows /\ Place(rows, page[i]) = skip + i
  BY <1>1 DEF PageOf
<1>3. Place(rows, row) \in Nat
  BY PlaceGrows
<1>4. Place(rows, row) <= skip + Len(page)
  <2>1. page[last] \in rows /\ Place(rows, page[last]) = skip + last
    BY <1>2
  <2>2. Place(rows, row) <= Place(rows, page[last])
    BY <2>1, PlaceTells
  <2> QED
    BY <1>1, <1>3, <2>1, <2>2
<1> DEFINE i == Place(rows, row) - skip
<1>5. i \in 1..Len(page) /\ skip + i = Place(rows, row)
  BY <1>1, <1>3, <1>4
<1>6. page[i] = row
  BY <1>2, <1>5, PlaceTells
<1> QED
  BY <1>5, <1>6 DEF Has

(* The page that follows as many rows as are shown loses none either; with *)
(* nothing shown, it is the first page.                                    *)
LEMMA SolidAppend ==
  ASSUME NEW rows, IsFiniteSet(rows), rows \subseteq Nat,
         NEW shown, Solid(rows, shown),
         NEW page, PageOf(rows, Len(shown), page)
  PROVE  Solid(rows, shown \o page)
<1> DEFINE n == Len(shown)
           m == Len(page)
           both == shown \o page
<1>1. /\ shown \in Seq(rows) /\ page \in Seq(rows)
      /\ n \in Nat /\ m \in Nat
  BY DEF Solid, PageOf
<1>2. /\ both \in Seq(rows) /\ Len(both) = n + m
      /\ \A i \in 1..n : both[i] = shown[i]
      /\ \A i \in 1..m : both[n + i] = page[i]
  BY <1>1
<1>3. \A i \in 1..m : page[i] \in rows /\ Place(rows, page[i]) = n + i
  BY <1>1 DEF PageOf
<1>4. \A i \in 1..n : shown[i] \in rows
  BY <1>1
<1>5. page = <<>> => both = shown
  BY <1>1
<1>6. ASSUME page # <<>>
      PROVE  \E old \in 1..Len(both) :
                /\ \A i \in 1..Len(both) : both[old] <= both[i]
                /\ Len(both) <= Place(rows, both[old])
                /\ \A row \in rows :
                     both[old] <= row /\ row <= both[1] => Has(both, row)
  <2>1. m >= 1 /\ m \in 1..m /\ page[m] \in rows
    BY <1>1, <1>3, <1>6
  <2>2. ASSUME NEW i \in 1..m
        PROVE  page[m] <= page[i]
    <3>1. Place(rows, page[i]) <= Place(rows, page[m])
      BY <1>1, <1>3, <2>1
    <3>2. page[i] \in rows
      BY <1>3
    <3> QED
      BY <2>1, <3>1, <3>2, PlaceTells
  <2>3. \A i \in 1..Len(both) : (i \in 1..n /\ both[i] = shown[i])
                                 \/ (i - n \in 1..m /\ both[i] = page[i - n])
    BY <1>1, <1>2
  <2>4. \A i \in 1..m : n + i \in 1..Len(both)
    BY <1>1, <1>2
  <2>5. ASSUME NEW row \in rows, page[m] <= row, n < Place(rows, row)
        PROVE  Has(both, row)
    <3>1. Has(page, row)
      BY <1>1, <2>1, <2>5, PageCovers
    <3>2. PICK i \in 1..m : page[i] = row
      BY <3>1 DEF Has
    <3> QED
      BY <1>2, <2>4, <3>2 DEF Has
  <2>6. CASE shown = <<>>
    <3>1. n = 0 /\ both[1] = page[1] /\ both[n + m] = page[m] /\ n + m \in 1..Len(both)
      BY <1>1, <1>2, <2>1, <2>4, <2>6
    <3>2. \A i \in 1..Len(both) : both[n + m] <= both[i]
      BY <2>2, <2>3, <3>1
    <3>3. Len(both) <= Place(rows, both[n + m])
      BY <1>1, <1>2, <1>3, <2>1, <3>1
    <3>4. ASSUME NEW row \in rows, both[n + m] <= row
          PROVE  Has(both, row)
      <4>1. Place(rows, row) \in 1..Cardinality(rows)
        BY PlaceRange
      <4>2. n < Place(rows, row)
        BY <3>1, <4>1
      <4> QED
        BY <2>5, <3>1, <3>4, <4>2
    <3> QED
      BY <3>1, <3>2, <3>3, <3>4
  <2>7. CASE shown # <<>>
    <3>1. PICK old \in 1..n :
            /\ \A i \in 1..n : shown[old] <= shown[i]
            /\ n <= Place(rows, shown[old])
            /\ \A row \in rows :
                 shown[old] <= row /\ row <= shown[1] => Has(shown, row)
      BY <2>7 DEF Solid
    <3>2. both[1] = shown[1] /\ shown[old] \in rows /\ n >= 1
      BY <1>1, <1>2, <1>4, <3>1
    <3>3. ASSUME NEW row \in rows, shown[old] <= row, row <= both[1]
          PROVE  Has(both, row)
      <4>1. PICK i \in 1..n : shown[i] = row
        BY <3>1, <3>2, <3>3 DEF Has
      <4>2. i \in 1..Len(both) /\ both[i] = row
        BY <1>1, <1>2, <4>1
      <4> QED
        BY <4>2 DEF Has
    <3>4. CASE shown[old] <= page[m]
      <4>1. old \in 1..Len(both) /\ both[old] = shown[old]
        BY <1>1, <1>2
      <4>2. \A i \in 1..m : shown[old] <= page[i]
        <5>1. \A i \in 1..m : page[i] \in Nat
          BY <1>3
        <5>2. shown[old] \in Nat /\ page[m] \in Nat
          BY <2>1, <3>2
        <5> QED
          BY <2>2, <3>4, <5>1, <5>2
      <4>3. \A i \in 1..Len(both) : both[old] <= both[i]
        BY <2>3, <3>1, <4>1, <4>2
      <4>4. Len(both) <= Place(rows, both[old])
        <5>1. Place(rows, page[m]) <= Place(rows, shown[old])
          BY <2>1, <3>2, <3>4, PlaceTells
        <5>2. Place(rows, page[m]) = Len(both)
          BY <1>2, <1>3, <2>1
        <5> QED
          BY <4>1, <5>1, <5>2
      <4> QED
        BY <3>3, <4>1, <4>3, <4>4
    <3>5. CASE page[m] < shown[old]
      <4>1. n + m \in 1..Len(both) /\ both[n + m] = page[m]
        BY <1>2, <2>1, <2>4
      <4>2. \A i \in 1..n : page[m] <= shown[i]
        <5>1. \A i \in 1..n : shown[i] \in Nat
          BY <1>4
        <5>2. shown[old] \in Nat /\ page[m] \in Nat
          BY <2>1, <3>2
        <5> QED
          BY <3>1, <3>5, <5>1, <5>2
      <4>3. \A i \in 1..Len(both) : both[n + m] <= both[i]
        BY <2>2, <2>3, <4>1, <4>2
      <4>4. Len(both) <= Place(rows, both[n + m])
        BY <1>1, <1>2, <1>3, <2>1, <4>1
      <4>5. ASSUME NEW row \in rows, both[n + m] <= row, row <= both[1]
            PROVE  Has(both, row)
        <5>1. CASE shown[old] <= row
          BY <3>3, <4>5, <5>1
        <5>2. CASE row < shown[old]
          <6>1. Place(rows, shown[old]) < Place(rows, row)
            BY <3>2, <5>2, PlaceOrder
          <6>2. Place(rows, shown[old]) \in Nat /\ Place(rows, row) \in Nat
            BY PlaceGrows
          <6>3. n < Place(rows, row)
            BY <1>1, <3>1, <6>1, <6>2
          <6> QED
            BY <2>5, <4>1, <4>5, <6>3
        <5>3. row \in Nat /\ shown[old] \in Nat
          BY <3>2
        <5> QED
          BY <5>1, <5>2, <5>3
      <4> QED
        BY <4>1, <4>3, <4>4, <4>5
    <3>6. shown[old] <= page[m] \/ page[m] < shown[old]
      <4>1. page[m] \in Nat /\ shown[old] \in Nat
        BY <2>1, <3>2
      <4> QED
        BY <4>1
    <3> QED
      BY <3>4, <3>5, <3>6, Zenon
  <2> QED
    BY <2>6, <2>7
<1> HIDE DEF both
<1>7. Solid(rows, both)
  <2>1. CASE page = <<>>
    BY <1>5, <2>1
  <2>2. CASE page # <<>>
    BY <1>2, <1>6, <2>2, Zenon DEF Solid
  <2> QED
    BY <2>1, <2>2
<1> QED
  BY <1>7 DEF both

----------------------------------------------------------------------------
(* What list_for_user's query lets through of the first n rows of a log.   *)
Listed(rows, f, n) == {row \in 1..n : f = All \/ rows[row] = f}

LEMMA ListedFacts ==
  ASSUME NEW rows, NEW f, NEW n \in Nat, NEW more \in Nat, n <= more
  PROVE  /\ IsFiniteSet(Listed(rows, f, n)) /\ Listed(rows, f, n) \subseteq Nat
         /\ IsFiniteSet(Listed(rows, f, more)) /\ Listed(rows, f, more) \subseteq Nat
         /\ Listed(rows, f, n) \subseteq Listed(rows, f, more)
         /\ \A row \in Listed(rows, f, n), new \in Listed(rows, f, more) \ Listed(rows, f, n) :
                row < new
<1>1. IsFiniteSet(1..n) /\ IsFiniteSet(1..more)
  BY FS_Interval
<1>2. /\ Listed(rows, f, n) \in SUBSET (1..n)
      /\ Listed(rows, f, more) \in SUBSET (1..more)
  BY DEF Listed
<1>3. IsFiniteSet(Listed(rows, f, n)) /\ IsFiniteSet(Listed(rows, f, more))
  BY <1>1, <1>2, FS_Subset
<1>4. ASSUME NEW row \in Listed(rows, f, n),
             NEW new \in Listed(rows, f, more) \ Listed(rows, f, n)
      PROVE  row < new
  <2>1. row \in 1..n /\ new \in 1..more /\ new \notin 1..n
    BY DEF Listed
  <2> QED
    BY <2>1
<1>5. Listed(rows, f, n) \subseteq Listed(rows, f, more)
  BY DEF Listed
<1> QED
  BY <1>2, <1>3, <1>4, <1>5

PagerRequest ==
    [filter : Filters, skip : Nat, append : BOOLEAN,
     at : {"count", "find", "reply", "over"}, total : Nat, items : Seq(Nat)]

PagerTypeOK ==
    /\ log \in Seq(Types) /\ filter \in Filters
    /\ items \in Seq(Nat) /\ total \in Nat
    /\ isLoadingInitial \in BOOLEAN /\ isLoadingMore \in BOOLEAN
    /\ loadError \in BOOLEAN /\ torn \in BOOLEAN /\ overtaken \in BOOLEAN
    /\ requestId \in Fetches
    /\ request \in [Fetches -> PagerRequest]

(* Only requests that were made are under way, and the newest asks for     *)
(* what the page shows now: the current filter, from the first row or from *)
(* the one after those shown.                                              *)
AskedInv ==
    \A k \in Fetches : request[k].at # "over" =>
        /\ k <= requestId
        /\ k = requestId =>
             /\ request[k].filter = filter
             /\ request[k].skip = IF request[k].append THEN Len(items) ELSE 0

(* A total that was read is that of the rows there are, unless it is torn. *)
CountedInv ==
    \A k \in Fetches : request[k].at = "find" /\ ~torn =>
        request[k].total = Cardinality(Listed(log, request[k].filter, Len(log)))

(* A page that was read is the one of some moment since; of the newest     *)
(* request, of a moment when what is shown was solid already.              *)
PageRead(r, fresh, rows, shown, whole) ==
    /\ PageOf(rows, r.skip, r.items)
    /\ whole => r.total = Cardinality(rows)
    /\ fresh /\ r.append => Solid(rows, shown)

ReadInv ==
    \A k \in Fetches : request[k].at = "reply" =>
        \E n \in 0..Len(log) :
            PageRead(request[k], k = requestId, Listed(log, request[k].filter, n),
                     items, ~torn)

(* What is shown is solid now, and reaches the end when the page says so.  *)
ShownInv ==
    /\ Solid(Listed(log, filter, Len(log)), items)
    /\ items # <<>> /\ total <= Len(items) /\ ~torn =>
         ToTheEnd(Listed(log, filter, Len(log)), items)

PagerInv ==
    /\ PagerTypeOK /\ AskedInv /\ CountedInv /\ ReadInv /\ ShownInv

LEMMA AskedIsRequest ==
  ASSUME NEW f \in Filters, NEW skip \in Nat, NEW append \in BOOLEAN
  PROVE  LET r == Asked(f, skip, append) IN
         /\ r \in PagerRequest
         /\ r.filter = f /\ r.skip = skip /\ r.append = append /\ r.at = "count"
<1>1. <<>> \in Seq(Nat)
  OBVIOUS
<1> QED
  BY <1>1 DEF Asked, PagerRequest

LEMMA GoneIsRequest ==
  Gone \in PagerRequest /\ Gone.at = "over"
<1>1. All \in Filters
  BY DEF Filters
<1> DEFINE r == Asked(All, 0, FALSE)
<1>2. r \in PagerRequest
  BY <1>1, AskedIsRequest
<1> HIDE DEF r
<1>3. Gone = [r EXCEPT !.at = "over"]
  BY DEF Gone, r
<1> QED
  BY <1>2, <1>3 DEF PagerRequest

LEMMA PagerInvInit ==
  PagerInit => PagerInv
<1> SUFFICES ASSUME PagerInit
             PROVE  PagerInv
  OBVIOUS
<1>1. MaxFetches \in Nat \ {0}
  BY TransactionsPagerAssumption
<1>2. /\ filter = All /\ items = <<>> /\ total = 0 /\ requestId = 1
      /\ isLoadingInitial = TRUE /\ isLoadingMore = FALSE /\ loadError = FALSE
      /\ torn = FALSE /\ overtaken = FALSE
  BY DEF PagerInit
<1>3. log \in Seq(Types)
  <2>1. PICK n \in 0..MaxRows : log \in [1..n -> Types]
    BY DEF PagerInit
  <2> QED
    BY <2>1
<1>4. request = [k \in Fetches |->
                   IF k = 1 THEN Asked(All, 0, FALSE) ELSE Gone]
  BY DEF PagerInit
<1>5. ASSUME NEW k \in Fetches
      PROVE  /\ request[k] \in PagerRequest
             /\ request[k].at \in {"count", "over"}
             /\ k # 1 => request[k].at = "over"
             /\ k = 1 => request[k].filter = All /\ request[k].skip = 0
                        /\ request[k].append = FALSE
  <2>1. All \in Filters
    BY DEF Filters
  <2>2. k = 1 => request[k] = Asked(All, 0, FALSE)
    BY <1>4
  <2>3. k # 1 => request[k] = Gone
    BY <1>4
  <2> DEFINE r == Asked(All, 0, FALSE)
  <2>4. /\ r \in PagerRequest
        /\ r.filter = All /\ r.skip = 0 /\ r.append = FALSE /\ r.at = "count"
    <3>1. FALSE \in BOOLEAN /\ 0 \in Nat
      OBVIOUS
    <3> QED
      BY <2>1, <3>1, AskedIsRequest, Zenon
  <2> HIDE DEF r
  <2>5. k = 1 => request[k] = r
    BY <2>2 DEF r
  <2>6. CASE k = 1
    BY <2>4, <2>5, <2>6
  <2>7. CASE k # 1
    BY <2>3, <2>7, GoneIsRequest
  <2> QED
    BY <2>6, <2>7
<1>6. All \in Filters /\ <<>> \in Seq(Nat)
  BY DEF Filters
<1>7. PagerTypeOK
  <2>1. request \in [Fetches -> PagerRequest]
    BY <1>4, <1>5
  <2>2. requestId \in Fetches
    BY <1>1, <1>2 DEF Fetches
  <2> QED
    BY <1>2, <1>3, <1>6, <2>1, <2>2 DEF PagerTypeOK
<1>8. AskedInv
  <2>1. \A k \in Fetches : request[k].at # "over" => k = 1
    BY <1>5
  <2> SUFFICES ASSUME NEW k \in Fetches, request[k].at # "over"
               PROVE  /\ k <= requestId
                      /\ request[k].filter = filter
                      /\ request[k].skip = IF request[k].append THEN Len(items) ELSE 0
    BY DEF AskedInv
  <2>2. k = 1
    BY <2>1
  <2>3. /\ request[k].filter = All /\ request[k].skip = 0
        /\ request[k].append = FALSE
    BY <1>5, <2>2
  <2>4. k <= requestId
    BY <1>2, <2>2
  <2> QED
    BY <1>2, <2>3, <2>4
<1>9. CountedInv /\ ReadInv
  <2>1. \A k \in Fetches : request[k].at # "find" /\ request[k].at # "reply"
    BY <1>5
  <2> QED
    BY <2>1 DEF CountedInv, ReadInv
<1>10. ShownInv
  BY <1>2 DEF ShownInv, Solid
<1> QED
  BY <1>7, <1>8, <1>9, <1>10 DEF PagerInv

(* fetchPage makes the newest request: the others are stale from then on.  *)
LEMMA FetchStep ==
  ASSUME PagerTypeOK, AskedInv, CountedInv, ReadInv,
         NEW f \in Filters, NEW skip \in Nat, NEW append \in BOOLEAN,
         FetchPage(f, skip, append), UNCHANGED <<log, torn>>,
         filter' = f, skip = IF append THEN Len(items') ELSE 0
  PROVE  /\ requestId' \in Fetches
         /\ request' \in [Fetches -> PagerRequest]
         /\ isLoadingInitial' \in BOOLEAN /\ isLoadingMore' \in BOOLEAN
         /\ loadError' \in BOOLEAN
         /\ AskedInv' /\ CountedInv' /\ ReadInv'
<1> DEFINE k0 == requestId + 1
           r == Asked(f, skip, append)
<1>1. /\ k0 \in Fetches /\ requestId' = k0
      /\ request' = [request EXCEPT ![k0] = r]
  BY DEF FetchPage
<1>2. /\ isLoadingInitial' \in BOOLEAN /\ isLoadingMore' \in BOOLEAN
      /\ loadError' \in BOOLEAN
  BY DEF FetchPage, PagerTypeOK
<1>3. /\ r \in PagerRequest
      /\ r.filter = f /\ r.skip = skip /\ r.append = append /\ r.at = "count"
  BY AskedIsRequest
<1> HIDE DEF r
<1>4. request' \in [Fetches -> PagerRequest]
  BY <1>1, <1>3 DEF PagerTypeOK
<1>5. /\ request'[k0] = r
      /\ \A k \in Fetches : k # k0 => request'[k] = request[k]
  BY <1>1 DEF PagerTypeOK
<1>6. requestId \in Nat /\ \A k \in Fetches : k \in Nat
  BY DEF PagerTypeOK, Fetches
<1>7. \A k \in Fetches : request[k].at # "over" => k <= requestId
  BY DEF AskedInv
<1> DEFINE k1 == requestId'
<1>8. k1 = k0
  BY <1>1
<1>9. AskedInv'
  <2> SUFFICES ASSUME NEW k \in Fetches, request'[k].at # "over"
               PROVE  /\ k <= requestId'
                      /\ k = requestId' =>
                           /\ request'[k].filter = filter'
                           /\ request'[k].skip =
                                IF request'[k].append THEN Len(items') ELSE 0
    BY DEF AskedInv
  <2>1. CASE k = k0
    BY <1>1, <1>3, <1>5, <1>6, <2>1
  <2>2. CASE k # k0
    <3>1. k <= requestId
      BY <1>5, <1>7, <2>2
    <3> QED
      BY <1>1, <1>6, <2>2, <3>1
  <2> QED
    BY <2>1, <2>2
<1>10. CountedInv'
  <2> SUFFICES ASSUME NEW k \in Fetches, request'[k].at = "find", ~torn'
               PROVE  request'[k].total =
                        Cardinality(Listed(log', request'[k].filter, Len(log')))
    BY DEF CountedInv
  <2>1. k # k0 /\ request'[k] = request[k]
    BY <1>3, <1>5
  <2> QED
    BY <2>1 DEF CountedInv
<1>11. ReadInv'
  <2> SUFFICES ASSUME NEW k \in Fetches, request'[k].at = "reply"
               PROVE  \E n \in 0..Len(log') :
                        PageRead(request'[k], k = requestId',
                                 Listed(log', request'[k].filter, n), items', ~torn')
    BY DEF ReadInv
  <2>1. k # k0 /\ request'[k] = request[k]
    BY <1>3, <1>5
  <2>2. PICK n \in 0..Len(log) :
          PageRead(request[k], k = requestId, Listed(log, request[k].filter, n),
                   items, ~torn)
    BY <2>1 DEF ReadInv
  <2>3. PageRead(request[k], k = k1, Listed(log, request[k].filter, n), items', ~torn)
    BY <1>1, <2>1, <2>2 DEF PageRead
  <2>4. log' = log /\ torn' = torn
    OBVIOUS
  <2> QED
    BY <2>1, <2>3, <2>4
<1> QED
  BY <1>1, <1>2, <1>4, <1>9, <1>10, <1>11

LEMMA LoadMoreStep ==
  ASSUME PagerInv, LoadMore
  PROVE  PagerInv'
<1>1. /\ FetchPage(filter, Len(items), TRUE)
      /\ log' = log /\ filter' = filter /\ items' = items /\ total' = total
      /\ torn' = torn /\ overtaken' = overtaken
  BY DEF LoadMore
<1>2. PagerTypeOK /\ AskedInv /\ CountedInv /\ ReadInv /\ ShownInv
  BY DEF PagerInv
<1>3. filter \in Filters /\ Len(items) \in Nat
  BY <1>2 DEF PagerTypeOK
<1> DEFINE skip == Len(items)
<1>4. skip = IF TRUE THEN Len(items') ELSE 0
  BY <1>1
<1>5. /\ requestId' \in Fetches
      /\ request' \in [Fetches -> PagerRequest]
      /\ isLoadingInitial' \in BOOLEAN /\ isLoadingMore' \in BOOLEAN
      /\ loadError' \in BOOLEAN
      /\ AskedInv' /\ CountedInv' /\ ReadInv'
  BY <1>1, <1>2, <1>3, <1>4, FetchStep
<1>6. PagerTypeOK'
  BY <1>1, <1>2, <1>5 DEF PagerTypeOK
<1>7. ShownInv'
  BY <1>1, <1>2 DEF ShownInv
<1> QED
  BY <1>5, <1>6, <1>7 DEF PagerInv

LEMMA FilterChangeStep ==
  ASSUME PagerInv, NEW f \in Filters, FilterChange(f)
  PROVE  PagerInv'
<1>1. /\ FetchPage(f, 0, FALSE)
      /\ log' = log /\ filter' = f /\ items' = <<>> /\ total' = 0
      /\ torn' = torn /\ overtaken' = (overtaken \/ isLoadingMore)
  BY DEF FilterChange
<1>2. PagerTypeOK /\ AskedInv /\ CountedInv /\ ReadInv /\ ShownInv
  BY DEF PagerInv
<1>3. 0 \in Nat /\ FALSE \in BOOLEAN /\ 0 = IF FALSE THEN Len(items') ELSE 0
  OBVIOUS
<1>4. /\ requestId' \in Fetches
      /\ request' \in [Fetches -> PagerRequest]
      /\ isLoadingInitial' \in BOOLEAN /\ isLoadingMore' \in BOOLEAN
      /\ loadError' \in BOOLEAN
      /\ AskedInv' /\ CountedInv' /\ ReadInv'
  BY <1>1, <1>2, <1>3, FetchStep
<1>5. PagerTypeOK'
  BY <1>1, <1>2, <1>4 DEF PagerTypeOK
<1>6. ShownInv'
  BY <1>1 DEF ShownInv, Solid
<1> QED
  BY <1>4, <1>5, <1>6 DEF PagerInv

LEMMA GrowStep ==
  ASSUME PagerInv, NEW t \in Types, Grow(t)
  PROVE  PagerInv'
<1> DEFINE n0 == Len(log)
<1>1. /\ log' = Append(log, t)
      /\ torn' = (torn \/ \E k \in Fetches : request[k].at = "find")
      /\ filter' = filter /\ items' = items /\ total' = total
      /\ isLoadingInitial' = isLoadingInitial /\ isLoadingMore' = isLoadingMore
      /\ loadError' = loadError /\ requestId' = requestId /\ request' = request
      /\ overtaken' = overtaken
  BY DEF Grow
<1>2. PagerTypeOK /\ AskedInv /\ CountedInv /\ ReadInv /\ ShownInv
  BY DEF PagerInv
<1>3. log \in Seq(Types) /\ n0 \in Nat /\ torn \in BOOLEAN
  BY <1>2 DEF PagerTypeOK
<1>4. /\ log' \in Seq(Types) /\ Len(log') = n0 + 1
      /\ \A row \in 1..n0 : log'[row] = log[row]
  BY <1>1, <1>3
<1>5. torn' \in BOOLEAN /\ (~torn' => ~torn)
  BY <1>1, <1>3
<1>6. ASSUME NEW f, NEW n \in 0..n0
      PROVE  Listed(log', f, n) = Listed(log, f, n)
  <2>1. \A row \in 1..n : log'[row] = log[row]
    BY <1>3, <1>4
  <2> QED
    BY <2>1 DEF Listed
<1>7. n0 \in 0..n0 /\ \A n \in 0..n0 : n \in 0..Len(log')
  BY <1>3, <1>4
<1>8. PagerTypeOK'
  BY <1>1, <1>2, <1>4, <1>5 DEF PagerTypeOK
<1>9. AskedInv'
  BY <1>1, <1>2 DEF AskedInv
<1>10. CountedInv'
  <2>1. ASSUME NEW k \in Fetches, request[k].at = "find", ~torn'
        PROVE  FALSE
    BY <1>1, <2>1
  <2> QED
    BY <1>1, <2>1 DEF CountedInv
<1>11. ReadInv'
  <2> SUFFICES ASSUME NEW k \in Fetches, request'[k].at = "reply"
               PROVE  \E n \in 0..Len(log') :
                        PageRead(request'[k], k = requestId',
                                 Listed(log', request'[k].filter, n), items', ~torn')
    BY DEF ReadInv
  <2>1. PICK n \in 0..Len(log) :
          PageRead(request[k], k = requestId, Listed(log, request[k].filter, n),
                   items, ~torn)
    BY <1>1, <1>2 DEF ReadInv
  <2>2. Listed(log', request[k].filter, n) = Listed(log, request[k].filter, n)
    BY <1>6
  <2>3. PageRead(request[k], k = requestId, Listed(log', request[k].filter, n),
                 items, ~torn')
    BY <1>5, <2>1, <2>2 DEF PageRead
  <2>4. n \in 0..Len(log')
    BY <1>7
  <2> QED
    BY <1>1, <2>3, <2>4
<1>12. ShownInv'
  <2> DEFINE rows == Listed(log, filter, n0)
             more == Listed(log', filter, Len(log'))
  <2>1. rows = Listed(log', filter, n0)
    BY <1>6, <1>7
  <2>2. n0 \in Nat /\ Len(log') \in Nat /\ n0 <= Len(log')
    BY <1>3, <1>4
  <2>3. /\ IsFiniteSet(more) /\ more \subseteq Nat /\ rows \subseteq more
        /\ \A row \in rows, new \in more \ rows : row < new
    BY <2>1, <2>2, ListedFacts
  <2>4. Solid(rows, items)
    BY <1>2 DEF ShownInv
  <2> HIDE DEF rows, more
  <2>5. Solid(more, items)
    BY <2>3, <2>4, SolidGrows
  <2>6. items # <<>> /\ total <= Len(items) /\ ~torn' => ToTheEnd(more, items)
    <3>1. items # <<>> /\ total <= Len(items) /\ ~torn' => ToTheEnd(rows, items)
      BY <1>2, <1>5 DEF ShownInv, rows
    <3>2. items \in Seq(rows)
      BY <2>4 DEF Solid
    <3> QED
      BY <2>3, <3>1, <3>2, ToTheEndGrows
  <2>7. more = Listed(log', filter', Len(log'))
    BY <1>1 DEF more
  <2> QED
    BY <1>1, <2>5, <2>6, <2>7 DEF ShownInv
<1> QED
  BY <1>2, <1>8, <1>9, <1>10, <1>11, <1>12 DEF PagerInv

LEMMA MatchingIsListed ==
  ASSUME NEW f
  PROVE  Matching(f) = Listed(log, f, Len(log))
BY DEF Matching, Listed

LEMMA CountStep ==
  ASSUME PagerInv, NEW k \in Fetches, Count(k)
  PROVE  PagerInv'
<1> DEFINE n0 == Cardinality(Listed(log, request[k].filter, Len(log)))
<1>1. /\ request[k].at = "count"
      /\ request' = [request EXCEPT ![k].at = "find", ![k].total = n0]
      /\ log' = log /\ filter' = filter /\ items' = items /\ total' = total
      /\ isLoadingInitial' = isLoadingInitial /\ isLoadingMore' = isLoadingMore
      /\ loadError' = loadError /\ requestId' = requestId
      /\ torn' = torn /\ overtaken' = overtaken
  BY MatchingIsListed DEF Count
<1>2. PagerTypeOK /\ AskedInv /\ CountedInv /\ ReadInv /\ ShownInv
  BY DEF PagerInv
<1>3. n0 \in Nat
  <2>1. Len(log) \in Nat
    BY <1>2 DEF PagerTypeOK
  <2> QED
    BY <2>1, ListedFacts, FS_CardinalityType
<1>4. request[k] \in PagerRequest
  BY <1>2 DEF PagerTypeOK
<1>5. n0 = Cardinality(Listed(log, request[k].filter, Len(log)))
  OBVIOUS
<1> HIDE DEF n0
<1>6. /\ request'[k] \in PagerRequest
      /\ request'[k].at = "find" /\ request'[k].total = n0
      /\ request'[k].filter = request[k].filter /\ request'[k].skip = request[k].skip
      /\ request'[k].append = request[k].append
      /\ \A j \in Fetches : j # k => request'[j] = request[j]
      /\ request' \in [Fetches -> PagerRequest]
  BY <1>1, <1>2, <1>3, <1>4 DEF PagerTypeOK, PagerRequest
<1>7. PagerTypeOK'
  BY <1>1, <1>2, <1>6 DEF PagerTypeOK
<1>8. AskedInv'
  <2> SUFFICES ASSUME NEW j \in Fetches, request'[j].at # "over"
               PROVE  /\ j <= requestId
                      /\ j = requestId =>
                           /\ request'[j].filter = filter
                           /\ request'[j].skip =
                                IF request'[j].append THEN Len(items) ELSE 0
    BY <1>1 DEF AskedInv
  <2>1. /\ request[j].at # "over" /\ request'[j].filter = request[j].filter
        /\ request'[j].skip = request[j].skip /\ request'[j].append = request[j].append
    BY <1>1, <1>6
  <2> QED
    BY <1>2, <2>1 DEF AskedInv
<1>9. CountedInv'
  <2> SUFFICES ASSUME NEW j \in Fetches, request'[j].at = "find", ~torn
               PROVE  request'[j].total =
                        Cardinality(Listed(log, request'[j].filter, Len(log)))
    BY <1>1 DEF CountedInv
  <2>1. CASE j = k
    BY <1>5, <1>6, <2>1
  <2>2. CASE j # k
    BY <1>2, <1>6, <2>2 DEF CountedInv
  <2> QED
    BY <2>1, <2>2
<1>10. ReadInv'
  <2> SUFFICES ASSUME NEW j \in Fetches, request'[j].at = "reply"
               PROVE  \E n \in 0..Len(log) :
                        PageRead(request'[j], j = requestId,
                                 Listed(log, request'[j].filter, n), items, ~torn)
    BY <1>1 DEF ReadInv
  <2>1. j # k /\ request'[j] = request[j]
    BY <1>6
  <2> QED
    BY <1>2, <2>1 DEF ReadInv
<1>11. ShownInv'
  BY <1>1, <1>2 DEF ShownInv
<1> QED
  BY <1>2, <1>7, <1>8, <1>9, <1>10, <1>11 DEF PagerInv

LEMMA FindStep ==
  ASSUME PagerInv, NEW k \in Fetches, Find(k)
  PROVE  PagerInv'
<1> DEFINE rows == Listed(log, request[k].filter, Len(log))
           page == Page(NewestFirst(rows), request[k].skip)
<1>1. /\ request[k].at = "find"
      /\ request' = [request EXCEPT ![k].at = "reply", ![k].items = page]
      /\ log' = log /\ filter' = filter /\ items' = items /\ total' = total
      /\ isLoadingInitial' = isLoadingInitial /\ isLoadingMore' = isLoadingMore
      /\ loadError' = loadError /\ requestId' = requestId
      /\ torn' = torn /\ overtaken' = overtaken
  BY MatchingIsListed DEF Find
<1>2. /\ PagerTypeOK /\ AskedInv /\ CountedInv /\ ReadInv /\ ShownInv
      /\ PageSize \in Nat
  BY TransactionsPagerAssumption DEF PagerInv
<1>3. request[k] \in PagerRequest /\ Len(log) \in Nat
  BY <1>2 DEF PagerTypeOK
<1>4. request[k].skip \in Nat
  BY <1>3 DEF PagerRequest
<1>5. IsFiniteSet(rows) /\ rows \subseteq Nat
  BY <1>3, ListedFacts
<1>6. PageOf(rows, request[k].skip, page)
  BY <1>2, <1>4, <1>5, PageIsPageOf
<1> HIDE DEF page
<1>7. page \in Seq(Nat)
  <2>1. page \in Seq(rows)
    BY <1>6 DEF PageOf
  <2> HIDE DEF rows
  <2>2. page \in [1..Len(page) -> rows] /\ Len(page) \in Nat
    BY <2>1
  <2>3. page \in [1..Len(page) -> Nat]
    BY <1>5, <2>2
  <2> QED
    BY <2>2, <2>3
<1>8. /\ request'[k] \in PagerRequest
      /\ request'[k].at = "reply" /\ request'[k].items = page
      /\ request'[k].filter = request[k].filter /\ request'[k].skip = request[k].skip
      /\ request'[k].append = request[k].append /\ request'[k].total = request[k].total
      /\ \A j \in Fetches : j # k => request'[j] = request[j]
      /\ request' \in [Fetches -> PagerRequest]
  BY <1>1, <1>2, <1>3, <1>7 DEF PagerTypeOK, PagerRequest
<1>9. PagerTypeOK'
  BY <1>1, <1>2, <1>8 DEF PagerTypeOK
<1>10. AskedInv'
  <2> SUFFICES ASSUME NEW j \in Fetches, request'[j].at # "over"
               PROVE  /\ j <= requestId
                      /\ j = requestId =>
                           /\ request'[j].filter = filter
                           /\ request'[j].skip =
                                IF request'[j].append THEN Len(items) ELSE 0
    BY <1>1 DEF AskedInv
  <2>1. /\ request[j].at # "over" /\ request'[j].filter = request[j].filter
        /\ request'[j].skip = request[j].skip /\ request'[j].append = request[j].append
    BY <1>1, <1>8
  <2> QED
    BY <1>2, <2>1 DEF AskedInv
<1>11. CountedInv'
  <2> SUFFICES ASSUME NEW j \in Fetches, request'[j].at = "find", ~torn
               PROVE  request'[j].total =
                        Cardinality(Listed(log, request'[j].filter, Len(log)))
    BY <1>1 DEF CountedInv
  <2>1. j # k /\ request'[j] = request[j]
    BY <1>8
  <2> QED
    BY <1>2, <2>1 DEF CountedInv
<1>12. ReadInv'
  <2> SUFFICES ASSUME NEW j \in Fetches, request'[j].at = "reply"
               PROVE  \E n \in 0..Len(log) :
                        PageRead(request'[j], j = requestId,
                                 Listed(log, request'[j].filter, n), items, ~torn)
    BY <1>1 DEF ReadInv
  <2>1. CASE j # k
    <3>1. request'[j] = request[j]
      BY <1>8, <2>1
    <3> QED
      BY <1>2, <3>1 DEF ReadInv
  <2>2. CASE j = k
    <3>1. ~torn => request'[k].total = Cardinality(rows)
      BY <1>1, <1>2, <1>8 DEF CountedInv
    <3>2. PageOf(rows, request'[k].skip, request'[k].items)
      BY <1>6, <1>8
    <3>3. k = requestId => Solid(rows, items)
      <4>1. k = requestId => request[k].filter = filter
        BY <1>1, <1>2 DEF AskedInv
      <4> QED
        BY <1>2, <4>1 DEF ShownInv
    <3>4. Len(log) \in 0..Len(log)
      BY <1>3
    <3>5. rows = Listed(log, request'[k].filter, Len(log))
      BY <1>8
    <3> HIDE DEF rows
    <3>6. PageRead(request'[k], k = requestId, rows, items, ~torn)
      BY <3>1, <3>2, <3>3 DEF PageRead
    <3> QED
      BY <2>2, <3>4, <3>5, <3>6
  <2> QED
    BY <2>1, <2>2
<1>13. ShownInv'
  BY <1>1, <1>2 DEF ShownInv
<1> QED
  BY <1>2, <1>9, <1>10, <1>11, <1>12, <1>13 DEF PagerInv

(* A request is over; what is shown changes only with the newest.          *)
LEMMA GoneStep ==
  ASSUME PagerTypeOK, AskedInv, CountedInv, ReadInv, NEW k \in Fetches,
         request' = [request EXCEPT ![k] = Gone],
         UNCHANGED <<log, filter, torn, requestId>>,
         items' = items \/ k = requestId
  PROVE  /\ request' \in [Fetches -> PagerRequest]
         /\ AskedInv' /\ CountedInv' /\ ReadInv'
<1>1. /\ request'[k] \in PagerRequest /\ request'[k].at = "over"
      /\ \A j \in Fetches : j # k => request'[j] = request[j]
      /\ request' \in [Fetches -> PagerRequest]
  BY GoneIsRequest DEF PagerTypeOK
<1>2. AskedInv'
  <2> SUFFICES ASSUME NEW j \in Fetches, request'[j].at # "over"
               PROVE  /\ j <= requestId
                      /\ j = requestId =>
                           /\ request'[j].filter = filter
                           /\ request'[j].skip =
                                IF request'[j].append THEN Len(items') ELSE 0
    BY DEF AskedInv
  <2>1. j # k /\ request'[j] = request[j]
    BY <1>1
  <2>2. j = requestId => items' = items
    BY <2>1
  <2> QED
    BY <2>1, <2>2 DEF AskedInv
<1>3. CountedInv'
  <2> SUFFICES ASSUME NEW j \in Fetches, request'[j].at = "find", ~torn
               PROVE  request'[j].total =
                        Cardinality(Listed(log, request'[j].filter, Len(log)))
    BY DEF CountedInv
  <2>1. request'[j] = request[j]
    BY <1>1
  <2> QED
    BY <2>1 DEF CountedInv
<1>4. ReadInv'
  <2> SUFFICES ASSUME NEW j \in Fetches, request'[j].at = "reply"
               PROVE  \E n \in 0..Len(log) :
                        PageRead(request'[j], j = requestId,
                                 Listed(log, request'[j].filter, n), items', ~torn)
    BY DEF ReadInv
  <2>1. j # k /\ request'[j] = request[j]
    BY <1>1
  <2>2. PICK n \in 0..Len(log) :
          PageRead(request[j], j = requestId, Listed(log, request[j].filter, n),
                   items, ~torn)
    BY <2>1 DEF ReadInv
  <2>3. j = requestId => items' = items
    BY <2>1
  <2>4. PageRead(request[j], j = requestId, Listed(log, request[j].filter, n),
                 items', ~torn)
    BY <2>2, <2>3 DEF PageRead
  <2> QED
    BY <2>1, <2>4
<1> QED
  BY <1>1, <1>2, <1>3, <1>4

LEMMA FailStep ==
  ASSUME PagerInv, NEW k \in Fetches, Fail(k)
  PROVE  PagerInv'
<1>1. /\ request' = [request EXCEPT ![k] = Gone]
      /\ log' = log /\ filter' = filter /\ items' = items /\ total' = total
      /\ requestId' = requestId /\ torn' = torn /\ overtaken' = overtaken
  BY DEF Fail
<1>2. PagerTypeOK /\ AskedInv /\ CountedInv /\ ReadInv /\ ShownInv
  BY DEF PagerInv
<1>3. /\ isLoadingInitial' \in BOOLEAN /\ isLoadingMore' \in BOOLEAN
      /\ loadError' \in BOOLEAN
  BY <1>2 DEF Fail, Settle, PagerTypeOK
<1>4. /\ request' \in [Fetches -> PagerRequest]
      /\ AskedInv' /\ CountedInv' /\ ReadInv'
  BY <1>1, <1>2, GoneStep
<1>5. PagerTypeOK'
  BY <1>1, <1>2, <1>3, <1>4 DEF PagerTypeOK
<1>6. ShownInv'
  BY <1>1, <1>2 DEF ShownInv
<1> QED
  BY <1>2, <1>4, <1>5, <1>6 DEF PagerInv

LEMMA ReplyStep ==
  ASSUME PagerInv, NEW k \in Fetches, Reply(k)
  PROVE  PagerInv'
<1> DEFINE r == request[k]
           base == IF r.append THEN items ELSE <<>>
<1>1. /\ r.at = "reply" /\ request' = [request EXCEPT ![k] = Gone]
      /\ log' = log /\ filter' = filter /\ loadError' = loadError
      /\ requestId' = requestId /\ torn' = torn /\ overtaken' = overtaken
  BY DEF Reply
<1>2. PagerTypeOK /\ AskedInv /\ CountedInv /\ ReadInv /\ ShownInv
  BY DEF PagerInv
<1>3. CASE k # requestId
  <2>1. /\ items' = items /\ total' = total
        /\ isLoadingInitial' = isLoadingInitial /\ isLoadingMore' = isLoadingMore
    BY <1>3 DEF Reply, Fresh
  <2>2. /\ request' \in [Fetches -> PagerRequest]
        /\ AskedInv' /\ CountedInv' /\ ReadInv'
    BY <1>1, <1>2, <2>1, GoneStep
  <2>3. PagerTypeOK'
    BY <1>1, <1>2, <2>1, <2>2 DEF PagerTypeOK
  <2>4. ShownInv'
    BY <1>1, <1>2, <2>1 DEF ShownInv
  <2> QED
    BY <2>2, <2>3, <2>4 DEF PagerInv
<1>4. CASE k = requestId
  <2>1. /\ total' = r.total
        /\ items' = IF r.append THEN items \o r.items ELSE r.items
        /\ isLoadingInitial' \in BOOLEAN /\ isLoadingMore' \in BOOLEAN
    BY <1>2, <1>4 DEF Reply, Fresh, Settle, PagerTypeOK
  <2>2. /\ request' \in [Fetches -> PagerRequest]
        /\ AskedInv' /\ CountedInv' /\ ReadInv'
    BY <1>1, <1>2, <1>4, GoneStep
  <2>3. r \in PagerRequest /\ items \in Seq(Nat) /\ Len(log) \in Nat
    BY <1>2 DEF PagerTypeOK
  <2>4. r.items \in Seq(Nat) /\ r.total \in Nat /\ r.append \in BOOLEAN
    BY <2>3 DEF PagerRequest
  <2>5. items' \in Seq(Nat)
    BY <2>1, <2>3, <2>4
  <2>6. PagerTypeOK'
    BY <1>1, <1>2, <2>1, <2>2, <2>4, <2>5 DEF PagerTypeOK
  <2>7. r.filter = filter /\ r.skip = Len(base)
    BY <1>1, <1>2, <1>4 DEF AskedInv
  <2>8. items' = base \o r.items
    <3>1. CASE r.append
      BY <2>1, <3>1
    <3>2. CASE ~r.append
      <4>1. base = <<>> /\ items' = r.items
        BY <2>1, <3>2
      <4>2. <<>> \o r.items = r.items
        BY <2>4
      <4> QED
        BY <4>1, <4>2
    <3> QED
      BY <3>1, <3>2
  <2>9. PICK n \in 0..Len(log) :
          PageRead(r, k = requestId, Listed(log, r.filter, n), items, ~torn)
    BY <1>1, <1>2 DEF ReadInv
  <2> DEFINE rows == Listed(log, filter, n)
             more == Listed(log, filter, Len(log))
  <2>10. n \in Nat /\ n <= Len(log)
    BY <2>3
  <2>11. /\ IsFiniteSet(rows) /\ rows \subseteq Nat
         /\ IsFiniteSet(more) /\ more \subseteq Nat /\ rows \subseteq more
         /\ \A row \in rows, new \in more \ rows : row < new
    BY <2>3, <2>10, ListedFacts
  <2>12. PageRead(r, TRUE, rows, items, ~torn)
    BY <1>4, <2>7, <2>9
  <2>13. more = Listed(log', filter', Len(log'))
    BY <1>1
  <2> HIDE DEF rows, more
  <2>14. Solid(rows, base)
    BY <2>12 DEF PageRead, Solid
  <2>15. PageOf(rows, Len(base), r.items)
    BY <2>7, <2>12 DEF PageRead
  <2> HIDE DEF base, r
  <2>16. Solid(rows, items')
    BY <2>8, <2>11, <2>14, <2>15, SolidAppend
  <2>17. Solid(more, items')
    BY <2>11, <2>16, SolidGrows
  <2>18. items' # <<>> /\ total' <= Len(items') /\ ~torn => ToTheEnd(more, items')
    <3> SUFFICES ASSUME items' # <<>>, total' <= Len(items'), ~torn
                 PROVE  ToTheEnd(more, items')
      OBVIOUS
    <3>1. total' = Cardinality(rows)
      BY <2>1, <2>12 DEF PageRead
    <3>2. ToTheEnd(rows, items')
      BY <2>11, <2>16, <3>1, SolidToTheEnd
    <3>3. items' \in Seq(rows)
      BY <2>16 DEF Solid
    <3> QED
      BY <2>11, <3>2, <3>3, ToTheEndGrows
  <2>19. ShownInv'
    BY <1>1, <2>13, <2>17, <2>18 DEF ShownInv
  <2> QED
    BY <2>2, <2>6, <2>19 DEF PagerInv
<1> QED
  BY <1>3, <1>4

LEMMA PagerStep ==
  PagerInv /\ [PagerNext]_(pagerVars) => PagerInv'
<1> SUFFICES ASSUME PagerInv, [PagerNext]_(pagerVars)
             PROVE  PagerInv'
  OBVIOUS
<1>1. CASE LoadMore
  BY <1>1, LoadMoreStep
<1>2. ASSUME NEW f \in Filters, FilterChange(f)
      PROVE  PagerInv'
  BY <1>2, FilterChangeStep
<1>3. ASSUME NEW t \in Types, Grow(t)
      PROVE  PagerInv'
  BY <1>3, GrowStep
<1>4. ASSUME NEW k \in Fetches,
             Count(k) \/ Find(k) \/ Reply(k) \/ Fail(k)
      PROVE  PagerInv'
  BY <1>4, CountStep, FindStep, ReplyStep, FailStep
<1>5. CASE UNCHANGED pagerVars
  <2>1. /\ log' = log /\ filter' = filter /\ items' = items /\ total' = total
        /\ isLoadingInitial' = isLoadingInitial /\ isLoadingMore' = isLoadingMore
        /\ loadError' = loadError /\ requestId' = requestId /\ request' = request
        /\ torn' = torn /\ overtaken' = overtaken
    BY <1>5 DEF pagerVars
  <2> QED
    BY <2>1 DEF PagerInv, PagerTypeOK, AskedInv, CountedInv, ReadInv, ShownInv
<1> QED
  BY <1>1, <1>2, <1>3, <1>4, <1>5 DEF PagerNext

LEMMA PagerInvariant ==
  PagerSpec => []PagerInv
BY PagerInvInit, PagerStep, PTL DEF PagerSpec

(* The page never leaves a row of its filter out between the newest row of *)
(* its first page and the oldest it shows, and shows no row of another     *)
(* filter, however replies overtake each other and rows come in            *)
(* (TransactionsPage's requestIdRef, and its skip of transactions.length). *)
THEOREM PagerSkipsNoRow ==
  PagerSpec => []NoRowSkipped
<1>1. PagerInv => NoRowSkipped
  <2> SUFFICES ASSUME PagerInv PROVE NoRowSkipped
    OBVIOUS
  <2> DEFINE rows == Listed(log, filter, Len(log))
  <2>1. Solid(rows, items) /\ Len(log) \in Nat
    BY DEF PagerInv, ShownInv, PagerTypeOK
  <2>2. Selected = rows
    BY MatchingIsListed DEF Selected
  <2>3. rows \subseteq Nat
    BY <2>1, ListedFacts
  <2> HIDE DEF rows
  <2>4. items \in Seq(rows)
    BY <2>1 DEF Solid
  <2>5. Shown \subseteq rows
    BY <2>4 DEF Shown
  <2>6. ASSUME NEW old \in Shown, NEW row \in rows,
               old < row, row <= items[1]
        PROVE  row \in Shown
    <3>1. items # <<>>
      BY <2>4, <2>6 DEF Shown
    <3>2. PICK i \in 1..Len(items) :
            /\ \A j \in 1..Len(items) : items[i] <= items[j]
            /\ \A other \in rows :
                 items[i] <= other /\ other <= items[1] => Has(items, other)
      BY <2>1, <3>1 DEF Solid
    <3>3. items[i] <= old
      BY <3>2 DEF Shown
    <3>4. items[i] \in Nat /\ old \in Nat /\ row \in Nat
      <4>1. items[i] \in rows
        BY <2>4
      <4>2. old \in rows
        BY <2>5, <2>6
      <4> QED
        BY <2>3, <2>6, <4>1, <4>2
    <3>5. items[i] <= row
      BY <2>6, <3>3, <3>4
    <3>6. Has(items, row)
      BY <2>6, <3>2, <3>5
    <3> QED
      BY <3>6 DEF Has, Shown
  <2> QED
    BY <2>2, <2>5, <2>6 DEF NoRowSkipped
<1> QED
  BY <1>1, PagerInvariant, PTL

(* When the page offers no more it has shown the oldest row of its filter, *)
(* unless a row came in between a count and its read (TransactionsPage's   *)
(* hasMore, list_for_user's count before its find).                        *)
THEOREM PagerEndIsTrue ==
  PagerSpec => []EndIsTrue
<1>1. PagerInv => EndIsTrue
  <2> SUFFICES ASSUME PagerInv, items # <<>>, ~hasMore, ~torn
               PROVE  \E row \in Shown : \A other \in Selected : row <= other
    BY DEF EndIsTrue
  <2> DEFINE rows == Listed(log, filter, Len(log))
  <2>1. total \in Nat /\ Len(items) \in Nat
    BY DEF PagerInv, PagerTypeOK
  <2>2. total <= Len(items)
    BY <2>1 DEF hasMore
  <2>3. ToTheEnd(rows, items)
    BY <2>2 DEF PagerInv, ShownInv
  <2>4. Selected = rows
    BY MatchingIsListed DEF Selected
  <2> QED
    BY <2>3, <2>4 DEF ToTheEnd, Shown
<1> QED
  BY <1>1, PagerInvariant, PTL
===============================================================================
