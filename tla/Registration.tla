----------------------------- MODULE Registration -----------------------------
(***************************************************************************)
(* Registration end to end, on the process of module Boot: the form of     *)
(* RegisterPage, POST /auth/register and UserManager.create.  A visitor    *)
(* submits the form, may meet a time-out and submit it again, corrected or *)
(* not, while the earlier request is still running: request <<v, n>> is    *)
(* the n-th of visitor v.                                                  *)
(*                                                                         *)
(* Faults: replies that are lost or late, the process dies with every      *)
(* request in flight, and what module Boot adds.                           *)
(***************************************************************************)
EXTENDS Boot

CONSTANTS
    Visitors,
    Spellings,       \* e-mail addresses as typed
    Phones,          \* phone numbers as typed
    Lower,           \* str.lower
    E164,            \* the number in E.164, or None when there is none
    None,
    MaxTries,        \* bound: how often a visitor submits the form
    MaxSubmits       \* bound: how often all do together, for each provider

Requests == Visitors \X (1..MaxTries)

Emails  == {Lower[s] : s \in Spellings}
Numbers == {E164[p] : p \in Phones} \ {None}

Documents == [email : Emails, phone : Numbers, by : Requests]

ASSUME RegistrationAssumption ==
    /\ Spellings \subseteq DOMAIN Lower /\ Phones \subseteq DOMAIN E164
    /\ MaxTries \in Nat /\ MaxSubmits \in [{"aws", "log"} -> Nat]
    /\ None \notin Documents

VARIABLES
    users,           \* the collection
    pc,              \* the call each request makes next, or its answer
    doc,             \* the document each request inserts
    tries,           \* how often each visitor has submitted
    page             \* what each visitor sees: form, waiting, home

regVars == <<users, pc, doc, tries, page>>
vars == <<bootVars, regVars>>

Calls == {"find_conflict", "insert_one"}
Answers == {"created", "email", "phone", "invalid", "unknown"}

Goto(r, label) == pc' = [pc EXCEPT ![r] = label]

RegInit ==
    /\ users = {}
    /\ pc = [r \in Requests |-> "idle"]
    /\ doc = [r \in Requests |-> None]
    /\ tries = [v \in Visitors |-> 0]
    /\ page = [v \in Visitors |-> "form"]

----------------------------------------------------------------------------
(* The process answers.                                                    *)

(* The document create builds from a validated payload.                    *)
Normalized(s) == Lower[s]

(* RegisterRequest's validators; what they refuse never meets the manager. *)
Receive(r, s, p) ==
    IF ~Serving THEN Goto(r, "unknown") /\ UNCHANGED doc
    ELSE IF E164[p] = None THEN Goto(r, "invalid") /\ UNCHANGED doc
    ELSE /\ doc' = [doc EXCEPT
                      ![r] = [email |-> Normalized(s), phone |-> E164[p], by |-> r]]
         /\ Goto(r, "find_conflict")

(* find_one with $or returns any document that matches.                    *)
FindConflict(r) ==
    /\ pc[r] = "find_conflict"
    /\ LET found == {e \in users : e.email = doc[r].email \/ e.phone = doc[r].phone}
       IN  \/ found = {} /\ Goto(r, "insert_one")
           \/ \E e \in found :
                Goto(r, IF e.email = doc[r].email THEN "email" ELSE "phone")
    /\ UNCHANGED <<users, doc, tries, page>>

(* The unique indexes that exist and refuse d.                             *)
Violated(d) ==
    {k \in {"email", "phone"} :
        /\ (IF k = "email" THEN "uniq_email" ELSE "uniq_phone") \in built
        /\ \E e \in users : e[k] = d[k]}

InsertOne(r) ==
    /\ pc[r] = "insert_one"
    /\ Violated(doc[r]) = {}
    /\ users' = users \cup {doc[r]}
    /\ Goto(r, "created")
    /\ UNCHANGED <<doc, tries, page>>

BugDuplicateIsOwn(r) ==
    /\ pc[r] = "insert_one"
    /\ Violated(doc[r]) # {}
    /\ Goto(r, "created")
    /\ UNCHANGED <<users, doc, tries, page>>

(* keyPattern of the DuplicateKeyError names an index that fired.          *)
Duplicate(r) ==
    /\ pc[r] = "insert_one"
    /\ \E k \in Violated(doc[r]) : Goto(r, k)
    /\ UNCHANGED <<users, doc, tries, page>>

(* The process died: its requests end without an answer.                   *)
Dropped ==
    /\ pc' = [r \in Requests |-> IF pc[r] \in Calls THEN "unknown" ELSE pc[r]]
    /\ UNCHANGED <<users, doc, tries, page>>

----------------------------------------------------------------------------
(* The form.                                                               *)

(* handleSubmit; loading keeps it from running twice.                      *)
Submit(v) ==
    /\ page[v] = "form" /\ tries[v] < MaxTries
    /\ Cardinality({r \in Requests : r[2] <= tries[r[1]]}) < MaxSubmits[env.provider]
    /\ tries' = [tries EXCEPT ![v] = @ + 1]
    /\ page' = [page EXCEPT ![v] = "waiting"]
    /\ \E s \in Spellings, p \in Phones : Receive(<<v, tries[v] + 1>>, s, p)
    /\ UNCHANGED users

BugTimeoutIsSuccess(v) ==
    /\ page[v] = "waiting"
    /\ page' = [page EXCEPT ![v] = IF pc[<<v, tries[v]>>] \in {"email", "phone"}
                                   THEN "form" ELSE "home"]
    /\ UNCHANGED <<users, pc, doc, tries>>

(* The reply arrives, or none does: "created" signs the visitor in,        *)
(* everything else, axios's time-out included, gives the form back.        *)
Settle(v) ==
    /\ page[v] = "waiting"
    /\ \/ /\ pc[<<v, tries[v]>>] = "created"
          /\ page' = [page EXCEPT ![v] = "home"]
       \/ page' = [page EXCEPT ![v] = "form"]
    /\ UNCHANGED <<users, pc, doc, tries>>

----------------------------------------------------------------------------
RegStep ==
    \/ \E r \in Requests : FindConflict(r) \/ InsertOne(r) \/ Duplicate(r)
    \/ \E v \in Visitors : Submit(v) \/ Settle(v)

Init == BootInit /\ RegInit

(* Only a serving process answers; one that falls drops what it was at.    *)
Next ==
    \/ (BootStep \/ AwsChanges) /\ UNCHANGED regVars
    \/ Fall /\ Dropped
    \/ RegStep /\ UNCHANGED bootVars

Spec == Init /\ [][Next]_vars

(* restart: always, and a lifespan that awaits nothing for ever.           *)
FairSpec == Spec /\ WF_vars(BootStep /\ UNCHANGED regVars)

----------------------------------------------------------------------------
(* The shapes of the variables; a request is only in flight in a process   *)
(* that serves.                                                            *)
TypeOK ==
    /\ BootTypeOK
    /\ users \subseteq Documents
    /\ pc \in [Requests -> {"idle"} \cup Calls \cup Answers]
    /\ doc \in [Requests -> Documents \cup {None}]
    /\ tries \in [Visitors -> 0..MaxTries]
    /\ page \in [Visitors -> {"form", "waiting", "home"}]
    /\ \A r \in Requests : pc[r] \in Calls => Serving

(* The visitor who is let in owns an account, made by the request that let *)
(* the visitor in, and nobody else has its e-mail or phone.                *)
SignedInOwns ==
    \A v \in Visitors : page[v] = "home" =>
        LET r == <<v, tries[v]>> IN
        /\ doc[r] \in users
        /\ \A e \in users : e.email = doc[r].email \/ e.phone = doc[r].phone
                              => e = doc[r]

AnswerOf(r) == IF pc[r] \in Answers \ {"invalid"} THEN pc[r] ELSE None

Register == INSTANCE UniqueRegister WITH
    Callers <- Requests,
    Docs    <- Documents,
    Keys    <- {"email", "phone"},
    stored  <- users,
    asked   <- doc,
    answer  <- [r \in Requests |-> AnswerOf(r)]

(* Whatever restarts, retries and races do, the collection is a register   *)
(* with the two unique keys e-mail and phone: the indexes are there before *)
(* the first insert.                                                       *)
ImplementsRegister == Register!Spec
=============================================================================
