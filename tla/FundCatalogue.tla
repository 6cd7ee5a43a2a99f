---------------------------- MODULE FundCatalogue ----------------------------
(***************************************************************************)
(* The funds collection: FundManager.create_fund and .soft_delete_fund as  *)
(* the admin routes call them, and the seed script, which runs beside the  *)
(* API as a process of its own and may run again at any time.  One action  *)
(* per awaited call; pc[r] names the call request r makes next.            *)
(*                                                                         *)
(* Faults: the reply of a write is lost, the API dies with every request   *)
(* in flight, the seed dies between two upserts.                           *)
(***************************************************************************)
EXTENDS Naturals, FiniteSets

CONSTANTS
    Requests,
    Ids,
    Names,
    Mandatory,       \* MANDATORY_FUNDS, documents inserted by the seed
    Seed,            \* the value of "by" in a document of the seed
    None,
    MaxSeeds         \* bound: how many times the seed runs

Docs == [id : Ids, nombre : Names, by : Requests \cup {Seed}]

ASSUME CatalogueAssumption ==
    /\ Ids \subseteq Nat
    /\ Mandatory \subseteq Docs
    /\ \A d \in Mandatory : d.by = Seed
    /\ \A d, e \in Mandatory : d.id = e.id => d = e
    /\ None \notin Docs \cup Ids
    /\ Seed \notin Requests
    /\ Requests \cap Mandatory = {}
    /\ MaxSeeds \in Nat

VARIABLES
    funds,           \* the collection, without the flag activo
    activo,          \* the ids of the funds with activo = true
    indexed,         \* uniq_nombre exists
    up,              \* an API process serves requests
    pc,              \* the call each request makes next, or its answer
    doc,             \* the fund each create asks for
    target,          \* the id each delete names
    todo,            \* the mandatory funds the running seed has still to upsert
    seeds,           \* how many times the seed was started
    upserted,        \* what the last upsert of each mandatory fund gave
    unborn           \* history: the deletes that met no document of their id

seedVars == <<todo, seeds, upserted>>

vars == <<funds, activo, indexed, up, pc, doc, target, seedVars, unborn>>

Calls == {"find_conflict", "insert_one", "update", "find_one"}
Answers == {"created", "id", "nombre", "deactivated", "inactive",
            "not_found", "unknown"}

Goto(r, label) == pc' = [pc EXCEPT ![r] = label]

Init ==
    /\ funds = {} /\ activo = {} /\ indexed = FALSE /\ up = FALSE
    /\ pc = [r \in Requests |-> "idle"]
    /\ doc = [r \in Requests |-> None] /\ target = [r \in Requests |-> None]
    /\ todo = {} /\ seeds = 0
    /\ upserted = [d \in Mandatory |-> None]
    /\ unborn = {}

----------------------------------------------------------------------------
(* The process.                                                            *)

BugNoEnsureIndexes ==
    /\ ~up /\ up' = TRUE
    /\ UNCHANGED <<funds, activo, indexed, pc, doc, target, seedVars, unborn>>

(* The lifespan ensures the indexes, then the process serves.              *)
Startup ==
    /\ ~up
    /\ up' = TRUE /\ indexed' = TRUE
    /\ UNCHANGED <<funds, activo, pc, doc, target, seedVars, unborn>>

Crash ==
    /\ up
    /\ up' = FALSE
    /\ pc' = [r \in Requests |-> IF pc[r] \in Calls THEN "unknown" ELSE pc[r]]
    /\ UNCHANGED <<funds, activo, indexed, doc, target, seedVars, unborn>>

----------------------------------------------------------------------------
(* POST /admin/funds.                                                      *)

Create(r) ==
    /\ up /\ pc[r] = "idle"
    /\ \E i \in Ids, n \in Names :
         doc' = [doc EXCEPT ![r] = [id |-> i, nombre |-> n, by |-> r]]
    /\ Goto(r, "find_conflict")
    /\ UNCHANGED <<funds, activo, indexed, up, target, seedVars, unborn>>

(* find_one with $or returns any document that matches.                    *)
FindConflict(r) ==
    /\ pc[r] = "find_conflict"
    /\ LET found == {e \in funds : e.id = doc[r].id \/ e.nombre = doc[r].nombre}
       IN  \/ found = {} /\ Goto(r, "insert_one")
           \/ \E e \in found :
                Goto(r, IF e.id = doc[r].id THEN "id" ELSE "nombre")
    /\ UNCHANGED <<funds, activo, indexed, up, doc, target, seedVars, unborn>>

(* The unique indexes that refuse d: _id always, nombre once it is built.  *)
Violated(d) ==
    {k \in {"id", "nombre"} :
        (k = "id" \/ indexed) /\ \E e \in funds : e[k] = d[k]}

InsertOne(r) ==
    /\ pc[r] = "insert_one"
    /\ Violated(doc[r]) = {}
    /\ funds' = funds \cup {doc[r]}
    /\ activo' = activo \cup {doc[r].id}
    /\ Goto(r, "created") \/ Goto(r, "unknown")
    /\ UNCHANGED <<indexed, up, doc, target, seedVars, unborn>>

(* keyPattern of the DuplicateKeyError names an index that fired.          *)
Duplicate(r) ==
    /\ pc[r] = "insert_one"
    /\ \E k \in Violated(doc[r]) : Goto(r, k)
    /\ UNCHANGED <<funds, activo, indexed, up, doc, target, seedVars, unborn>>

----------------------------------------------------------------------------
(* DELETE /admin/funds/{fund_id}.                                          *)

Delete(r) ==
    /\ up /\ pc[r] = "idle"
    /\ \E i \in Ids : target' = [target EXCEPT ![r] = i]
    /\ Goto(r, "update")
    /\ UNCHANGED <<funds, activo, indexed, up, doc, seedVars, unborn>>

Exists(i) == \E e \in funds : e.id = i

BugUpdateUnconditional(r) ==
    /\ pc[r] = "update"
    /\ activo' = activo \ {target[r]}
    /\ Goto(r, IF Exists(target[r]) THEN "deactivated" ELSE "find_one")
    /\ unborn' = IF Exists(target[r]) THEN unborn ELSE unborn \cup {r}
    /\ UNCHANGED <<funds, indexed, up, doc, target, seedVars>>

(* find_one_and_update with the matcher {_id, activo: true}.               *)
Update(r) ==
    /\ pc[r] = "update"
    /\ \/ /\ target[r] \in activo
          /\ activo' = activo \ {target[r]}
          /\ Goto(r, "deactivated") \/ Goto(r, "unknown")
          /\ UNCHANGED unborn
       \/ /\ target[r] \notin activo
          /\ Goto(r, "find_one")
          /\ unborn' = IF Exists(target[r]) THEN unborn ELSE unborn \cup {r}
          /\ UNCHANGED activo
    /\ UNCHANGED <<funds, indexed, up, doc, target, seedVars>>

(* The second read, which tells the two refusals apart.                    *)
FindOne(r) ==
    /\ pc[r] = "find_one"
    /\ Goto(r, IF Exists(target[r]) THEN "inactive" ELSE "not_found")
    /\ UNCHANGED <<funds, activo, indexed, up, doc, target, seedVars, unborn>>

----------------------------------------------------------------------------
(* migrations/seed_funds.py.                                               *)

SeedStart ==
    /\ todo = {} /\ seeds < MaxSeeds
    /\ seeds' = seeds + 1
    /\ indexed' = TRUE
    /\ todo' = Mandatory
    /\ UNCHANGED <<funds, activo, up, pc, doc, target, upserted, unborn>>

BugSetOnMatch ==
    \E d \in todo :
        /\ \A e \in todo : d.id <= e.id
        /\ funds' = IF Exists(d.id) THEN funds ELSE funds \cup {d}
        /\ activo' = activo \cup {d.id}
        /\ upserted' = [upserted EXCEPT ![d] = IF Exists(d.id) THEN "id" ELSE "created"]
        /\ todo' = todo \ {d}
        /\ UNCHANGED <<indexed, up, pc, doc, target, seeds, unborn>>

(* update_one({_id}, {$setOnInsert}, upsert=True), in the order of the     *)
(* list; a name taken under another id raises and ends the script.         *)
SeedUpsert ==
    \E d \in todo :
        /\ \A e \in todo : d.id <= e.id
        /\ \/ /\ Exists(d.id)
              /\ upserted' = [upserted EXCEPT ![d] = "id"]
              /\ todo' = todo \ {d}
              /\ UNCHANGED <<funds, activo>>
           \/ /\ Violated(d) = {}
              /\ funds' = funds \cup {d}
              /\ activo' = activo \cup {d.id}
              /\ upserted' = [upserted EXCEPT ![d] = "created"]
              /\ todo' = todo \ {d}
           \/ /\ Violated(d) = {"nombre"}
              /\ upserted' = [upserted EXCEPT ![d] = "nombre"]
              /\ todo' = {}
              /\ UNCHANGED <<funds, activo>>
        /\ UNCHANGED <<indexed, up, pc, doc, target, seeds, unborn>>

SeedDies ==
    /\ todo # {}
    /\ todo' = {}
    /\ UNCHANGED <<funds, activo, indexed, up, pc, doc, target, seeds, upserted, unborn>>

----------------------------------------------------------------------------
Next ==
    \/ Startup \/ Crash \/ SeedStart \/ SeedUpsert \/ SeedDies
    \/ \E r \in Requests :
         \/ Create(r) \/ FindConflict(r) \/ InsertOne(r) \/ Duplicate(r)
         \/ Delete(r) \/ Update(r) \/ FindOne(r)

Spec == Init /\ [][Next]_vars

----------------------------------------------------------------------------
(* The shapes of the variables; activo only holds ids of stored funds.     *)
TypeOK ==
    /\ funds \subseteq Docs
    /\ activo \subseteq {d.id : d \in funds}
    /\ indexed \in BOOLEAN /\ up \in BOOLEAN
    /\ pc \in [Requests -> {"idle"} \cup Calls \cup Answers]
    /\ doc \in [Requests -> Docs \cup {None}]
    /\ target \in [Requests -> Ids \cup {None}]
    /\ todo \subseteq Mandatory /\ seeds \in 0..MaxSeeds
    /\ upserted \in [Mandatory -> {None, "created", "id", "nombre"}]
    /\ unborn \subseteq Requests

Deleting(i) == {r \in Requests : target[r] = i}

(* soft_delete_fund's docstring: of concurrent deletes only the first      *)
(* transition from active to inactive wins.  A fund is inactive only if    *)
(* one delete was told so, or one never learnt its fate; and an answer     *)
(* "already inactive" is wrong only when the fund was created between the  *)
(* delete's two calls (unborn), a case the docstring does not allow for.   *)
DeleteAnswersTrue ==
    \A d \in funds :
        LET winners == {r \in Deleting(d.id) : pc[r] = "deactivated"} IN
        /\ Cardinality(winners) <= 1
        /\ d.id \in activo => winners = {}
        /\ d.id \notin activo =>
             \E r \in Deleting(d.id) : pc[r] \in {"deactivated", "unknown"}
        /\ \A r \in Deleting(d.id) :
             pc[r] = "inactive" /\ d.id \in activo => r \in unborn

(* No step, the seed's least of all, drops or rewrites a stored fund or    *)
(* makes an inactive one active again: a rerun of the seed keeps what the  *)
(* administrators did.                                                     *)
StoredFundsKept ==
    [][ /\ funds \subseteq funds'
        /\ \A d \in funds : d.id \in activo' => d.id \in activo ]_vars

AnswerOf(r) ==
    IF pc[r] \in {"created", "id", "nombre", "unknown"} THEN pc[r] ELSE None

Asked == [c \in Requests \cup Mandatory |-> IF c \in Mandatory THEN c ELSE doc[c]]

Answered ==
    [c \in Requests \cup Mandatory |->
        IF c \in Mandatory THEN upserted[c] ELSE AnswerOf(c)]

Register == INSTANCE UniqueRegister WITH
    Callers <- Requests \cup Mandatory,
    Keys    <- {"id", "nombre"},
    stored  <- funds,
    asked   <- Asked,
    answer  <- Answered

(* Whatever creates, deletes, seed runs and crashes do, the collection is  *)
(* a register with the two unique keys _id and nombre.                     *)
ImplementsRegister == Register!Spec
=============================================================================
