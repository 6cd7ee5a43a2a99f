------------------------- MODULE FundCatalogueProofs --------------------------
(***************************************************************************)
(* Theorems about the funds collection, for any ids, names and seeded      *)
(* funds and any number of requests and runs of the seed.                  *)
(***************************************************************************)
EXTENDS FundCatalogue, FiniteSetTheorems, TLAPS

Creating == {"find_conflict", "insert_one"}
Created  == {"created", "id", "nombre"}
Removing == {"update", "find_one"}
Removed  == {"deactivated", "inactive", "not_found"}

(* What a request carries.                                                 *)
LabelsInv ==
    \A r \in Requests :
        /\ pc[r] = "idle" => doc[r] = None /\ target[r] = None
        /\ pc[r] \in Creating \cup Created => doc[r] \in Docs
        /\ pc[r] \in Removing \cup Removed => target[r] \in Ids

(* Whoever writes does so under the unique index on nombre.                *)
IndexInv ==
    /\ up => indexed
    /\ todo # {} => indexed
    /\ \A r \in Requests : pc[r] \in Calls => up

(* How the answers of deletes relate to the collection.                    *)
Gone(i) == Exists(i) /\ i \notin activo

DeletesInv ==
    /\ \A r \in Requests :
         /\ pc[r] = "deactivated" => Gone(target[r])
         /\ pc[r] \in {"find_one", "inactive"} => r \in unborn \/ Gone(target[r])
    /\ \A r, q \in Requests :
         pc[r] = "deactivated" /\ pc[q] = "deactivated" /\ target[r] = target[q]
           => r = q
    /\ \A d \in funds : d.id \notin activo =>
         \E r \in Requests : target[r] = d.id /\ pc[r] \in {"deactivated", "unknown"}

IInv == TypeOK /\ LabelsInv /\ IndexInv /\ DeletesInv

----------------------------------------------------------------------------
LEMMA DocFields ==
    ASSUME NEW d \in Docs PROVE d.id \in Ids /\ d.nombre \in Names /\ d # None
BY CatalogueAssumption DEF Docs

LEMMA InitIInv == Init => IInv
<1> SUFFICES ASSUME Init PROVE IInv
  OBVIOUS
<1> USE DEF Init
<1>1. TypeOK
  <2>1. 0 \in 0..MaxSeeds
    BY CatalogueAssumption
  <2> QED BY <2>1 DEF TypeOK
<1>2. LabelsInv /\ IndexInv
  BY CatalogueAssumption DEF LabelsInv, IndexInv, Creating, Created, Removing, Removed, Calls
<1>3. DeletesInv
  BY DEF DeletesInv
<1> QED BY <1>1, <1>2, <1>3 DEF IInv

(* Steps that read, answer or fall: the collection stays, no delete wins.  *)
LEMMA ReadStep ==
    ASSUME IInv, UNCHANGED <<funds, activo, doc, target, unborn>>,
           todo' \subseteq todo \/ indexed', indexed => indexed',
           up' \in BOOLEAN, indexed' \in BOOLEAN, todo' \subseteq Mandatory,
           seeds' \in 0..MaxSeeds,
           upserted' \in [Mandatory -> {None, "created", "id", "nombre"}],
           up' => indexed',
           pc' \in [Requests -> {"idle"} \cup Calls \cup Answers],
           \A r \in Requests :
             /\ pc'[r] \in Calls => up'
             /\ pc'[r] # pc[r] =>
                  \/ pc'[r] = "unknown"
                  \/ pc[r] \in Creating /\ pc'[r] \in {"insert_one", "id", "nombre"}
                  \/ /\ pc[r] = "find_one"
                     /\ pc'[r] = IF Exists(target[r]) THEN "inactive" ELSE "not_found"
    PROVE  IInv'
<1> USE DEF IInv, Creating, Created, Removing, Removed
<1>1. TypeOK'
  BY DEF TypeOK
<1>2. LabelsInv'
  BY DEF LabelsInv
<1>3. IndexInv'
  BY DEF IndexInv
<1>4. \A i \in Ids : Exists(i)' = Exists(i) /\ Gone(i)' = Gone(i)
  BY DEF Exists, Gone
<1>5. DeletesInv'
  BY DEF DeletesInv, Gone, Exists
<1> QED BY <1>1, <1>2, <1>3, <1>5

(* Steps that add a fund, by a request or by the seed.                     *)
LEMMA AddStep ==
    ASSUME IInv, NEW d \in Docs, ~Exists(d.id),
           funds' = funds \cup {d}, activo' = activo \cup {d.id},
           UNCHANGED <<indexed, up, doc, target, seeds, unborn>>,
           todo' \subseteq todo, upserted' \in [Mandatory -> {None, "created", "id", "nombre"}],
           pc' \in [Requests -> {"idle"} \cup Calls \cup Answers],
           \A r \in Requests : pc'[r] # pc[r] =>
             pc[r] = "insert_one" /\ pc'[r] \in {"created", "unknown"}
    PROVE  IInv'
<1> USE DocFields DEF IInv, Creating, Created, Removing, Removed
<1>1. TypeOK'
  BY DEF TypeOK
<1>2. LabelsInv' /\ IndexInv'
  BY DEF LabelsInv, IndexInv, Calls
<1>3. \A i \in Ids : Gone(i) => Gone(i)'
  BY DEF Gone, Exists
<1>4. DeletesInv'
  <2>1. \A r \in Requests :
          /\ pc'[r] = "deactivated" => Gone(target[r])'
          /\ pc'[r] \in {"find_one", "inactive"} => r \in unborn' \/ Gone(target[r])'
    BY <1>3 DEF DeletesInv, LabelsInv
  <2>2. \A r, q \in Requests :
          pc'[r] = "deactivated" /\ pc'[q] = "deactivated" /\ target'[r] = target'[q]
            => r = q
    BY DEF DeletesInv
  <2>3. \A e \in funds' : e.id \notin activo' =>
          \E r \in Requests : target'[r] = e.id /\ pc'[r] \in {"deactivated", "unknown"}
    BY DEF DeletesInv
  <2> QED BY <2>1, <2>2, <2>3 DEF DeletesInv
<1> QED BY <1>1, <1>2, <1>4

LEMMA ProcessSteps == IInv /\ (Startup \/ Crash) => IInv'
<1> USE DEF IInv
<1>1. ASSUME IInv, Startup PROVE IInv'
  BY <1>1, ReadStep DEF Startup, seedVars, TypeOK, IndexInv
<1>2. ASSUME IInv, Crash PROVE IInv'
  <2>1. pc' \in [Requests -> {"idle"} \cup Calls \cup Answers]
    BY <1>2 DEF Crash, TypeOK, Answers
  <2>2. \A r \in Requests : pc'[r] \notin Calls /\ (pc'[r] # pc[r] => pc'[r] = "unknown")
    BY <1>2, <2>1 DEF Crash, TypeOK, Calls, Answers
  <2> QED BY <1>2, <2>1, <2>2, ReadStep DEF Crash, seedVars, TypeOK
<1> QED BY <1>1, <1>2

LEMMA CreateStep ==
    ASSUME IInv, NEW r \in Requests,
           Create(r) \/ FindConflict(r) \/ InsertOne(r) \/ Duplicate(r)
    PROVE  IInv'
<1> USE DEF IInv, Goto
<1>1. CASE Create(r)
  <2>1. TypeOK'
    BY <1>1 DEF Create, TypeOK, Docs, Calls, seedVars
  <2>2. LabelsInv' /\ IndexInv'
    BY <1>1, <2>1 DEF Create, LabelsInv, IndexInv, TypeOK, Creating, Created,
       Removing, Removed, Calls, Docs, seedVars
  <2>3. DeletesInv'
    BY <1>1 DEF Create, DeletesInv, TypeOK, Gone, Exists
  <2> QED BY <2>1, <2>2, <2>3
<1>2. CASE FindConflict(r)
  BY <1>2, ReadStep DEF FindConflict, TypeOK, IndexInv, Calls, Answers, Creating, seedVars
<1>3. CASE Duplicate(r)
  BY <1>3, ReadStep DEF Duplicate, Violated, TypeOK, IndexInv, Calls, Answers, Creating, seedVars
<1>4. CASE InsertOne(r)
  <2>1. doc[r] \in Docs /\ ~Exists(doc[r].id)
    BY <1>4 DEF InsertOne, Violated, Exists, LabelsInv, Creating, Created
  <2>2. /\ pc' \in [Requests -> {"idle"} \cup Calls \cup Answers]
        /\ \A q \in Requests : pc'[q] # pc[q] =>
             pc[q] = "insert_one" /\ pc'[q] \in {"created", "unknown"}
    BY <1>4 DEF InsertOne, TypeOK, Answers
  <2> QED BY <1>4, <2>1, <2>2, AddStep DEF InsertOne, TypeOK, seedVars
<1> QED BY <1>1, <1>2, <1>3, <1>4

LEMMA DeleteStep ==
    ASSUME IInv, NEW r \in Requests, Delete(r) \/ Update(r) \/ FindOne(r)
    PROVE  IInv'
<1> USE DEF IInv, Goto
<1>1. CASE Delete(r)
  <2>1. TypeOK'
    BY <1>1 DEF Delete, TypeOK, Calls, seedVars
  <2>2. LabelsInv' /\ IndexInv'
    BY <1>1, <2>1 DEF Delete, LabelsInv, IndexInv, TypeOK, Creating, Created,
       Removing, Removed, Calls, seedVars
  <2>3. DeletesInv'
    BY <1>1 DEF Delete, DeletesInv, LabelsInv, TypeOK, Gone, Exists, seedVars
  <2> QED BY <2>1, <2>2, <2>3
<1>2. CASE FindOne(r)
  BY <1>2, ReadStep DEF FindOne, TypeOK, IndexInv, Calls, Answers, seedVars
<1>3. CASE Update(r)
  <2> DEFINE i == target[r]
  <2>1. i \in Ids
    BY <1>3 DEF Update, LabelsInv, Removing, Removed
  <2>2. LabelsInv' /\ IndexInv'
    BY <1>3, <2>1 DEF Update, LabelsInv, IndexInv, TypeOK, Creating, Created,
       Removing, Removed, Calls, seedVars
  <2>3. CASE i \in activo
    <3>1. /\ activo' = activo \ {i} /\ UNCHANGED <<funds, target, unborn>>
          /\ pc' = [pc EXCEPT ![r] = pc'[r]] /\ pc'[r] \in {"deactivated", "unknown"}
      BY <1>3, <2>3 DEF Update, TypeOK
    <3>2. TypeOK'
      BY <1>3, <3>1 DEF Update, TypeOK, Answers, seedVars
    <3>3. Gone(i)' /\ \A j \in Ids : Gone(j) => Gone(j)'
      BY <2>1, <2>3, <3>1 DEF Gone, Exists, TypeOK
    <3>4. DeletesInv'
      <4>1. \A q \in Requests :
              /\ pc'[q] = "deactivated" => Gone(target[q])'
              /\ pc'[q] \in {"find_one", "inactive"} => q \in unborn' \/ Gone(target[q])'
        BY <3>1, <3>3 DEF DeletesInv, LabelsInv, TypeOK, Removing, Removed
      <4>2. \A p, q \in Requests :
              pc'[p] = "deactivated" /\ pc'[q] = "deactivated" /\ target'[p] = target'[q]
                => p = q
        BY <2>3, <3>1 DEF DeletesInv, Gone, TypeOK
      <4>3. \A e \in funds' : e.id \notin activo' =>
              \E q \in Requests : target'[q] = e.id /\ pc'[q] \in {"deactivated", "unknown"}
        BY <1>3, <3>1 DEF Update, DeletesInv, TypeOK
      <4> QED BY <4>1, <4>2, <4>3 DEF DeletesInv
    <3> QED BY <2>2, <3>2, <3>4
  <2>4. CASE i \notin activo
    <3>1. /\ pc' = [pc EXCEPT ![r] = "find_one"] /\ UNCHANGED <<funds, activo, target>>
          /\ unborn' = IF Exists(i) THEN unborn ELSE unborn \cup {r}
      BY <1>3, <2>4 DEF Update
    <3>2. TypeOK'
      BY <1>3, <3>1 DEF Update, TypeOK, Calls, seedVars
    <3>3. DeletesInv'
      BY <1>3, <2>4, <3>1 DEF Update, DeletesInv, Gone, Exists, TypeOK
    <3> QED BY <2>2, <3>2, <3>3
  <2> QED BY <2>3, <2>4
<1> QED BY <1>1, <1>2, <1>3

(* The three outcomes of an upsert.                                        *)
Kept(d)    == /\ Exists(d.id) /\ upserted' = [upserted EXCEPT ![d] = "id"]
              /\ todo' = todo \ {d} /\ UNCHANGED <<funds, activo>>
Seeded(d)  == /\ Violated(d) = {} /\ upserted' = [upserted EXCEPT ![d] = "created"]
              /\ funds' = funds \cup {d} /\ activo' = activo \cup {d.id}
              /\ todo' = todo \ {d}
Refused(d) == /\ Violated(d) = {"nombre"} /\ upserted' = [upserted EXCEPT ![d] = "nombre"]
              /\ todo' = {} /\ UNCHANGED <<funds, activo>>

LEMMA UpsertFacts ==
    ASSUME IInv, SeedUpsert
    PROVE  /\ indexed
           /\ UNCHANGED <<indexed, up, pc, doc, target, seeds, unborn>>
           /\ \E d \in Mandatory : d \in Docs /\ (Kept(d) \/ Seeded(d) \/ Refused(d))
BY CatalogueAssumption DEF SeedUpsert, IInv, TypeOK, IndexInv, Kept, Seeded, Refused

LEMMA SeedStep == IInv /\ (SeedStart \/ SeedUpsert \/ SeedDies) => IInv'
<1> USE DEF IInv
<1>1. ASSUME IInv, SeedStart PROVE IInv'
  <2>1. seeds' \in 0..MaxSeeds
    BY <1>1, CatalogueAssumption DEF SeedStart, TypeOK
  <2> QED BY <1>1, <2>1, ReadStep DEF SeedStart, TypeOK, IndexInv
<1>2. ASSUME IInv, SeedDies PROVE IInv'
  BY <1>2, ReadStep DEF SeedDies, TypeOK, IndexInv
<1>3. ASSUME IInv, SeedUpsert PROVE IInv'
  <2>1. PICK d \in Mandatory : d \in Docs /\ (Kept(d) \/ Seeded(d) \/ Refused(d))
    BY <1>3, UpsertFacts
  <2>2. indexed /\ UNCHANGED <<indexed, up, pc, doc, target, seeds, unborn>>
    BY <1>3, UpsertFacts
  <2>3. /\ upserted' \in [Mandatory -> {None, "created", "id", "nombre"}]
        /\ todo' \subseteq todo
    <3>1. \E a \in {"created", "id", "nombre"} : upserted' = [upserted EXCEPT ![d] = a]
      BY <2>1 DEF Kept, Seeded, Refused
    <3>2. todo' = todo \ {d} \/ todo' = {}
      BY <2>1 DEF Kept, Seeded, Refused
    <3> QED BY <1>3, <3>1, <3>2 DEF TypeOK
  <2>4. CASE Seeded(d)
    <3>1. ~Exists(d.id)
      BY <2>4 DEF Seeded, Violated, Exists
    <3> QED BY <1>3, <2>1, <2>2, <2>3, <2>4, <3>1, AddStep DEF TypeOK, Seeded
  <2>5. CASE Kept(d) \/ Refused(d)
    <3>1. UNCHANGED <<funds, activo>>
      BY <2>5 DEF Kept, Refused
    <3>2. todo' \subseteq Mandatory
      BY <1>3, <2>3 DEF TypeOK
    <3>3. \A r \in Requests : pc'[r] \in Calls => up'
      BY <1>3, <2>2 DEF IndexInv
    <3> QED BY <1>3, <2>2, <2>3, <3>1, <3>2, <3>3, ReadStep DEF TypeOK
  <2> QED BY <2>1, <2>4, <2>5
<1> QED BY <1>1, <1>2, <1>3

LEMMA NextIInv == IInv /\ [Next]_vars => IInv'
<1>1. ASSUME IInv, NEW r \in Requests,
             Create(r) \/ FindConflict(r) \/ InsertOne(r) \/ Duplicate(r)
               \/ Delete(r) \/ Update(r) \/ FindOne(r)
      PROVE  IInv'
  BY <1>1, CreateStep, DeleteStep
<1>2. ASSUME IInv, UNCHANGED vars PROVE IInv'
  BY <1>2 DEF vars, seedVars, IInv, TypeOK, LabelsInv, IndexInv, DeletesInv, Gone, Exists
<1> QED BY <1>1, <1>2, ProcessSteps, SeedStep DEF Next

LEMMA Invariance == Spec => []IInv
BY InitIInv, NextIInv, PTL DEF Spec

----------------------------------------------------------------------------
(* The variables of the collection keep the shapes the model gives them,   *)
(* and activo only names stored funds.                                     *)
THEOREM TypeCorrect == Spec => []TypeOK
BY Invariance, PTL DEF IInv

(* Of any number of concurrent deletes of a fund at most one is told that  *)
(* it deactivated it; the others' answers agree with the collection.       *)
THEOREM DeletesAnswerTruly == Spec => []DeleteAnswersTrue
<1>1. IInv => DeleteAnswersTrue
  <2> SUFFICES ASSUME IInv, NEW d \in funds
               PROVE  LET winners == {r \in Deleting(d.id) : pc[r] = "deactivated"} IN
                      /\ Cardinality(winners) <= 1
                      /\ d.id \in activo => winners = {}
                      /\ d.id \notin activo =>
                           \E r \in Deleting(d.id) : pc[r] \in {"deactivated", "unknown"}
                      /\ \A r \in Deleting(d.id) :
                           pc[r] = "inactive" /\ d.id \in activo => r \in unborn
    BY DEF DeleteAnswersTrue
  <2> DEFINE winners == {r \in Deleting(d.id) : pc[r] = "deactivated"}
  <2> USE DEF IInv, DeletesInv, Deleting
  <2>1. Cardinality(winners) <= 1
    <3>1. CASE winners = {}
      BY <3>1, FS_EmptySet
    <3>2. CASE winners # {}
      <4>1. PICK r \in winners : TRUE
        BY <3>2
      <4>2. winners = {r}
        BY <4>1
      <4> QED BY <4>2, FS_Singleton
    <3> QED BY <3>1, <3>2
  <2>2. d.id \in activo => winners = {}
    BY DEF Gone
  <2>3. d.id \notin activo =>
          \E r \in Deleting(d.id) : pc[r] \in {"deactivated", "unknown"}
    OBVIOUS
  <2>4. \A r \in Deleting(d.id) :
          pc[r] = "inactive" /\ d.id \in activo => r \in unborn
    BY DEF Gone
  <2> QED BY <2>1, <2>2, <2>3, <2>4
<1> QED BY <1>1, Invariance, PTL

(* No step drops a fund, rewrites one or makes an inactive one active.     *)
THEOREM SeedKeepsFunds == Spec => StoredFundsKept
<1> DEFINE Keeps == /\ funds \subseteq funds'
                    /\ \A d \in funds : d.id \in activo' => d.id \in activo
<1>1. IInv /\ [Next]_vars => [Keeps]_vars
  <2> SUFFICES ASSUME IInv, Next PROVE Keeps
    OBVIOUS
  <2>1. CASE SeedUpsert
    <3>1. PICK d \in Mandatory : d \in Docs /\ (Kept(d) \/ Seeded(d) \/ Refused(d))
      BY <2>1, UpsertFacts
    <3> QED BY <3>1 DEF Kept, Seeded, Refused, Violated
  <2>2. ASSUME NEW r \in Requests, InsertOne(r) PROVE Keeps
    BY <2>2 DEF InsertOne, Violated
  <2>3. ASSUME NEW r \in Requests, Update(r) PROVE Keeps
    BY <2>3 DEF Update
  <2>4. CASE UNCHANGED <<funds, activo>>
    BY <2>4
  <2> QED BY <2>1, <2>2, <2>3, <2>4
       DEF Next, Startup, Crash, SeedStart, SeedDies, Create, FindConflict,
           Duplicate, Delete, FindOne
<1> QED BY <1>1, Invariance, PTL DEF Spec, StoredFundsKept

----------------------------------------------------------------------------
(* The register.                                                           *)

Told == {"created", "id", "nombre", "unknown"}

LEMMA SoleAnswer ==
    ASSUME IInv, NEW r \in Requests, NEW a, pc' = [pc EXCEPT ![r] = a],
           UNCHANGED upserted
    PROVE  Answered' = [Answered EXCEPT ![r] = IF a \in Told THEN a ELSE None]
BY CatalogueAssumption DEF Answered, AnswerOf, IInv, TypeOK, Told

LEMMA NoAnswer ==
    ASSUME IInv, NEW r \in Requests, NEW a, pc' = [pc EXCEPT ![r] = a],
           UNCHANGED upserted, pc[r] \notin Told, a \notin Told
    PROVE  UNCHANGED Answered
BY CatalogueAssumption DEF Answered, AnswerOf, IInv, TypeOK, Told

LEMMA AskedStays ==
    UNCHANGED doc => UNCHANGED Asked
BY DEF Asked

(* A document that violates no index fits in the register, under indexes.  *)
LEMMA NoneViolatedFits ==
    ASSUME NEW d, Violated(d) = {}, indexed
    PROVE  Register!Fits(d)
BY DEF Violated, Register!Fits, Register!Clash

LEMMA CreationRefines ==
    ASSUME IInv, NEW r \in Requests,
           Create(r) \/ FindConflict(r) \/ InsertOne(r) \/ Duplicate(r)
    PROVE  [Register!Next]_(Register!vars)
<1> USE CatalogueAssumption DEF IInv, Goto, Register!vars
<1>1. CASE Create(r)
  <2>1. UNCHANGED Answered
    BY <1>1, NoAnswer DEF Create, Told, seedVars
  <2>2. Asked[r] = None /\ \E d \in Docs : Asked' = [Asked EXCEPT ![r] = d]
    <3>1. doc[r] = None /\ r \notin Mandatory
      BY <1>1 DEF Create, LabelsInv
    <3>2. PICK d \in Docs : doc' = [doc EXCEPT ![r] = d]
      BY <1>1 DEF Create, Docs
    <3>3. Asked' = [Asked EXCEPT ![r] = d]
      BY <3>1, <3>2 DEF Asked, TypeOK
    <3> QED BY <3>1, <3>3 DEF Asked
  <2>3. Register!Ask(r)
    BY <1>1, <2>1, <2>2 DEF Create, Register!Ask
  <2> QED BY <2>3 DEF Register!Next
<1>2. ASSUME FindConflict(r) \/ InsertOne(r) \/ Duplicate(r)
      PROVE  /\ doc[r] \in Docs /\ Asked[r] = doc[r] /\ Asked[r] # None
             /\ indexed /\ UNCHANGED Asked
  BY <1>2, AskedStays, DocFields
     DEF FindConflict, InsertOne, Duplicate, LabelsInv, IndexInv, Calls, Asked, Creating, Created
<1>3. CASE FindConflict(r)
  <2>1. CASE pc' = [pc EXCEPT ![r] = "insert_one"]
    BY <1>2, <1>3, <2>1, NoAnswer DEF FindConflict, Told, seedVars
  <2>2. ASSUME NEW k \in {"id", "nombre"}, NEW e \in funds, e[k] = doc[r][k],
               pc' = [pc EXCEPT ![r] = k]
        PROVE  Register!Refuse(r)
    <3>1. Answered' = [Answered EXCEPT ![r] = k]
      BY <1>3, <2>2, SoleAnswer DEF FindConflict, Told, seedVars
    <3> QED BY <1>2, <1>3, <2>2, <3>1 DEF FindConflict, Register!Refuse, Register!Told
  <2> QED BY <1>3, <2>1, <2>2 DEF FindConflict, Register!Next
<1>4. CASE Duplicate(r)
  <2>1. PICK k \in Violated(doc[r]) : pc' = [pc EXCEPT ![r] = k]
    BY <1>4 DEF Duplicate
  <2>2. k \in {"id", "nombre"} /\ \E e \in funds : e[k] = doc[r][k]
    BY <2>1 DEF Violated
  <2>3. Answered' = [Answered EXCEPT ![r] = k]
    BY <1>4, <2>1, <2>2, SoleAnswer DEF Duplicate, Told, seedVars
  <2>4. Register!Refuse(r)
    BY <1>2, <1>4, <2>2, <2>3 DEF Duplicate, Register!Refuse, Register!Told
  <2> QED BY <2>4 DEF Register!Next
<1>5. CASE InsertOne(r)
  <2>1. PICK a \in {"created", "unknown"} : pc' = [pc EXCEPT ![r] = a]
    BY <1>5 DEF InsertOne
  <2>2. Answered' = [Answered EXCEPT ![r] = a]
    BY <1>5, <2>1, SoleAnswer DEF InsertOne, Told, seedVars
  <2>3. Register!Fits(doc[r])
    BY <1>2, <1>5, NoneViolatedFits DEF InsertOne
  <2>4. Register!Add(r)
    BY <1>2, <1>5, <2>1, <2>2, <2>3 DEF InsertOne, Register!Add, Register!Told
  <2> QED BY <2>4 DEF Register!Next
<1> QED BY <1>1, <1>3, <1>4, <1>5

LEMMA DeletionRefines ==
    ASSUME IInv, NEW r \in Requests, Delete(r) \/ Update(r) \/ FindOne(r)
    PROVE  [Register!Next]_(Register!vars)
<1> USE CatalogueAssumption DEF IInv, Goto, Register!vars
<1>1. UNCHANGED <<funds, doc, upserted>> /\ UNCHANGED Asked
  BY AskedStays DEF Delete, Update, FindOne, seedVars
<1>2. ASSUME NEW a \in {"update", "find_one", "deactivated", "inactive", "not_found"},
             pc' = [pc EXCEPT ![r] = a]
      PROVE  UNCHANGED Register!vars
  <2>1. pc[r] \notin Told
    BY DEF Delete, Update, FindOne, Told
  <2> QED BY <1>1, <1>2, <2>1, NoAnswer DEF Told
<1>3. ASSUME pc' = [pc EXCEPT ![r] = "unknown"] PROVE Register!Abandon({r})
  <2>1. Answered' = [Answered EXCEPT ![r] = "unknown"]
    BY <1>1, <1>3, SoleAnswer DEF Told
  <2>2. Answered' = [c \in Requests \cup Mandatory |->
                       IF c \in {r} THEN "unknown" ELSE Answered[c]]
    BY <2>1 DEF Answered
  <2> QED BY <1>1, <2>2 DEF Register!Abandon
<1>4. \/ \E a \in {"update", "find_one", "deactivated", "inactive", "not_found"} :
             pc' = [pc EXCEPT ![r] = a]
      \/ pc' = [pc EXCEPT ![r] = "unknown"]
  BY DEF Delete, Update, FindOne
<1> QED BY <1>2, <1>3, <1>4 DEF Register!Next

LEMMA ProcessRefines ==
    ASSUME IInv, Startup \/ Crash \/ SeedStart \/ SeedDies
    PROVE  [Register!Next]_(Register!vars)
<1> USE CatalogueAssumption DEF IInv, Register!vars
<1>1. UNCHANGED <<funds, doc, upserted>> /\ UNCHANGED Asked
  BY AskedStays DEF Startup, Crash, SeedStart, SeedDies, seedVars
<1>2. CASE UNCHANGED pc
  BY <1>1, <1>2 DEF Answered, AnswerOf
<1>3. CASE Crash
  <2> DEFINE lost == {r \in Requests : pc[r] \in Calls}
  <2>1. Answered' = [c \in Requests \cup Mandatory |->
                       IF c \in lost THEN "unknown" ELSE Answered[c]]
    BY <1>1, <1>3 DEF Crash, Answered, AnswerOf
  <2>2. Register!Abandon(lost)
    BY <1>1, <2>1 DEF Register!Abandon
  <2>3. lost \in SUBSET (Requests \cup Mandatory)
    OBVIOUS
  <2> QED BY <2>2, <2>3 DEF Register!Next
<1> QED BY <1>2, <1>3 DEF Startup, SeedStart, SeedDies

LEMMA UpsertRefines ==
    ASSUME IInv, SeedUpsert
    PROVE  [Register!Next]_(Register!vars)
<1> USE CatalogueAssumption DEF IInv, Register!vars
<1>1. PICK d \in Mandatory : d \in Docs /\ (Kept(d) \/ Seeded(d) \/ Refused(d))
  BY UpsertFacts
<1>2. indexed /\ UNCHANGED <<pc, doc>> /\ UNCHANGED Asked
  BY UpsertFacts, AskedStays
<1>3. Asked[d] = d /\ d # None
  BY <1>1 DEF Asked
<1>4. ASSUME NEW a, upserted' = [upserted EXCEPT ![d] = a]
      PROVE  Answered' = [Answered EXCEPT ![d] = a]
  BY <1>2, <1>4 DEF Answered, AnswerOf, TypeOK
<1>5. CASE Kept(d)
  <2>1. Register!Refuse(d)
    BY <1>2, <1>3, <1>4, <1>5 DEF Kept, Exists, Register!Refuse, Register!Told
  <2> QED BY <2>1 DEF Register!Next
<1>6. CASE Refused(d)
  <2>1. "nombre" \in Violated(d)
    BY <1>6 DEF Refused
  <2>2. Register!Refuse(d)
    BY <1>2, <1>3, <1>4, <1>6, <2>1 DEF Refused, Violated, Register!Refuse, Register!Told
  <2> QED BY <2>2 DEF Register!Next
<1>7. CASE Seeded(d)
  <2>1. Register!Fits(d)
    BY <1>2, <1>7, NoneViolatedFits DEF Seeded
  <2>2. Register!Add(d)
    BY <1>2, <1>3, <1>4, <1>7, <2>1 DEF Seeded, Register!Add, Register!Told
  <2> QED BY <2>2 DEF Register!Next
<1> QED BY <1>1, <1>5, <1>6, <1>7

(* Creates, deletes, runs of the seed and crashes together implement a     *)
(* register with the two unique keys _id and nombre.                       *)
THEOREM FundsAreARegister == Spec => ImplementsRegister
<1>1. Init => Register!Init
  <2> SUFFICES ASSUME Init PROVE Register!Init
    OBVIOUS
  <2>1. Asked \in [Requests \cup Mandatory -> Docs \cup {None}]
    BY CatalogueAssumption DEF Init, Asked
  <2>2. Answered = [c \in Requests \cup Mandatory |-> None]
    BY DEF Init, Answered, AnswerOf
  <2> QED BY <2>1, <2>2 DEF Init, Register!Init
<1>2. IInv /\ [Next]_vars => [Register!Next]_(Register!vars)
  <2>1. ASSUME IInv, NEW r \in Requests,
               Create(r) \/ FindConflict(r) \/ InsertOne(r) \/ Duplicate(r)
                 \/ Delete(r) \/ Update(r) \/ FindOne(r)
        PROVE  [Register!Next]_(Register!vars)
    BY <2>1, CreationRefines, DeletionRefines
  <2>2. ASSUME UNCHANGED vars PROVE UNCHANGED Register!vars
    BY <2>2 DEF vars, seedVars, Register!vars, Asked, Answered, AnswerOf
  <2> QED BY <2>1, <2>2, ProcessRefines, UpsertRefines DEF Next
<1> QED BY <1>1, <1>2, Invariance, PTL DEF Spec, ImplementsRegister, Register!Spec
=============================================================================
