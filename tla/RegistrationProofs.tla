-------------------------- MODULE RegistrationProofs --------------------------
(***************************************************************************)
(* Theorems about registration on a process that restarts, for any         *)
(* visitors, addresses, numbers and environments, and any number of        *)
(* submissions and faults.                                                 *)
(***************************************************************************)
EXTENDS Registration, TLAPS

(* The two unique indexes exist once the lifespan is past them.            *)
IndexInv ==
    /\ stage \notin {"down", "ping", "uniq_email"} => "uniq_email" \in built
    /\ stage \notin {"down", "ping", "uniq_email", "uniq_phone"} =>
           "uniq_phone" \in built

(* What the probes made so far reported has a state of AWS to show for it; *)
(* a validation that raised has reported nothing.                          *)
VerdictInv ==
    env.provider = "aws" /\ (stage = "serving" => verdicts # {}) =>
        /\ "warning" \in verdicts => \E s \in seen : s.authorised /\ s.sandbox
        /\ "error" \in verdicts => \E s \in seen : ~s.authorised \/ ~s.verified
        /\ stage \in {"sns.attributes", "sns.sandbox", "serving"} =>
             \/ "error" \in verdicts
             \/ \E s \in seen : s.authorised /\ s.verified
        /\ stage = "serving" =>
             \/ "error" \in verdicts \/ "warning" \in verdicts
             \/ \E s \in seen : s.authorised /\ ~s.sandbox

BootInv == BootTypeOK /\ IndexInv /\ VerdictInv

(* What the labels say of a request, and of its document.                  *)
RequestsInv ==
    \A r \in Requests :
        /\ r[2] > tries[r[1]] => pc[r] = "idle"
        /\ pc[r] = "idle" => doc[r] = None
        /\ pc[r] \in Calls => doc[r] \in Documents /\ Serving
        /\ pc[r] = "created" => doc[r] \in users

UniqueInv ==
    \A d, e \in users : d.email = e.email \/ d.phone = e.phone => d = e

HomeInv ==
    \A v \in Visitors :
        /\ page[v] # "form" => <<v, tries[v]>> \in Requests
        /\ page[v] = "home" => pc[<<v, tries[v]>>] = "created"

RegInv == RequestsInv /\ UniqueInv /\ HomeInv

IInv == TypeOK /\ BootInv /\ RegInv

----------------------------------------------------------------------------
(* The lifespan.                                                           *)

LEMMA FirstStages ==
    /\ Following("down") = "ping"
    /\ Following("ping") = "uniq_email"
    /\ Following("uniq_email") = "uniq_phone"
<1>1. Following("down") = "ping"
  BY DEF Following, Lifespan
<1>2. Following("ping") = "uniq_email"
  BY DEF Following, Lifespan
<1>3. Following("uniq_email") = "uniq_phone"
  BY DEF Following, Lifespan
<1> QED BY <1>1, <1>2, <1>3

LEMMA LastStages ==
    /\ Following("ses.credentials") = "ses.from_email"
    /\ Following("ses.from_email") = "sns.attributes"
    /\ Following("sns.attributes") = "sns.sandbox"
    /\ Following("sns.sandbox") = "serving"
<1>1. Following("ses.credentials") = "ses.from_email"
  BY DEF Following, Lifespan
<1>2. Following("ses.from_email") = "sns.attributes"
  BY DEF Following, Lifespan
<1>3. Following("sns.attributes") = "sns.sandbox"
  BY DEF Following, Lifespan
<1>4. Following("sns.sandbox") = "serving"
  BY DEF Following, Lifespan
<1> QED BY <1>1, <1>2, <1>3, <1>4

LEMMA IndexStages ==
    /\ Indexes = {"uniq_email", "uniq_phone", "uniq_jti", "uniq_nombre", "by_activo",
                  "uniq_user_fund", "by_user_recent", "by_user_timestamp", "by_type"}
    /\ \A s \in Indexes : Following(s) \in Indexes \cup {"ses.credentials"}
<1>1. Indexes = {"uniq_email", "uniq_phone", "uniq_jti", "uniq_nombre", "by_activo",
                 "uniq_user_fund", "by_user_recent", "by_user_timestamp", "by_type"}
  BY DEF Indexes, Lifespan
<1>2. ASSUME NEW s \in Indexes
      PROVE  Following(s) \in Indexes \cup {"ses.credentials"}
  <2> DEFINE At(i) == Lifespan[i] = s
             k == CHOOSE i \in 1..15 : At(i)
  <2>1. PICK i \in 3..11 : At(i)
    BY DEF Indexes
  <2>2. k \in 1..15 /\ At(k)
    <3> HIDE DEF At
    <3> QED BY <2>1
  <2>3. Following(s) = Lifespan[1 + k]
    BY DEF Following
  <2> HIDE DEF k
  <2>4. k \in 3..11
    BY <1>1, <2>2 DEF Lifespan
  <2>5. 1 + k \in 3..11 \/ 1 + k = 12
    BY <2>4
  <2> QED BY <2>3, <2>5 DEF Indexes, Lifespan
<1> QED BY <1>1, <1>2

LEMMA StageSets ==
    /\ Probes = {"ses.credentials", "ses.from_email", "sns.attributes", "sns.sandbox"}
    /\ Stages = {"down", "ping", "serving"} \cup Indexes \cup Probes
<1>1. Probes = {"ses.credentials", "ses.from_email", "sns.attributes", "sns.sandbox"}
  BY DEF Probes, Lifespan
<1>2. Stages = {"down", "ping", "serving"} \cup Indexes \cup Probes
  BY <1>1, IndexStages DEF Stages, Lifespan
<1> QED BY <1>1, <1>2

(* The next stage of a process on its way up.                              *)
LEMMA FollowingType ==
    ASSUME NEW s \in Stages, s # "serving"
    PROVE  Following(s) \in Stages
BY FirstStages, LastStages, IndexStages, StageSets

LEMMA BootStepInv ==
    ASSUME BootInv, BootStep
    PROVE  BootInv' /\ (Serving => Serving')
<1> USE DEF BootInv
<1>1. CASE Launch
  <2>1. /\ stage = "down" /\ stage' = "ping"
        /\ UNCHANGED <<env, aws, built, faults>> /\ verdicts' = {} /\ seen' = {}
    BY <1>1, FirstStages DEF Launch
  <2> QED BY <2>1, StageSets DEF BootTypeOK, IndexInv, VerdictInv, Serving
<1>2. CASE Ping
  <2>1. /\ stage = "ping" /\ stage' = "uniq_email"
        /\ UNCHANGED <<env, aws, built, verdicts, seen, faults>>
    BY <1>2, FirstStages DEF Ping
  <2>2. "uniq_email" \in Stages
    BY StageSets, IndexStages
  <2> QED BY <2>1, <2>2 DEF BootTypeOK, IndexInv, VerdictInv, Serving
<1>3. CASE EnsureIndex
  <2>1. /\ stage \in Indexes /\ stage' = Following(stage)
        /\ stage' \in Indexes \cup {"ses.credentials"}
        /\ built' = built \cup {stage}
        /\ UNCHANGED <<env, aws, verdicts, seen, faults>>
    BY <1>3, IndexStages DEF EnsureIndex
  <2>2. stage' \in Stages
    BY <2>1, StageSets
  <2>3. /\ stage # "serving" /\ stage \notin {"down", "ping"}
        /\ stage' \notin {"sns.attributes", "sns.sandbox", "serving"}
        /\ stage = "uniq_email" => stage' = "uniq_phone"
    BY <2>1, IndexStages, FirstStages
  <2> QED BY <2>1, <2>2, <2>3 DEF BootTypeOK, IndexInv, VerdictInv, Serving
<1>4. CASE Probe
  <2>1. stage \in Probes /\ UNCHANGED <<env, aws, built, faults>>
    BY <1>4 DEF Probe
  <2>2. stage \notin {"down", "ping", "uniq_email", "uniq_phone", "serving"}
    BY <2>1, StageSets
  <2>3. CASE env.provider = "aws"
    <3>1. /\ stage' = Following(stage)
          /\ verdicts' = verdicts \cup {Status(stage)}
          /\ seen' = seen \cup {aws}
      BY <1>4, <2>3 DEF Probe
    <3>2. stage' \in Probes \cup {"serving"}
      BY <2>1, <3>1, LastStages, StageSets
    <3>3. BootTypeOK' /\ IndexInv'
      BY <2>1, <2>2, <3>1, <3>2, StageSets DEF BootTypeOK, IndexInv, Status
    <3>4. /\ Status(stage) = "warning" => aws.authorised /\ aws.sandbox
          /\ Status(stage) = "error" => ~aws.authorised \/ ~aws.verified
          /\ stage = "ses.from_email" =>
               Status(stage) = "error" \/ (aws.authorised /\ aws.verified)
          /\ stage = "sns.sandbox" =>
               Status(stage) \in {"error", "warning"} \/ (aws.authorised /\ ~aws.sandbox)
      BY DEF Status
    <3>5. /\ stage' \in {"sns.attributes", "sns.sandbox", "serving"} =>
               stage = "ses.from_email" \/ stage \in {"sns.attributes", "sns.sandbox"}
          /\ stage' = "serving" => stage = "sns.sandbox"
      BY <2>1, <3>1, LastStages, StageSets
    <3>6. VerdictInv'
      BY <2>1, <3>1, <3>4, <3>5 DEF VerdictInv
    <3> QED BY <2>2, <3>3, <3>6 DEF Serving
  <2>4. CASE env.provider # "aws"
    <3>1. stage' = "serving" /\ verdicts' = {"ok"} /\ UNCHANGED seen
      BY <1>4, <2>4 DEF Probe
    <3> QED BY <2>1, <2>2, <2>4, <3>1, StageSets DEF BootTypeOK, IndexInv, VerdictInv, Serving
  <2> QED BY <2>3, <2>4
<1>5. CASE ValidationRaises
  <2>1. /\ stage \in Probes /\ UNCHANGED <<env, aws, built, faults>>
        /\ stage' = "serving" /\ verdicts' = {} /\ seen' = {}
    BY <1>5 DEF ValidationRaises
  <2> QED BY <2>1, StageSets DEF BootTypeOK, IndexInv, VerdictInv, Serving
<1> QED BY <1>1, <1>2, <1>3, <1>4, <1>5 DEF BootStep

LEMMA FallInv ==
    ASSUME BootInv, Fall
    PROVE  BootInv'
<1>1. faults' \in 0..MaxFaults
  BY BootAssumption DEF BootInv, BootTypeOK, Fall
<1>2. BootTypeOK'
  BY <1>1, StageSets DEF BootInv, BootTypeOK, Fall
<1> QED BY <1>2 DEF BootInv, IndexInv, VerdictInv, Fall

LEMMA AwsChangesInv ==
    ASSUME BootInv, AwsChanges
    PROVE  BootInv' /\ UNCHANGED <<stage, built>>
<1>1. BootTypeOK' /\ IndexInv' /\ UNCHANGED <<stage, built>>
  BY DEF BootInv, BootTypeOK, IndexInv, AwsChanges
<1>2. VerdictInv'
  BY DEF BootInv, VerdictInv, AwsChanges
<1> QED BY <1>1, <1>2 DEF BootInv

----------------------------------------------------------------------------
(* Requests and forms.                                                     *)

LEMMA InitIInv == Init => IInv
<1> SUFFICES ASSUME Init PROVE IInv
  OBVIOUS
<1> USE DEF Init, BootInit, RegInit
<1>1. BootInv
  <2>1. 0 \in 0..MaxFaults
    BY BootAssumption
  <2> QED BY <2>1, StageSets DEF BootInv, BootTypeOK, IndexInv, VerdictInv
<1>2. TypeOK
  <2>1. 0 \in 0..MaxTries
    BY RegistrationAssumption
  <2> QED BY <1>1, <2>1 DEF TypeOK, BootInv, Calls
<1>3. RegInv
  BY DEF RegInv, RequestsInv, UniqueInv, HomeInv, Calls
<1> QED BY <1>1, <1>2, <1>3 DEF IInv

(* The process changes by itself, or not at all, and does not fall.        *)
LEMMA BootOnly ==
    ASSUME IInv, BootInv', Serving => Serving', UNCHANGED regVars
    PROVE  IInv'
<1>1. TypeOK'
  BY DEF IInv, TypeOK, BootInv, regVars
<1>2. RegInv'
  BY DEF IInv, RegInv, RequestsInv, UniqueInv, HomeInv, regVars
<1> QED BY <1>1, <1>2 DEF IInv

LEMMA FallStep ==
    ASSUME IInv, Fall, Dropped
    PROVE  IInv'
<1> USE DEF IInv
<1>1. BootInv'
  BY FallInv
<1>2. /\ pc' \in [Requests -> {"idle"} \cup Calls \cup Answers]
      /\ \A r \in Requests : pc'[r] \notin Calls
      /\ \A r \in Requests : pc'[r] = pc[r] \/ (pc[r] \in Calls /\ pc'[r] = "unknown")
      /\ UNCHANGED <<users, doc, tries, page>>
  BY DEF Dropped, TypeOK, Calls, Answers
<1>3. TypeOK'
  BY <1>1, <1>2 DEF TypeOK, BootInv
<1>4. RequestsInv' /\ UniqueInv'
  BY <1>2 DEF RegInv, RequestsInv, UniqueInv, Calls
<1>5. HomeInv'
  BY <1>2 DEF RegInv, HomeInv, Calls
<1> QED BY <1>1, <1>3, <1>4, <1>5 DEF RegInv

(* No stored document shares a key with one that violates no index.        *)
LEMMA NoneViolated ==
    ASSUME BootInv, Serving, NEW d, Violated(d) = {}, NEW e \in users
    PROVE  e["email"] # d["email"] /\ e["phone"] # d["phone"]
<1>1. "uniq_email" \in built /\ "uniq_phone" \in built
  BY DEF BootInv, IndexInv, Serving
<1> QED BY <1>1 DEF Violated

LEMMA RequestStep ==
    ASSUME IInv, NEW r \in Requests, UNCHANGED bootVars,
           FindConflict(r) \/ InsertOne(r) \/ Duplicate(r)
    PROVE  IInv'
<1> USE DEF IInv
<1>1. BootInv' /\ (Serving' = Serving)
  BY DEF bootVars, BootInv, BootTypeOK, IndexInv, VerdictInv, Serving
<1>2. /\ pc[r] \in Calls /\ Serving /\ doc[r] \in Documents
      /\ UNCHANGED <<doc, tries, page>>
      /\ \E a \in {"insert_one", "created", "email", "phone"} : pc' = [pc EXCEPT ![r] = a]
  BY DEF FindConflict, InsertOne, Duplicate, Violated, Calls, RegInv, RequestsInv, Goto
<1>3. users' = users \/ InsertOne(r)
  BY DEF FindConflict, Duplicate
<1>4. TypeOK'
  BY <1>1, <1>2, <1>3 DEF TypeOK, BootInv, Calls, Answers, InsertOne
<1>5. pc'[r] = "created" => doc[r] \in users'
  BY <1>2 DEF FindConflict, InsertOne, Duplicate, Violated, Goto, TypeOK
<1>6. users \subseteq users'
  BY <1>3 DEF InsertOne
<1>7. RequestsInv'
  BY <1>1, <1>2, <1>5, <1>6 DEF RegInv, RequestsInv, TypeOK, Calls
<1>8. UniqueInv'
  <2>1. CASE users' = users
    BY <2>1 DEF RegInv, UniqueInv
  <2>2. CASE InsertOne(r)
    <3>1. \A e \in users : e["email"] # doc[r]["email"] /\ e["phone"] # doc[r]["phone"]
      BY <1>2, <2>2, NoneViolated DEF InsertOne
    <3>2. \A e \in users : e.email # doc[r].email /\ e.phone # doc[r].phone
      BY <3>1
    <3>3. users' = users \cup {doc[r]}
      BY <2>2 DEF InsertOne
    <3> QED BY <3>2, <3>3 DEF RegInv, UniqueInv
  <2> QED BY <1>3, <2>1, <2>2
<1>9. HomeInv'
  <2>1. pc[r] # "created"
    BY <1>2 DEF Calls
  <2> QED BY <1>2, <2>1 DEF RegInv, HomeInv
<1> QED BY <1>1, <1>4, <1>7, <1>8, <1>9 DEF RegInv

LEMMA SubmitStep ==
    ASSUME IInv, NEW v \in Visitors, UNCHANGED bootVars, Submit(v)
    PROVE  IInv'
<1> DEFINE r == <<v, tries[v] + 1>>
<1> USE DEF IInv
<1>1. BootInv' /\ (Serving' = Serving)
  BY DEF bootVars, BootInv, BootTypeOK, IndexInv, VerdictInv, Serving
<1>2. /\ tries[v] \in 0..MaxTries /\ tries[v] < MaxTries /\ MaxTries \in Nat
      /\ page[v] = "form"
      /\ tries' = [tries EXCEPT ![v] = tries[v] + 1]
      /\ page' = [page EXCEPT ![v] = "waiting"]
      /\ UNCHANGED users
  BY RegistrationAssumption DEF Submit, TypeOK
<1>3. /\ tries[v] + 1 \in 1..MaxTries /\ tries[v] + 1 \in 0..MaxTries
      /\ tries[v] + 1 > tries[v]
  BY <1>2
<1>4. /\ r \in Requests /\ r[1] = v /\ r[2] = tries[v] + 1
      /\ pc[r] = "idle" /\ doc[r] = None
  BY <1>3 DEF Requests, RegInv, RequestsInv
<1>5. PICK s \in Spellings, p \in Phones : Receive(r, s, p)
  BY DEF Submit
<1>6. /\ \E a \in {"unknown", "invalid", "find_conflict"} :
             /\ pc' = [pc EXCEPT ![r] = a]
             /\ a = "find_conflict" => Serving
      /\ doc' = doc \/ \E d \in Documents : doc' = [doc EXCEPT ![r] = d]
      /\ pc'[r] = "find_conflict" => doc'[r] \in Documents
  <2>1. CASE ~Serving \/ E164[p] = None
    BY <1>4, <1>5, <2>1 DEF Receive, Goto, TypeOK
  <2>2. CASE Serving /\ E164[p] # None
    <3> DEFINE d == [email |-> Normalized(s), phone |-> E164[p], by |-> r]
    <3>1. d \in Documents
      BY <1>4, <2>2 DEF Documents, Emails, Numbers, Normalized
    <3>2. doc' = [doc EXCEPT ![r] = d] /\ pc' = [pc EXCEPT ![r] = "find_conflict"]
      BY <1>5, <2>2 DEF Receive, Goto
    <3> QED BY <1>4, <2>2, <3>1, <3>2 DEF TypeOK
  <2> QED BY <2>1, <2>2
<1>7. TypeOK'
  BY <1>1, <1>2, <1>3, <1>4, <1>6 DEF TypeOK, BootInv, Calls, Answers
<1>8. \A q \in Requests : q[2] > tries'[q[1]] => q # r /\ q[2] > tries[q[1]]
  <2> SUFFICES ASSUME NEW w \in Visitors, NEW n \in 1..MaxTries, n > tries'[w]
               PROVE  <<w, n>> # r /\ n > tries[w]
    BY DEF Requests
  <2>1. CASE w = v
    BY <1>2, <1>3, <2>1 DEF TypeOK
  <2>2. CASE w # v
    BY <1>2, <2>2 DEF TypeOK
  <2> QED BY <2>1, <2>2
<1>9. RequestsInv'
  BY <1>1, <1>2, <1>4, <1>6, <1>8 DEF RegInv, RequestsInv, TypeOK, Calls
<1>10. UniqueInv'
  BY <1>2 DEF RegInv, UniqueInv
<1>11. HomeInv'
  <2> SUFFICES ASSUME NEW w \in Visitors
               PROVE  /\ page'[w] # "form" => <<w, tries'[w]>> \in Requests
                      /\ page'[w] = "home" => pc'[<<w, tries'[w]>>] = "created"
    BY DEF HomeInv
  <2>1. CASE w = v
    BY <1>2, <1>4, <2>1 DEF TypeOK
  <2>2. CASE w # v
    <3>1. page'[w] = page[w] /\ tries'[w] = tries[w] /\ <<w, tries[w]>> # r
      BY <1>2, <2>2 DEF TypeOK
    <3> QED BY <1>6, <3>1 DEF RegInv, HomeInv
  <2> QED BY <2>1, <2>2
<1> QED BY <1>1, <1>7, <1>9, <1>10, <1>11 DEF RegInv

LEMMA SettleStep ==
    ASSUME IInv, NEW v \in Visitors, UNCHANGED bootVars, Settle(v)
    PROVE  IInv'
<1> USE DEF IInv
<1>1. BootInv' /\ (Serving' = Serving)
  BY DEF bootVars, BootInv, BootTypeOK, IndexInv, VerdictInv, Serving
<1>2. UNCHANGED <<users, pc, doc, tries>>
  BY DEF Settle
<1>3. TypeOK'
  BY <1>1, <1>2 DEF Settle, TypeOK, BootInv
<1>4. RequestsInv' /\ UniqueInv'
  BY <1>1, <1>2 DEF RegInv, RequestsInv, UniqueInv
<1>5. HomeInv'
  <2>1. /\ page[v] = "waiting"
        /\ \A w \in Visitors \ {v} : page'[w] = page[w]
        /\ page'[v] = "home" => pc[<<v, tries[v]>>] = "created"
    BY DEF Settle, TypeOK
  <2> QED BY <1>2, <2>1 DEF RegInv, HomeInv
<1> QED BY <1>1, <1>3, <1>4, <1>5 DEF RegInv

LEMMA NextIInv == IInv /\ [Next]_vars => IInv'
<1> SUFFICES ASSUME IInv, [Next]_vars PROVE IInv'
  OBVIOUS
<1>1. CASE (BootStep \/ AwsChanges) /\ UNCHANGED regVars
  <2>1. BootInv' /\ (Serving => Serving')
    BY <1>1, BootStepInv, AwsChangesInv DEF IInv, Serving
  <2> QED BY <1>1, <2>1, BootOnly
<1>2. CASE Fall /\ Dropped
  BY <1>2, FallStep
<1>3. CASE RegStep /\ UNCHANGED bootVars
  BY <1>3, RequestStep, SubmitStep, SettleStep DEF RegStep
<1>4. CASE UNCHANGED vars
  <2>1. UNCHANGED bootVars /\ UNCHANGED regVars
    BY <1>4 DEF vars
  <2>2. BootInv' /\ (Serving => Serving')
    BY <2>1 DEF IInv, bootVars, BootInv, BootTypeOK, IndexInv, VerdictInv, Serving
  <2> QED BY <2>1, <2>2, BootOnly
<1> QED BY <1>1, <1>2, <1>3, <1>4 DEF Next

LEMMA Invariance == Spec => []IInv
BY InitIInv, NextIInv, PTL DEF Spec

----------------------------------------------------------------------------
(* The variables of the boot, the collection and the forms keep the shapes *)
(* the model gives them, and requests are only in flight while serving.    *)
THEOREM TypeCorrect == Spec => []TypeOK
BY Invariance, PTL DEF IInv

(* The verdict the boot log gives about AWS is warranted by states AWS was *)
(* in while it was probed.                                                 *)
THEOREM VerdictIsHonest == Spec => []VerdictHonest
<1>1. IInv => VerdictHonest
  <2>1. ASSUME IInv, Serving, env.provider = "aws" PROVE VerdictHonest
    <3>1. verdicts \subseteq {"ok", "warning", "error"}
      BY <2>1 DEF IInv, BootInv, BootTypeOK
    <3> QED BY <2>1, <3>1 DEF IInv, BootInv, VerdictInv, VerdictHonest, Overall, Serving
  <2> QED BY <2>1 DEF VerdictHonest
<1> QED BY <1>1, Invariance, PTL

(* Whoever is let in owns the account, and nobody else has its keys.       *)
THEOREM SignedInIsOwner == Spec => []SignedInOwns
<1>1. IInv => SignedInOwns
  BY DEF IInv, RegInv, RequestsInv, UniqueInv, HomeInv, SignedInOwns
<1> QED BY <1>1, Invariance, PTL

----------------------------------------------------------------------------
(* The register.                                                           *)

Told == {"created", "email", "phone", "unknown"}

Answered == [r \in Requests |-> AnswerOf(r)]

LEMMA SoleAnswer ==
    ASSUME IInv, NEW r \in Requests, NEW a, pc' = [pc EXCEPT ![r] = a]
    PROVE  Answered' = [Answered EXCEPT ![r] = IF a \in Told THEN a ELSE None]
BY DEF Answered, AnswerOf, Answers, IInv, TypeOK, Told

LEMMA NoAnswer ==
    ASSUME IInv, NEW r \in Requests, NEW a, pc' = [pc EXCEPT ![r] = a],
           pc[r] \notin Told, a \notin Told
    PROVE  UNCHANGED Answered
BY DEF Answered, AnswerOf, Answers, IInv, TypeOK, Told

LEMMA RequestRefines ==
    ASSUME IInv, NEW r \in Requests, FindConflict(r) \/ InsertOne(r) \/ Duplicate(r)
    PROVE  [Register!Next]_(Register!vars)
<1> USE DEF IInv, Goto, Register!vars, Answered
<1>1. /\ doc[r] \in Documents /\ doc[r] # None /\ Serving
      /\ UNCHANGED doc /\ pc[r] \notin Told
  BY RegistrationAssumption
     DEF FindConflict, InsertOne, Duplicate, RegInv, RequestsInv, Calls, Told
<1>2. ASSUME NEW k \in {"email", "phone"}, NEW e \in users, e[k] = doc[r][k],
             pc' = [pc EXCEPT ![r] = k], UNCHANGED users
      PROVE  Register!Refuse(r)
  <2>1. Answered' = [Answered EXCEPT ![r] = k]
    BY <1>2, SoleAnswer DEF Told
  <2> QED BY <1>1, <1>2, <2>1 DEF Register!Refuse, Register!Told
<1>3. CASE FindConflict(r)
  <2>1. CASE pc' = [pc EXCEPT ![r] = "insert_one"]
    BY <1>1, <1>3, <2>1, NoAnswer DEF FindConflict, Told
  <2>2. CASE \E k \in {"email", "phone"}, e \in users :
               e[k] = doc[r][k] /\ pc' = [pc EXCEPT ![r] = k]
    BY <1>2, <1>3, <2>2 DEF FindConflict, Register!Next
  <2> QED BY <1>3, <2>1, <2>2 DEF FindConflict
<1>4. CASE Duplicate(r)
  BY <1>2, <1>4 DEF Duplicate, Violated, Register!Next
<1>5. CASE InsertOne(r)
  <2>1. Answered' = [Answered EXCEPT ![r] = "created"]
    BY <1>5, SoleAnswer DEF InsertOne, Told
  <2>2. Register!Fits(doc[r])
    BY <1>1, <1>5, NoneViolated DEF InsertOne, Register!Fits, Register!Clash
  <2>3. Register!Add(r)
    BY <1>1, <1>5, <2>1, <2>2 DEF InsertOne, Register!Add, Register!Told
  <2> QED BY <2>3 DEF Register!Next
<1> QED BY <1>3, <1>4, <1>5

LEMMA SubmitRefines ==
    ASSUME IInv, NEW v \in Visitors, Submit(v)
    PROVE  [Register!Next]_(Register!vars)
<1> DEFINE r == <<v, tries[v] + 1>>
<1> USE DEF IInv, Goto, Register!vars, Answered
<1>1. r \in Requests /\ pc[r] = "idle" /\ doc[r] = None /\ UNCHANGED users
  <2>1. tries[v] + 1 \in 1..MaxTries /\ tries[v] + 1 > tries[v]
    BY RegistrationAssumption DEF Submit, TypeOK
  <2> QED BY <2>1 DEF Submit, Requests, RegInv, RequestsInv
<1>2. PICK s \in Spellings, p \in Phones : Receive(r, s, p)
  BY DEF Submit
<1> HIDE DEF r
<1>3. CASE ~Serving
  <2>1. pc' = [pc EXCEPT ![r] = "unknown"] /\ UNCHANGED doc
    BY <1>2, <1>3 DEF Receive
  <2>2. Answered' = [Answered EXCEPT ![r] = "unknown"]
    BY <1>1, <2>1, SoleAnswer DEF Told
  <2>3. Answered' = [c \in Requests |-> IF c \in {r} THEN "unknown" ELSE Answered[c]]
    BY <2>2
  <2>4. Register!Abandon({r})
    BY <1>1, <2>1, <2>3 DEF Register!Abandon
  <2> QED BY <1>1, <2>4 DEF Register!Next
<1>4. CASE Serving /\ E164[p] = None
  <2>1. pc' = [pc EXCEPT ![r] = "invalid"] /\ UNCHANGED doc
    BY <1>2, <1>4 DEF Receive
  <2> QED BY <1>1, <2>1, NoAnswer DEF Told
<1>5. CASE Serving /\ E164[p] # None
  <2> DEFINE d == [email |-> Normalized(s), phone |-> E164[p], by |-> r]
  <2>1. d \in Documents
    BY <1>1, <1>5 DEF Documents, Emails, Numbers, Normalized
  <2>2. doc' = [doc EXCEPT ![r] = d] /\ pc' = [pc EXCEPT ![r] = "find_conflict"]
    BY <1>2, <1>5 DEF Receive
  <2>3. UNCHANGED Answered
    BY <1>1, <2>2, NoAnswer DEF Told
  <2>4. Register!Ask(r)
    BY <1>1, <2>1, <2>2, <2>3 DEF Register!Ask
  <2> QED BY <1>1, <2>4 DEF Register!Next
<1> QED BY <1>3, <1>4, <1>5

LEMMA FallRefines ==
    ASSUME IInv, Dropped
    PROVE  [Register!Next]_(Register!vars)
<1> DEFINE lost == {r \in Requests : pc[r] \in Calls}
<1>1. UNCHANGED <<users, doc>>
  BY DEF Dropped
<1>2. Answered' = [r \in Requests |-> IF r \in lost THEN "unknown" ELSE Answered[r]]
  BY DEF Dropped, Answered, AnswerOf, Answers
<1>3. Register!Abandon(lost)
  BY <1>1, <1>2 DEF Register!Abandon, Answered
<1>4. lost \in SUBSET Requests
  OBVIOUS
<1> QED BY <1>3, <1>4 DEF Register!Next

(* Registrations, however they are retried, raced and cut off, implement a *)
(* register with the two unique keys e-mail and phone.                     *)
THEOREM UsersAreARegister == Spec => ImplementsRegister
<1>1. Init => Register!Init
  <2> SUFFICES ASSUME Init PROVE Register!Init
    OBVIOUS
  <2>1. doc \in [Requests -> Documents \cup {None}]
    BY DEF Init, RegInit
  <2>2. Answered = [r \in Requests |-> None]
    BY DEF Init, RegInit, Answered, AnswerOf, Answers
  <2> QED BY <2>1, <2>2 DEF Init, RegInit, Register!Init, Answered
<1>2. IInv /\ [Next]_vars => [Register!Next]_(Register!vars)
  <2>1. ASSUME UNCHANGED <<users, pc, doc>> PROVE UNCHANGED Register!vars
    BY <2>1 DEF Register!vars, AnswerOf
  <2>2. ASSUME NEW v \in Visitors, Settle(v) PROVE UNCHANGED <<users, pc, doc>>
    BY <2>2 DEF Settle
  <2>3. UNCHANGED regVars => UNCHANGED <<users, pc, doc>>
    BY DEF regVars
  <2> QED BY <2>1, <2>2, <2>3, RequestRefines, SubmitRefines, FallRefines
       DEF Next, RegStep, vars
<1> QED BY <1>1, <1>2, Invariance, PTL DEF Spec, ImplementsRegister, Register!Spec
=============================================================================
