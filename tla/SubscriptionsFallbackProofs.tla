--------------------- MODULE SubscriptionsFallbackProofs ---------------------
(***************************************************************************)
(* Theorems about the fallback mode, for any users, funds, amounts and     *)
(* requests and any number of faults of every kind.                        *)
(***************************************************************************)
EXTENDS SubscriptionsFallback, SumTheorems, TLAPS

(* Labels of a request that has a document in its hands.                   *)
Busy == Subscribing \cup Cancelling

(* Labels of a cancel that has taken a document and may still credit it,   *)
(* log it or put it back.                                                  *)
Holding == {"credit", "audit_cancel", "reinsert", "reinsert_debit"}

(* Labels a subscribe can have once its document was inserted.             *)
PastInsert == {"audit", "delete", "refund", "ok", "failed", "crashed"}

(* A cancel that took a document and has not given it back.                *)
Held(r) == pc[r] \in Holding \cup {"ok"} /\ doc[r].id # r

(* An idle request has no document; a busy or successful one has one, a    *)
(* subscribe its own and a cancel somebody else's.                         *)
DocsInv ==
    \A r \in Requests :
      /\ pc[r] = "idle" => doc[r] = None
      /\ pc[r] \in Busy \cup {"ok"} => doc[r] \in Documents
      /\ pc[r] \in Subscribing => doc[r].id = r
      /\ pc[r] \in Cancelling => doc[r].id # r

(* A document that is stored, or in the hands of a cancel, is the one its  *)
(* creator built, and the creator is past its insert; unless a fault hit   *)
(* the creator, it is logging the document or has succeeded.               *)
Created(d) ==
    /\ doc[d.id] = d
    /\ pc[d.id] \in PastInsert
    /\ d.id \notin hit => pc[d.id] \in {"audit", "ok"}

CreatorsInv ==
    /\ \A d \in subscriptions : Created(d)
    /\ \A r \in Requests : Held(r) => Created(doc[r])

(* A document is in one place: stored, or in the hands of one cancel.      *)
HandsInv ==
    /\ \A r \in Requests : Held(r) => doc[r] \notin subscriptions
    /\ \A r, q \in Requests :
         (Held(r) /\ pc[q] \in Holding /\ doc[q] = doc[r]) => q = r

(* A subscribe that got past its insert finds its document stored, or held *)
(* by another request; a success answer comes with its row.                *)
Placed(r) ==
    doc[r] \in subscriptions \/ \E q \in Requests \ {r} : doc[q] = doc[r]

RowOf(r) == Row(IF doc[r].id = r THEN "OPEN" ELSE "CANCEL", doc[r])

AcceptedInv ==
    \A r \in Requests :
      /\ (pc[r] \in {"audit", "ok"} /\ doc[r].id = r) => Placed(r)
      /\ pc[r] = "ok" => RowOf(r) \in transactions

(* Only a fault leads to these labels.                                     *)
Faulty == (Compensating \ {"refund"}) \cup {"crashed"}

HitInv ==
    \A r \in Requests :
      /\ r \in hit => pc[r] # "idle"
      /\ pc[r] \in Faulty => r \in hit

IInv ==
    /\ TypeOK
    /\ DocsInv
    /\ CreatorsInv
    /\ HandsInv
    /\ AcceptedInv
    /\ HitInv
    /\ OneSubscriptionPerFund
    /\ NoOverdraft

Labels == {"idle"} \cup Subscribing \cup Cancelling \cup Answers

----------------------------------------------------------------------------
(* The initial state satisfies the invariant.                              *)
LEMMA InitIInv == Init => IInv
<1> SUFFICES ASSUME Init PROVE IInv
  OBVIOUS
<1> USE NoneAssumption, DataAssumption DEF Init
<1>1. TypeOK
  BY DEF TypeOK
<1>2. DocsInv /\ HitInv /\ AcceptedInv
  BY DEF DocsInv, HitInv, AcceptedInv, Busy, Subscribing, Cancelling, Faulty,
         Compensating
<1>3. CreatorsInv /\ HandsInv /\ OneSubscriptionPerFund
  BY DEF CreatorsInv, HandsInv, Held, Holding, OneSubscriptionPerFund
<1>4. NoOverdraft
  BY DEF NoOverdraft
<1> QED BY <1>1, <1>2, <1>3, <1>4 DEF IInv

(* A failed call leads to a label of the code.                             *)
LEMMA AfterFailureType ==
    ASSUME NEW l \in Labels \ Answers
    PROVE  AfterFailure(l) \in Labels
BY DEF AfterFailure, Labels, Subscribing, Cancelling, Answers

(* How a call that took effect moves its request: to the next label, or,   *)
(* its reply lost, to the compensation, and then the request is hit.       *)
LEMMA ReturnsCases ==
    ASSUME TypeOK, NEW r \in Requests, NEW next \in Labels, Returns(r, next),
           pc[r] \notin Answers
    PROVE  \E l \in Labels :
             /\ pc' = [pc EXCEPT ![r] = l]
             /\ \/ l = next /\ hit' = hit
                \/ l = AfterFailure(pc[r]) /\ hit' = hit \cup {r}
<1>1. CASE Goto(r, next) /\ UNCHANGED hit
  BY <1>1 DEF Goto
<1>2. CASE Goto(r, AfterFailure(pc[r])) /\ Fault("lost", r)
  <2>1. AfterFailure(pc[r]) \in Labels
    BY AfterFailureType DEF TypeOK, Labels
  <2> QED BY <1>2, <2>1 DEF Goto, Fault
<1> QED BY <1>1, <1>2 DEF Returns

(* A step that moves only the label of one request, perhaps logging a row  *)
(* or hitting the request, keeps the invariant about the documents,        *)
(* provided the label stays on the same side and, for a creator, past the  *)
(* insert; no such step may pick a document up.                            *)
LEMMA LabelStep ==
    ASSUME IInv, NEW r \in Requests, NEW l \in Labels \ {"idle", "audit"},
           pc' = [pc EXCEPT ![r] = l], UNCHANGED <<doc, subscriptions>>,
           hit' = hit \/ hit' = hit \cup {r}, transactions \subseteq transactions',
           l \in Subscribing => pc[r] \in Subscribing,
           l \in Cancelling => pc[r] \in Cancelling,
           l = "ok" => pc[r] \in {"audit", "audit_cancel"} /\ RowOf(r) \in transactions',
           l \in Holding => pc[r] \in Holding,
           pc[r] \in PastInsert => l \in PastInsert,
           (r \notin hit' /\ pc[r] \in {"audit", "ok"}) => l = "ok",
           l \in Faulty => r \in hit'
    PROVE  /\ DocsInv' /\ CreatorsInv' /\ HandsInv'
           /\ AcceptedInv' /\ HitInv' /\ OneSubscriptionPerFund'
<1> USE DEF IInv, TypeOK
<1>1. DocsInv'
  BY DEF DocsInv, Busy, Subscribing, Cancelling
<1>2. ASSUME NEW q \in Requests, Held(q)' PROVE Held(q)
  BY <1>2 DEF DocsInv, Held, Holding, Subscribing
<1>3. ASSUME NEW d \in Documents, Created(d) PROVE Created(d)'
  BY <1>3 DEF Created, Documents
<1>4. CreatorsInv'
  BY <1>2, <1>3 DEF CreatorsInv, DocsInv, Held, Holding, Busy, Cancelling
<1>5. \A q \in Requests : pc'[q] \in Holding => pc[q] \in Holding
  OBVIOUS
<1>6. HandsInv'
  BY <1>2, <1>5 DEF HandsInv
<1>7. OneSubscriptionPerFund'
  BY DEF OneSubscriptionPerFund
<1>8. AcceptedInv'
  <2> SUFFICES ASSUME NEW q \in Requests
               PROVE  /\ (pc'[q] \in {"audit", "ok"} /\ doc[q].id = q) => Placed(q)'
                      /\ pc'[q] = "ok" => RowOf(q)' \in transactions'
    BY DEF AcceptedInv
  <2>1. Placed(q)' = Placed(q) /\ RowOf(q)' = RowOf(q)
    BY DEF Placed, RowOf
  <2>2. CASE q # r
    BY <2>1, <2>2 DEF AcceptedInv
  <2>3. CASE q = r
    BY <2>1, <2>3 DEF AcceptedInv, DocsInv, Cancelling
  <2> QED BY <2>2, <2>3
<1>9. HitInv'
  BY DEF HitInv
<1> QED BY <1>1, <1>4, <1>6, <1>7, <1>8, <1>9

(* No balance decreases to less than zero.                                 *)
NotOverdrawn == \A u \in Users : balance'[u] >= balance[u] \/ balance'[u] >= 0

(* Such a step keeps NoOverdraft: a request that was hit keeps its         *)
(* document.                                                               *)
LEMMA OverdraftStep ==
    ASSUME NoOverdraft, hit \subseteq hit',
           \A q \in hit : doc'[q] = doc[q],
           balance \in [Users -> Int], balance' \in [Users -> Int],
           NotOverdrawn
    PROVE  NoOverdraft'
BY DEF NoOverdraft, NotOverdrawn

(* The fields of a document.                                               *)
LEMMA DocumentFields ==
    ASSUME NEW d \in Documents
    PROVE  /\ d # None /\ d.id \in Requests /\ d.user \in Users
           /\ d.fund \in Funds /\ d.amount \in Nat /\ d.amount > 0
<1>1. d.id \in Requests /\ d.user \in Users /\ d.fund \in Funds /\ d.amount \in Amounts
  BY DEF Documents
<1>2. d # None
  BY NoneAssumption
<1>3. \A n \in Nat \ {0} : n \in Nat /\ n > 0
  OBVIOUS
<1>4. d.amount \in Nat \ {0}
  BY <1>1, DataAssumption
<1> QED BY <1>1, <1>2, <1>3, <1>4

(* Debits and credits move one balance by the amount of a document.        *)
LEMMA BalanceMoves ==
    ASSUME balance \in [Users -> Int], NEW u \in Users, NEW a \in Nat
    PROVE  /\ Debited(u, a) =>
                /\ balance' \in [Users -> Int]
                /\ balance'[u] = balance[u] - a
                /\ \A v \in Users \ {u} : balance'[v] = balance[v]
                /\ CanDebit(u, a) => NotOverdrawn
           /\ Credited(u, a) =>
                /\ balance' \in [Users -> Int]
                /\ balance'[u] = balance[u] + a
                /\ \A v \in Users \ {u} : balance'[v] = balance[v]
                /\ NotOverdrawn
<1>1. ASSUME Debited(u, a)
      PROVE  /\ balance' \in [Users -> Int]
             /\ balance'[u] = balance[u] - a
             /\ \A v \in Users \ {u} : balance'[v] = balance[v]
  BY <1>1 DEF Debited
<1>2. ASSUME Credited(u, a)
      PROVE  /\ balance' \in [Users -> Int]
             /\ balance'[u] = balance[u] + a
             /\ \A v \in Users \ {u} : balance'[v] = balance[v]
  BY <1>2 DEF Credited
<1>3. ASSUME Debited(u, a), CanDebit(u, a), NEW v \in Users
      PROVE  balance'[v] >= balance[v] \/ balance'[v] >= 0
  <2>1. balance[v] \in Int /\ balance[u] \in Int
    OBVIOUS
  <2> QED BY <1>1, <1>3, <2>1 DEF CanDebit
<1>4. ASSUME Credited(u, a), NEW v \in Users
      PROVE  balance'[v] >= balance[v] \/ balance'[v] >= 0
  <2>1. balance[v] \in Int /\ balance[u] \in Int
    OBVIOUS
  <2> QED BY <1>2, <1>4, <2>1
<1> QED BY <1>1, <1>2, <1>3, <1>4 DEF NotOverdrawn

----------------------------------------------------------------------------
(* One lemma per action.                                                   *)

LEMMA LookupStep ==
    ASSUME IInv, NEW r \in Requests, Lookup(r)
    PROVE  IInv'
<1> USE DEF IInv, TypeOK
<1>1. PICK u \in Users, f \in Funds, payload \in Amounts \cup {None} :
        LET a == EffectiveAmount(f, payload) IN
         \/ /\ f \in active /\ Acceptable(f, a)
            /\ doc' = [doc EXCEPT ![r] = Subscription(r, u, f, a)]
            /\ Goto(r, "check")
         \/ /\ f \notin active \/ ~Acceptable(f, a)
            /\ Goto(r, "rejected")
            /\ UNCHANGED doc
  BY DEF Lookup
<1> DEFINE d == Subscription(r, u, f, EffectiveAmount(f, payload))
<1>2. /\ pc[r] = "idle" /\ doc[r] = None /\ r \notin hit
      /\ UNCHANGED <<balance, subscriptions, transactions, active, hit>>
  BY DEF Lookup, DocsInv, HitInv
<1>3. CASE doc' = [doc EXCEPT ![r] = d] /\ Goto(r, "check")
  <2>1. d \in Documents /\ d.id = r
    BY DataAssumption DEF Documents, Subscription, EffectiveAmount
  <2>2. doc' = [doc EXCEPT ![r] = d] /\ pc' = [pc EXCEPT ![r] = "check"] /\ d # None
    BY <1>3, <2>1, NoneAssumption DEF Goto
  <2> HIDE DEF d
  <2> USE <1>2, <2>1, <2>2
  <2>3. TypeOK'
    BY DEF Subscribing
  <2>4. DocsInv' /\ HitInv'
    BY DEF DocsInv, HitInv, Busy, Subscribing, Cancelling, Faulty, Compensating
  <2>5. ASSUME NEW e \in Documents, Created(e) PROVE Created(e)'
    BY <2>5 DEF Created, Documents, PastInsert
  <2>6. \A q \in Requests : Held(q)' = (Held(q) /\ q # r)
    BY DEF Held, Holding
  <2>7. \A q \in Requests : Held(q) => doc[q] \in Documents /\ q # r
    BY DEF Held, Holding, DocsInv, Busy, Cancelling
  <2>8. CreatorsInv'
    BY <2>5, <2>6, <2>7 DEF CreatorsInv
  <2>9. HandsInv'
    BY <2>6, <2>7 DEF HandsInv, Holding
  <2>10. AcceptedInv'
    <3> SUFFICES ASSUME NEW q \in Requests, pc'[q] \in {"audit", "ok"}
                 PROVE  /\ doc'[q].id = q => Placed(q)'
                        /\ pc'[q] = "ok" => RowOf(q)' \in transactions'
      BY DEF AcceptedInv
    <3>1. q # r /\ doc'[q] = doc[q] /\ doc[q] \in Documents
      BY DEF DocsInv, Busy, Subscribing
    <3>2. RowOf(q)' = RowOf(q)
      BY <3>1 DEF RowOf
    <3>3. Placed(q) => Placed(q)'
      BY <3>1, NoneAssumption DEF Placed
    <3> QED BY <3>1, <3>2, <3>3 DEF AcceptedInv
  <2>11. OneSubscriptionPerFund'
    BY DEF OneSubscriptionPerFund
  <2>12. NoOverdraft'
    BY OverdraftStep DEF NotOverdrawn
  <2> QED BY <2>3, <2>4, <2>8, <2>9, <2>10, <2>11, <2>12
<1>4. CASE UNCHANGED doc /\ Goto(r, "rejected")
  <2>1. TypeOK' /\ NoOverdraft'
    BY <1>2, <1>4, OverdraftStep DEF NotOverdrawn, Goto, Answers
  <2>2. /\ DocsInv' /\ CreatorsInv' /\ HandsInv'
        /\ AcceptedInv' /\ HitInv' /\ OneSubscriptionPerFund'
    BY <1>2, <1>4, LabelStep DEF Goto, Labels, Answers, Subscribing, Cancelling,
       Holding, PastInsert, Faulty, Compensating
  <2> QED BY <2>1, <2>2
<1> QED BY <1>1, <1>3, <1>4

(* The answers and reads that move nothing: rejections, the lost insert    *)
(* race, and the read of the existing subscription.                        *)
LEMMA ReadStep ==
    ASSUME IInv, NEW r \in Requests,
           Check(r) \/ Insufficient(r) \/ Duplicate(r) \/ NotFound(r)
    PROVE  IInv'
<1> USE DEF IInv, TypeOK
<1> DEFINE steps == {<<"check", "debit">>, <<"check", "rejected">>,
                     <<"debit", "rejected">>, <<"insert", "refund">>,
                     <<"idle", "rejected">>}
<1>1. PICK l \in Labels : <<pc[r], l>> \in steps /\ pc' = [pc EXCEPT ![r] = l]
  BY DEF Check, Insufficient, Duplicate, NotFound, Goto, Labels, Subscribing, Answers
<1>2. UNCHANGED <<balance, subscriptions, transactions, active, doc, hit>>
  BY DEF Check, Insufficient, Duplicate, NotFound
<1>3. TypeOK' /\ NoOverdraft'
  BY <1>1, <1>2, OverdraftStep DEF NotOverdrawn, Labels
<1>4. /\ DocsInv' /\ CreatorsInv' /\ HandsInv'
      /\ AcceptedInv' /\ HitInv' /\ OneSubscriptionPerFund'
  BY <1>1, <1>2, LabelStep DEF Labels, Answers, Subscribing, Cancelling,
     Holding, PastInsert, Faulty, Compensating
<1> QED BY <1>3, <1>4

LEMMA RefusedStep ==
    ASSUME IInv, NEW r \in Requests, Refused(r)
    PROVE  IInv'
<1> USE DEF IInv, TypeOK
<1> DEFINE l == AfterFailure(pc[r])
<1>1. /\ pc[r] \in Labels \ Answers /\ pc' = [pc EXCEPT ![r] = l] /\ hit' = hit \cup {r}
      /\ UNCHANGED <<balance, subscriptions, transactions, active, doc>>
  BY DEF Refused, Fault, Goto, Labels
<1>2. /\ l \in Labels \ {"idle", "audit", "ok"}
      /\ l \in Subscribing => pc[r] \in Subscribing
      /\ l \in Cancelling => pc[r] \in Cancelling
      /\ l \in Holding => pc[r] \in Holding
      /\ pc[r] \in PastInsert => l \in PastInsert
  BY <1>1 DEF AfterFailure, Labels, Answers, Subscribing, Cancelling, Holding, PastInsert
<1> HIDE DEF l
<1>3. TypeOK' /\ NoOverdraft'
  BY <1>1, <1>2, OverdraftStep DEF NotOverdrawn, Labels
<1>4. /\ DocsInv' /\ CreatorsInv' /\ HandsInv'
      /\ AcceptedInv' /\ HitInv' /\ OneSubscriptionPerFund'
  BY <1>1, <1>2, LabelStep
<1> QED BY <1>3, <1>4

(* The calls on the balance and the audit log that may return.             *)
LEMMA DebitStep ==
    ASSUME IInv, NEW r \in Requests, Debit(r)
    PROVE  IInv'
<1> USE DEF IInv, TypeOK
<1>1. /\ pc[r] = "debit" /\ doc[r] \in Documents
      /\ CanDebit(doc[r].user, doc[r].amount) /\ Debited(doc[r].user, doc[r].amount)
      /\ UNCHANGED <<subscriptions, transactions, active, doc>>
  BY DEF Debit, DocsInv, Busy, Subscribing
<1>2. PICK l \in {"insert", "failed"} :
        /\ pc' = [pc EXCEPT ![r] = l]
        /\ \/ l = "insert" /\ hit' = hit
           \/ hit' = hit \cup {r}
  BY <1>1, ReturnsCases DEF Debit, AfterFailure, Labels, Subscribing, Answers
<1>moves. /\ balance' \in [Users -> Int]
          /\ balance'[doc[r].user] = balance[doc[r].user] - doc[r].amount
          /\ \A v \in Users \ {doc[r].user} : balance'[v] = balance[v]
          /\ NotOverdrawn
          /\ doc[r].user \in Users /\ doc[r].amount \in Nat
  BY <1>1, DocumentFields, BalanceMoves
<1>3. TypeOK'
  BY <1>1, <1>2, <1>moves DEF Subscribing, Answers
<1>4. NoOverdraft'
  BY <1>1, <1>2, <1>moves, OverdraftStep
<1>5. /\ DocsInv' /\ CreatorsInv' /\ HandsInv'
      /\ AcceptedInv' /\ HitInv' /\ OneSubscriptionPerFund'
  BY <1>1, <1>2, LabelStep DEF Labels, Answers, Subscribing, Cancelling,
     Holding, PastInsert, Faulty, Compensating
<1> QED BY <1>3, <1>4, <1>5

LEMMA CreditStep ==
    ASSUME IInv, NEW r \in Requests, Credit(r)
    PROVE  IInv'
<1> USE DEF IInv, TypeOK
<1>1. /\ pc[r] = "credit" /\ doc[r] \in Documents
      /\ Credited(doc[r].user, doc[r].amount)
      /\ UNCHANGED <<subscriptions, transactions, active, doc>>
  BY DEF Credit, DocsInv, Busy, Cancelling
<1>2. PICK l \in {"audit_cancel", "reinsert"} :
        /\ pc' = [pc EXCEPT ![r] = l]
        /\ \/ l = "audit_cancel" /\ hit' = hit
           \/ hit' = hit \cup {r}
  BY <1>1, ReturnsCases DEF Credit, AfterFailure, Labels, Cancelling, Answers
<1>moves. /\ balance' \in [Users -> Int]
          /\ balance'[doc[r].user] = balance[doc[r].user] + doc[r].amount
          /\ \A v \in Users \ {doc[r].user} : balance'[v] = balance[v]
          /\ NotOverdrawn
          /\ doc[r].user \in Users /\ doc[r].amount \in Nat
  BY <1>1, DocumentFields, BalanceMoves
<1>3. TypeOK'
  BY <1>1, <1>2, <1>moves DEF Cancelling
<1>4. NoOverdraft'
  BY <1>1, <1>2, <1>moves, OverdraftStep
<1>5. /\ DocsInv' /\ CreatorsInv' /\ HandsInv'
      /\ AcceptedInv' /\ HitInv' /\ OneSubscriptionPerFund'
  BY <1>1, <1>2, LabelStep DEF Labels, Answers, Subscribing, Cancelling,
     Holding, PastInsert, Faulty, Compensating
<1> QED BY <1>3, <1>4, <1>5

LEMMA RefundStep ==
    ASSUME IInv, NEW r \in Requests, Refund(r)
    PROVE  IInv'
<1> USE DEF IInv, TypeOK
<1>1. /\ pc[r] = "refund" /\ doc[r] \in Documents
      /\ Credited(doc[r].user, doc[r].amount)
      /\ pc' = [pc EXCEPT ![r] = "failed"]
      /\ UNCHANGED <<subscriptions, transactions, active, doc, hit>>
  BY DEF Refund, Goto, DocsInv, Busy, Subscribing
<1>moves. /\ balance' \in [Users -> Int]
          /\ balance'[doc[r].user] = balance[doc[r].user] + doc[r].amount
          /\ \A v \in Users \ {doc[r].user} : balance'[v] = balance[v]
          /\ NotOverdrawn
          /\ doc[r].user \in Users /\ doc[r].amount \in Nat
  BY <1>1, DocumentFields, BalanceMoves
<1>2. TypeOK'
  BY <1>1, <1>moves DEF Answers
<1>3. NoOverdraft'
  BY <1>1, <1>moves, OverdraftStep
<1>4. /\ DocsInv' /\ CreatorsInv' /\ HandsInv'
      /\ AcceptedInv' /\ HitInv' /\ OneSubscriptionPerFund'
  BY <1>1, LabelStep DEF Labels, Answers, Subscribing, Cancelling,
     Holding, PastInsert, Faulty, Compensating
<1> QED BY <1>2, <1>3, <1>4

(* The only debit without a filter is that of a request a fault has hit.   *)
LEMMA DebitBackStep ==
    ASSUME IInv, NEW r \in Requests, DebitBack(r)
    PROVE  IInv'
<1> USE DEF IInv, TypeOK
<1>1. /\ pc[r] = "debit_back" /\ doc[r] \in Documents /\ doc[r].id # r /\ r \in hit
      /\ Debited(doc[r].user, doc[r].amount)
      /\ pc' = [pc EXCEPT ![r] = "failed"]
      /\ UNCHANGED <<subscriptions, transactions, active, doc, hit>>
  BY DEF DebitBack, Goto, DocsInv, HitInv, Faulty, Compensating, Busy, Cancelling
<1>moves. /\ balance' \in [Users -> Int]
          /\ balance'[doc[r].user] = balance[doc[r].user] - doc[r].amount
          /\ \A v \in Users \ {doc[r].user} : balance'[v] = balance[v]
          /\ doc[r].user \in Users /\ doc[r].amount \in Nat
  BY <1>1, DocumentFields, BalanceMoves
<1>2. TypeOK'
  BY <1>1, <1>moves DEF Answers
<1>3. NoOverdraft'
  <2> SUFFICES ASSUME NEW u \in Users, balance'[u] < 0
               PROVE  \E q \in hit : doc[q] # None /\ doc[q].user = u /\ doc[q].id # q
    BY <1>1 DEF NoOverdraft
  <2>1. CASE u = doc[r].user
    BY <1>1, <2>1, NoneAssumption
  <2>2. CASE u # doc[r].user
    BY <1>1, <1>moves, <2>2 DEF NoOverdraft
  <2> QED BY <2>1, <2>2
<1>4. /\ DocsInv' /\ CreatorsInv' /\ HandsInv'
      /\ AcceptedInv' /\ HitInv' /\ OneSubscriptionPerFund'
  BY <1>1, LabelStep DEF Labels, Answers, Subscribing, Cancelling,
     Holding, PastInsert, Faulty, Compensating
<1> QED BY <1>2, <1>3, <1>4

LEMMA AuditStep ==
    ASSUME IInv, NEW r \in Requests, Audit(r) \/ AuditCancel(r)
    PROVE  IInv'
<1> USE DEF IInv, TypeOK
<1> DEFINE type == IF pc[r] = "audit" THEN "OPEN" ELSE "CANCEL"
<1>1. /\ pc[r] \in {"audit", "audit_cancel"} /\ doc[r] \in Documents
      /\ pc[r] = "audit" <=> doc[r].id = r
      /\ transactions' = transactions \cup {Row(type, doc[r])}
      /\ UNCHANGED <<balance, subscriptions, active, doc>>
  BY DEF Audit, AuditCancel, DocsInv, Busy, Subscribing, Cancelling
<1>2. PICK l \in {"ok", "delete", "reinsert_debit"} :
        /\ pc' = [pc EXCEPT ![r] = l]
        /\ \/ l = "ok" /\ hit' = hit
           \/ l = "delete" /\ pc[r] = "audit" /\ hit' = hit \cup {r}
           \/ l = "reinsert_debit" /\ pc[r] = "audit_cancel" /\ hit' = hit \cup {r}
  BY <1>1, ReturnsCases DEF Audit, AuditCancel, AfterFailure, Labels, Subscribing,
     Cancelling, Answers
<1>3. TypeOK'
  BY <1>1, <1>2 DEF Row, Rows, Subscribing, Cancelling, Answers
<1>4. NoOverdraft'
  BY <1>1, <1>2, OverdraftStep DEF NotOverdrawn
<1>5. RowOf(r) \in transactions'
  BY <1>1 DEF RowOf
<1>6. /\ DocsInv' /\ CreatorsInv' /\ HandsInv'
      /\ AcceptedInv' /\ HitInv' /\ OneSubscriptionPerFund'
  BY <1>1, <1>2, <1>5, LabelStep DEF Labels, Answers, Subscribing, Cancelling,
     Holding, PastInsert, Faulty, Compensating
<1> QED BY <1>3, <1>4, <1>6

(* An insert: nobody can hold the new document yet.                        *)
LEMMA InsertStep ==
    ASSUME IInv, NEW r \in Requests, Insert(r)
    PROVE  IInv'
<1> USE DEF IInv, TypeOK
<1> DEFINE d == doc[r]
<1>1. /\ pc[r] = "insert" /\ d \in Documents /\ d.id = r /\ CanInsert(d)
      /\ subscriptions' = subscriptions \cup {d}
      /\ UNCHANGED <<balance, transactions, active, doc>>
  BY DEF Insert, DocsInv, Busy, Subscribing
<1>2. PICK l \in {"audit", "refund"} :
        /\ pc' = [pc EXCEPT ![r] = l]
        /\ \/ l = "audit" /\ hit' = hit
           \/ hit' = hit \cup {r}
  BY <1>1, ReturnsCases DEF Insert, AfterFailure, Labels, Subscribing, Answers
<1>3. TypeOK' /\ NoOverdraft'
  BY <1>1, <1>2, OverdraftStep DEF NotOverdrawn, Subscribing
<1>4. DocsInv' /\ HitInv'
  BY <1>1, <1>2 DEF DocsInv, HitInv, Busy, Subscribing, Cancelling, Faulty, Compensating
<1>5. ASSUME NEW e \in Documents, Created(e) PROVE e # d /\ Created(e)'
  BY <1>1, <1>2, <1>5 DEF Created, Documents, PastInsert
<1>6. Created(d)'
  BY <1>1, <1>2 DEF Created, PastInsert
<1>7. \A q \in Requests :
        /\ Held(q)' = Held(q)
        /\ Held(q) => doc[q] \in Documents
        /\ pc'[q] \in Holding => pc[q] \in Holding
  BY <1>1, <1>2 DEF Held, Holding, DocsInv, Busy, Cancelling
<1>8. CreatorsInv'
  BY <1>1, <1>5, <1>6, <1>7 DEF CreatorsInv
<1>9. HandsInv'
  BY <1>1, <1>5, <1>7 DEF HandsInv, CreatorsInv
<1>10. AcceptedInv'
  BY <1>1, <1>2 DEF AcceptedInv, Placed, RowOf
<1>11. OneSubscriptionPerFund'
  BY <1>1 DEF OneSubscriptionPerFund, CanInsert
<1> QED BY <1>3, <1>4, <1>8, <1>9, <1>10, <1>11

(* The compensation of a subscribe deletes its own document at most.       *)
LEMMA DeleteStep ==
    ASSUME IInv, NEW r \in Requests, Delete(r)
    PROVE  IInv'
<1> USE DEF IInv, TypeOK
<1>1. /\ pc[r] = "delete" /\ doc[r] \in Documents /\ r \in hit
      /\ pc' = [pc EXCEPT ![r] = "refund"]
      /\ subscriptions' = {d \in subscriptions : d.id # r}
      /\ UNCHANGED <<balance, transactions, active, doc, hit>>
  BY DEF Delete, Goto, DocsInv, HitInv, Busy, Subscribing, Faulty, Compensating
<1>2. TypeOK' /\ NoOverdraft'
  BY <1>1, OverdraftStep DEF NotOverdrawn, Subscribing
<1>3. DocsInv' /\ HitInv'
  BY <1>1 DEF DocsInv, HitInv, Busy, Subscribing, Cancelling, Faulty, Compensating
<1>4. ASSUME NEW e \in Documents, Created(e) PROVE Created(e)'
  BY <1>1, <1>4 DEF Created, Documents, PastInsert
<1>5. \A q \in Requests :
        /\ Held(q)' = Held(q)
        /\ Held(q) => doc[q] \in Documents
        /\ pc'[q] \in Holding => pc[q] \in Holding
  BY <1>1 DEF Held, Holding, DocsInv, Busy, Cancelling
<1>6. CreatorsInv' /\ HandsInv'
  BY <1>1, <1>4, <1>5 DEF CreatorsInv, HandsInv
<1>7. AcceptedInv'
  BY <1>1 DEF AcceptedInv, Placed, RowOf
<1>8. OneSubscriptionPerFund'
  BY <1>1 DEF OneSubscriptionPerFund
<1> QED BY <1>2, <1>3, <1>6, <1>7, <1>8

(* find_one_and_delete: the document leaves the collection as the request  *)
(* gets it, so it is still in one place.                                   *)
LEMMA TakeStep ==
    ASSUME IInv, NEW r \in Requests, Take(r)
    PROVE  IInv'
<1> USE DEF IInv, TypeOK
<1>1. PICK u \in Users, s \in Requests : \E d \in Matches(u, s) :
         /\ subscriptions' = subscriptions \ {d}
         /\ doc' = [doc EXCEPT ![r] = d]
  BY DEF Take
<1>2. PICK d \in subscriptions :
         /\ subscriptions' = subscriptions \ {d}
         /\ doc' = [doc EXCEPT ![r] = d]
  BY <1>1 DEF Matches
<1>3. /\ pc[r] = "idle" /\ doc[r] = None /\ r \notin hit /\ d \in Documents
      /\ Created(d) /\ d.id # r /\ d # None
      /\ UNCHANGED <<balance, transactions, active>>
  BY DocumentFields DEF Take, DocsInv, HitInv, CreatorsInv, Created, PastInsert
<1>4. PICK l \in {"credit", "failed"} :
        /\ pc' = [pc EXCEPT ![r] = l]
        /\ hit' = hit \/ hit' = hit \cup {r}
  BY <1>3, ReturnsCases DEF Take, AfterFailure, Labels, Cancelling, Answers
<1>5. TypeOK' /\ NoOverdraft'
  BY <1>2, <1>3, <1>4, OverdraftStep DEF NotOverdrawn, Cancelling, Answers
<1>6. DocsInv' /\ HitInv'
  BY <1>2, <1>3, <1>4 DEF DocsInv, HitInv, Busy, Subscribing, Cancelling, Faulty, Compensating
<1>7. ASSUME NEW e \in Documents, Created(e) PROVE Created(e)'
  BY <1>2, <1>3, <1>4, <1>7 DEF Created, Documents, PastInsert
<1>8. /\ Held(r)' => doc'[r] = d
      /\ \A q \in Requests \ {r} :
           Held(q)' = Held(q) /\ doc'[q] = doc[q] /\ (Held(q) => doc[q] \in Documents)
      /\ \A q \in Requests \ {r} : pc'[q] = pc[q]
      /\ ~Held(r)
  BY <1>2, <1>3, <1>4 DEF Held, Holding, DocsInv, Busy, Cancelling
<1>9. CreatorsInv'
  BY <1>2, <1>3, <1>7, <1>8 DEF CreatorsInv
<1>10. HandsInv'
  <2>1. ASSUME NEW q \in Requests, Held(q)' PROVE doc'[q] \notin subscriptions'
    BY <1>2, <1>8, <2>1 DEF HandsInv
  <2>2. ASSUME NEW q \in Requests \ {r}, Held(q) PROVE doc'[q] # d
    BY <1>2, <1>8, <2>2 DEF HandsInv
  <2>3. \A q \in Requests \ {r} : pc[q] \in Holding => Held(q)
    BY DEF Held, Holding, DocsInv, Cancelling
  <2>4. doc'[r] = d
    BY <1>2, <1>3
  <2>5. ASSUME NEW p \in Requests, NEW q \in Requests, Held(p)',
               pc'[q] \in Holding, doc'[q] = doc'[p]
        PROVE  q = p
    BY <1>8, <2>2, <2>3, <2>4, <2>5 DEF HandsInv
  <2> QED BY <2>1, <2>5 DEF HandsInv
<1>11. AcceptedInv'
  <2> SUFFICES ASSUME NEW q \in Requests, pc'[q] \in {"audit", "ok"}
               PROVE  /\ doc'[q].id = q => Placed(q)'
                      /\ pc'[q] = "ok" => RowOf(q)' \in transactions'
    BY DEF AcceptedInv
  <2>1. q # r /\ doc'[q] = doc[q] /\ doc[q] \in Documents /\ doc[q] # None
    BY <1>2, <1>3, <1>4, DocumentFields DEF DocsInv, Busy, Subscribing
  <2>2. Placed(q) => Placed(q)'
    BY <1>2, <1>3, <2>1 DEF Placed
  <2>3. RowOf(q)' = RowOf(q)
    BY <2>1 DEF RowOf
  <2> QED BY <1>2, <1>3, <1>4, <2>1, <2>2, <2>3 DEF AcceptedInv
<1>12. OneSubscriptionPerFund'
  BY <1>2 DEF OneSubscriptionPerFund
<1> QED BY <1>5, <1>6, <1>9, <1>10, <1>11, <1>12

(* The compensation of a cancel puts back a document only it holds, and    *)
(* lets go of it.                                                          *)
LEMMA ReinsertStep ==
    ASSUME IInv, NEW r \in Requests, Reinsert(r)
    PROVE  IInv'
<1> USE DEF IInv, TypeOK
<1> DEFINE d == doc[r]
<1>1. /\ pc[r] \in {"reinsert", "reinsert_debit"} /\ r \in hit
      /\ d \in Documents /\ d.id # r /\ Held(r) /\ pc[r] \in Holding
      /\ subscriptions' = IF CanInsert(d) THEN subscriptions \cup {d} ELSE subscriptions
      /\ UNCHANGED <<balance, transactions, active, doc, hit>>
  BY DEF Reinsert, DocsInv, HitInv, Held, Holding, Busy, Cancelling, Faulty, Compensating
<1>2. PICK l \in {"failed", "debit_back"} : pc' = [pc EXCEPT ![r] = l]
  BY DEF Reinsert, Goto
<1>3. TypeOK' /\ NoOverdraft'
  BY <1>1, <1>2, OverdraftStep DEF NotOverdrawn, Cancelling, Answers
<1>4. DocsInv' /\ HitInv'
  BY <1>1, <1>2 DEF DocsInv, HitInv, Busy, Subscribing, Cancelling, Faulty, Compensating
<1>5. ASSUME NEW e \in Documents, Created(e) PROVE Created(e)'
  BY <1>1, <1>2, <1>5 DEF Created, Documents, PastInsert
<1>6. \A q \in Requests :
        /\ Held(q)' => Held(q) /\ q # r
        /\ Held(q) => doc[q] \in Documents
        /\ pc'[q] \in Holding => pc[q] \in Holding
  BY <1>1, <1>2 DEF Held, Holding, DocsInv, Busy, Cancelling
<1>7. CreatorsInv'
  BY <1>1, <1>5, <1>6 DEF CreatorsInv
<1>8. HandsInv'
  BY <1>1, <1>6 DEF HandsInv
<1>9. AcceptedInv'
  BY <1>1, <1>2 DEF AcceptedInv, Placed, RowOf
<1>10. OneSubscriptionPerFund'
  BY <1>1 DEF OneSubscriptionPerFund, CanInsert
<1> QED BY <1>3, <1>4, <1>7, <1>8, <1>9, <1>10

LEMMA CrashStep ==
    ASSUME IInv, Crash
    PROVE  IInv'
<1> USE DEF IInv, TypeOK
<1>1. /\ hit' = hit \cup InFlight /\ InFlight \subseteq Requests /\ InFlight # {}
      /\ pc' = [r \in Requests |-> IF r \in InFlight THEN "crashed" ELSE pc[r]]
      /\ UNCHANGED <<balance, subscriptions, transactions, active, doc>>
  BY DEF Crash, InFlight
<1>2. \A q \in Requests : \/ pc'[q] = pc[q] /\ pc[q] \notin Busy
                          \/ pc'[q] = "crashed" /\ pc[q] \in Busy /\ q \in hit'
  BY <1>1 DEF InFlight, Busy
<1>3. TypeOK' /\ NoOverdraft'
  BY <1>1, OverdraftStep DEF NotOverdrawn, Answers
<1>4. DocsInv' /\ HitInv'
  BY <1>1, <1>2 DEF DocsInv, HitInv, InFlight, Busy, Subscribing, Cancelling, Faulty, Compensating
<1>5. ASSUME NEW e \in Documents, Created(e) PROVE Created(e)'
  BY <1>1, <1>2, <1>5 DEF Created, Documents, PastInsert
<1>6. \A q \in Requests :
        /\ Held(q)' => Held(q)
        /\ Held(q) => doc[q] \in Documents
        /\ pc'[q] \notin Holding
  BY <1>1, <1>2 DEF Held, Holding, DocsInv, Busy, Cancelling
<1>7. CreatorsInv' /\ HandsInv'
  BY <1>1, <1>5, <1>6 DEF CreatorsInv, HandsInv
<1>8. AcceptedInv'
  BY <1>1, <1>2 DEF AcceptedInv, Placed, RowOf
<1>9. OneSubscriptionPerFund'
  BY <1>1 DEF OneSubscriptionPerFund
<1> QED BY <1>3, <1>4, <1>7, <1>8, <1>9

(* Retiring a fund, and a step that changes nothing.                       *)
LEMMA UnchangedStep ==
    ASSUME IInv, active' \subseteq active,
           UNCHANGED <<balance, subscriptions, transactions, pc, doc, hit>>
    PROVE  IInv'
<1> USE DEF IInv
<1>1. TypeOK'
  BY DEF TypeOK
<1>2. DocsInv' /\ HitInv' /\ NoOverdraft' /\ OneSubscriptionPerFund'
  BY DEF DocsInv, HitInv, NoOverdraft, OneSubscriptionPerFund
<1>3. CreatorsInv' /\ HandsInv'
  BY DEF CreatorsInv, HandsInv, Created, Held
<1>4. AcceptedInv'
  BY DEF AcceptedInv, Placed, RowOf
<1> QED BY <1>1, <1>2, <1>3, <1>4

----------------------------------------------------------------------------
(* Steps that the fallback does not take: a whole subscribe, or a whole    *)
(* cancel, as a transaction of another request commits it.  What is proved *)
(* below holds in their presence as well, for a cluster that serves some   *)
(* requests with transactions (SubscriptionsTxnProofs).                    *)
ServedOpen(r, d) ==
    /\ d.id = r /\ d.amount >= Minimum[d.fund]
    /\ CanInsert(d) /\ CanDebit(d.user, d.amount)
    /\ Debited(d.user, d.amount)
    /\ subscriptions' = subscriptions \cup {d}
    /\ transactions' = transactions \cup {Row("OPEN", d)}

ServedClose(d) ==
    /\ d \in subscriptions
    /\ Credited(d.user, d.amount)
    /\ subscriptions' = subscriptions \ {d}
    /\ transactions' = transactions \cup {Row("CANCEL", d)}

Served(r) ==
    /\ pc[r] = "idle"
    /\ \E d \in Documents : /\ ServedOpen(r, d) \/ ServedClose(d)
                            /\ doc' = [doc EXCEPT ![r] = d]
    /\ pc' = [pc EXCEPT ![r] = "ok"]
    /\ UNCHANGED <<active, hit>>

WideNext == Next \/ \E r \in Requests : Served(r)

WideSpec == Init /\ [][WideNext]_vars

LEMMA SpecIsWide == Spec => WideSpec
<1>1. [Next]_vars => [WideNext]_vars
  BY DEF WideNext
<1> QED BY <1>1, PTL DEF Spec, WideSpec

(* A served request is one that has just come, with a document of its own  *)
(* that is nowhere, or one that is stored.                                 *)
LEMMA ServedCases ==
    ASSUME IInv, NEW r \in Requests, Served(r)
    PROVE  \E d \in Documents :
             /\ pc[r] = "idle" /\ doc[r] = None /\ r \notin hit /\ ~Held(r) /\ d # None
             /\ pc' = [pc EXCEPT ![r] = "ok"] /\ doc' = [doc EXCEPT ![r] = d]
             /\ pc'[r] = "ok" /\ doc'[r] = d
             /\ \A q \in Requests \ {r} : pc'[q] = pc[q] /\ doc'[q] = doc[q]
             /\ UNCHANGED <<active, hit>>
             /\ \/ ServedOpen(r, d) /\ d \notin subscriptions
                \/ ServedClose(d) /\ d.id # r /\ Created(d)
<1> USE DEF IInv, TypeOK
<1>1. PICK d \in Documents : /\ ServedOpen(r, d) \/ ServedClose(d)
                             /\ doc' = [doc EXCEPT ![r] = d]
  BY DEF Served
<1>2. /\ pc[r] = "idle" /\ doc[r] = None /\ r \notin hit /\ ~Held(r) /\ d # None
      /\ pc' = [pc EXCEPT ![r] = "ok"] /\ UNCHANGED <<active, hit>>
  BY DocumentFields DEF Served, DocsInv, HitInv, Held, Holding
<1>3. /\ pc'[r] = "ok" /\ doc'[r] = d
      /\ \A q \in Requests \ {r} : pc'[q] = pc[q] /\ doc'[q] = doc[q]
  BY <1>1, <1>2
<1>4. ServedOpen(r, d) => d \notin subscriptions
  BY DEF ServedOpen, CanInsert
<1>5. ServedClose(d) => d.id # r /\ Created(d)
  BY <1>2 DEF ServedClose, CreatorsInv, Created, PastInsert
<1> QED BY <1>1, <1>2, <1>3, <1>4, <1>5

(* Whatever a served request does, nobody else's documents move.           *)
LEMMA ServedStep ==
    ASSUME IInv, NEW r \in Requests, Served(r)
    PROVE  IInv'
<1> USE DEF IInv, TypeOK
<1>1. PICK d \in Documents :
        /\ pc[r] = "idle" /\ doc[r] = None /\ r \notin hit /\ ~Held(r) /\ d # None
        /\ pc' = [pc EXCEPT ![r] = "ok"] /\ doc' = [doc EXCEPT ![r] = d]
        /\ pc'[r] = "ok" /\ doc'[r] = d
        /\ \A q \in Requests \ {r} : pc'[q] = pc[q] /\ doc'[q] = doc[q]
        /\ UNCHANGED <<active, hit>>
        /\ \/ ServedOpen(r, d) /\ d \notin subscriptions
           \/ ServedClose(d) /\ d.id # r /\ Created(d)
  BY ServedCases
<1>2. /\ d.user \in Users /\ d.amount \in Nat /\ d.id \in Requests
      /\ transactions \subseteq transactions' /\ RowOf(r)' \in transactions'
  BY <1>1, DocumentFields DEF ServedOpen, ServedClose, RowOf
<1>3. TypeOK' /\ NoOverdraft'
  <2>1. balance' \in [Users -> Int] /\ NotOverdrawn
    BY <1>1, <1>2, BalanceMoves DEF ServedOpen, ServedClose
  <2>2. subscriptions' \subseteq Documents /\ transactions' \subseteq Rows
    BY <1>1 DEF ServedOpen, ServedClose, Row, Rows
  <2>3. NoOverdraft'
    BY <1>1, <2>1, OverdraftStep
  <2> QED BY <1>1, <2>1, <2>2, <2>3 DEF Answers
<1>4. DocsInv' /\ HitInv'
  BY <1>1 DEF DocsInv, HitInv, Busy, Subscribing, Cancelling, Faulty, Compensating
<1>5. ASSUME NEW e \in Documents, Created(e) PROVE Created(e)'
  BY <1>1, <1>5 DEF Created, Documents, PastInsert
<1>6. ServedOpen(r, d) => Created(d)'
  BY <1>1 DEF ServedOpen, Created, PastInsert
<1>7. /\ Held(r)' => doc'[r] = d /\ ServedClose(d) /\ Created(d)
      /\ \A q \in Requests \ {r} :
           Held(q)' = Held(q) /\ (Held(q) => doc[q] \in Documents)
  BY <1>1 DEF ServedOpen, Held, Holding, DocsInv, Busy, Cancelling
<1>8. CreatorsInv'
  <2>1. ASSUME NEW e \in subscriptions' PROVE Created(e)'
    BY <1>1, <1>5, <1>6, <2>1 DEF ServedOpen, ServedClose, CreatorsInv
  <2>2. ASSUME NEW q \in Requests, Held(q)' PROVE Created(doc[q])' 
    BY <1>1, <1>5, <1>7, <2>2 DEF CreatorsInv
  <2> QED BY <2>1, <2>2 DEF CreatorsInv, Created
<1>9. HandsInv'
  <2>1. ASSUME NEW q \in Requests \ {r}, Held(q) PROVE doc[q] # d
    BY <1>1, <1>7, <2>1 DEF ServedOpen, ServedClose, HandsInv, CreatorsInv, Created, PastInsert
  <2>2. ASSUME NEW q \in Requests, Held(q)' PROVE doc'[q] \notin subscriptions'
    BY <1>1, <1>7, <2>1, <2>2 DEF ServedOpen, ServedClose, HandsInv
  <2>3. \A q \in Requests : pc'[q] \in Holding => Held(q) /\ q # r /\ pc[q] \in Holding
    BY <1>1 DEF Held, Holding, DocsInv, Cancelling
  <2> QED BY <1>1, <1>7, <2>1, <2>2, <2>3 DEF HandsInv
<1>10. AcceptedInv'
  <2> SUFFICES ASSUME NEW q \in Requests, pc'[q] \in {"audit", "ok"}
               PROVE  /\ doc'[q].id = q => Placed(q)'
                      /\ pc'[q] = "ok" => RowOf(q)' \in transactions'
    BY DEF AcceptedInv
  <2>1. CASE q = r
    BY <1>1, <1>2, <2>1 DEF ServedOpen, Placed
  <2>2. CASE q # r
    <3>1. pc[q] = pc'[q] /\ doc[q] = doc'[q] /\ doc[q] # None
      BY <1>1, <2>2, DocumentFields DEF DocsInv, Busy, Subscribing
    <3>2. Placed(q) => Placed(q)'
      <4>1. ASSUME NEW p \in Requests \ {q}, doc[p] = doc[q] PROVE doc'[p] = doc'[q]
        BY <1>1, <3>1, <4>1
      <4>2. ASSUME doc[q] \in subscriptions
            PROVE  doc'[q] \in subscriptions' \/ doc'[r] = doc'[q]
        BY <1>1, <3>1, <4>2 DEF ServedOpen, ServedClose
      <4> QED BY <2>2, <4>1, <4>2 DEF Placed
    <3>3. RowOf(q)' = RowOf(q)
      BY <3>1 DEF RowOf
    <3> QED BY <1>2, <3>1, <3>2, <3>3 DEF AcceptedInv
  <2> QED BY <2>1, <2>2
<1>11. OneSubscriptionPerFund'
  BY <1>1 DEF ServedOpen, ServedClose, OneSubscriptionPerFund, CanInsert
<1> QED BY <1>3, <1>4, <1>8, <1>9, <1>10, <1>11

----------------------------------------------------------------------------
(* Every step keeps the invariant.                                         *)
LEMMA NextIInv == IInv /\ [WideNext]_vars => IInv'
<1> SUFFICES ASSUME IInv, [WideNext]_vars PROVE IInv'
  OBVIOUS
<1>1. ASSUME NEW r \in Requests,
             Lookup(r) \/ Take(r) \/ NotFound(r) \/ Continue(r) \/ Refused(r)
      PROVE  IInv'
  BY <1>1, LookupStep, TakeStep, ReadStep, RefusedStep, DebitStep, InsertStep,
     AuditStep, DeleteStep, RefundStep, CreditStep, ReinsertStep, DebitBackStep
     DEF Continue
<1>2. ASSUME NEW f \in Funds, SoftDelete(f) PROVE IInv'
  BY <1>2, UnchangedStep DEF SoftDelete
<1>3. CASE Crash
  BY <1>3, CrashStep
<1>4. CASE UNCHANGED vars
  BY <1>4, UnchangedStep DEF vars
<1> QED BY <1>1, <1>2, <1>3, <1>4, ServedStep DEF Next, WideNext

LEMMA Invariance == WideSpec => []IInv
BY InitIInv, NextIInv, PTL DEF WideSpec

(* A logged document was created by a request that has come.               *)
LogIsPast == \A row \in transactions : pc[row.doc.id] # "idle"

LEMMA NextLogIsPast == IInv /\ LogIsPast /\ [WideNext]_vars => LogIsPast'
<1> SUFFICES ASSUME IInv, LogIsPast, [WideNext]_vars PROVE LogIsPast'
  OBVIOUS
<1>1. ASSUME NEW q \in Requests, pc[q] # "idle" PROVE pc'[q] # "idle"
  <2>1. CASE Crash \/ UNCHANGED vars \/ \E f \in Funds : SoftDelete(f)
    BY <1>1, <2>1 DEF Crash, vars, SoftDelete
  <2>2. ASSUME NEW r \in Requests,
               \/ Lookup(r) \/ Take(r) \/ NotFound(r) \/ Continue(r) \/ Refused(r)
               \/ Served(r)
        PROVE  pc'[q] # "idle"
    <3>1. AfterFailure(pc[r]) # "idle"
      BY DEF AfterFailure
    <3>2. \E l : l # "idle" /\ pc' = [pc EXCEPT ![r] = l]
      BY <2>2, <3>1 DEF Lookup, Take, NotFound, Continue, Check, Debit, Insufficient, Insert,
         Duplicate, Audit, Delete, Refund, Credit, AuditCancel, Reinsert, DebitBack, Refused,
         Served, Returns, Goto
    <3> QED BY <1>1, <3>2 DEF IInv, TypeOK
  <2> QED BY <2>1, <2>2 DEF WideNext, Next
<1>2. ASSUME NEW row \in transactions, row \in Rows PROVE pc'[row.doc.id] # "idle"
  BY <1>1, <1>2, DocumentFields DEF LogIsPast, Rows
<1>3. CASE UNCHANGED transactions
  BY <1>2, <1>3 DEF LogIsPast, IInv, TypeOK
<1>4. ASSUME NEW r \in Requests, Audit(r) \/ AuditCancel(r) PROVE LogIsPast'
  <2>1. PICK type : transactions' = transactions \cup {Row(type, doc[r])}
    BY <1>4 DEF Audit, AuditCancel
  <2>2. Row(type, doc[r]).doc = doc[r]
    BY DEF Row
  <2>3. doc[r].id \in Requests /\ pc[doc[r].id] # "idle"
    <3>1. doc[r] \in Documents /\ (doc[r].id = r \/ Held(r))
      BY <1>4 DEF Audit, AuditCancel, IInv, DocsInv, Held, Holding, Busy, Subscribing,
         Cancelling
    <3>2. CASE Held(r)
      BY <3>1, <3>2, DocumentFields DEF IInv, CreatorsInv, Created, PastInsert
    <3>3. CASE doc[r].id = r
      BY <1>4, <3>3 DEF Audit, AuditCancel
    <3> QED BY <3>1, <3>2, <3>3
  <2>4. pc'[doc[r].id] # "idle"
    BY <1>1, <2>3
  <2>5. pc'[Row(type, doc[r]).doc.id] # "idle"
    BY <2>2, <2>4
  <2> HIDE DEF Row
  <2> QED BY <1>2, <2>1, <2>5 DEF LogIsPast, IInv, TypeOK
<1>5. ASSUME NEW r \in Requests, Served(r) PROVE LogIsPast'
  <2>1. PICK d \in Documents :
          /\ pc'[r] = "ok"
          /\ ServedOpen(r, d) \/ (ServedClose(d) /\ Created(d))
    BY <1>5, ServedCases
  <2>2. PICK type : transactions' = transactions \cup {Row(type, d)}
    BY <2>1 DEF ServedOpen, ServedClose
  <2>3. Row(type, d).doc = d
    BY DEF Row
  <2>4. pc'[d.id] # "idle"
    BY <1>1, <2>1, DocumentFields DEF ServedOpen, Created, PastInsert
  <2>5. pc'[Row(type, d).doc.id] # "idle"
    BY <2>3, <2>4
  <2> HIDE DEF Row
  <2> QED BY <1>2, <2>2, <2>5 DEF LogIsPast, IInv, TypeOK
<1> QED BY <1>3, <1>4, <1>5 DEF WideNext, Next, Continue, Lookup, Take, NotFound, Check, Debit,
    Insufficient, Insert, Duplicate, Delete, Refund, Credit, Reinsert, DebitBack, Refused,
    SoftDelete, Crash, vars

(* Type correctness: in particular a balance stays an integer per user and *)
(* every busy request stays at a call of the code.                         *)
THEOREM TypeCorrect == Spec => []TypeOK
<1>1. IInv => TypeOK
  BY DEF IInv
<1> QED BY <1>1, Invariance, SpecIsWide, PTL

(* The unique index is never got round, not even by the reinsertion that   *)
(* compensates a cancel: one subscription per user and fund.               *)
THEOREM OnePerFund == Spec => []OneSubscriptionPerFund
<1>1. IInv => OneSubscriptionPerFund
  BY DEF IInv
<1> QED BY <1>1, Invariance, SpecIsWide, PTL

LEMMA FinalInv == IInv => CancelIsFinal
<1> SUFFICES ASSUME IInv, NEW r \in Requests, pc[r] = "ok", doc[r].id # r
             PROVE  /\ doc[r] \notin subscriptions
                    /\ \A q \in Requests \ {r} : doc[q] = doc[r] =>
                         \/ pc[q] \in Answers \cup {"audit"}
                         \/ q \in hit /\ pc[q] \in {"delete", "refund", "debit_back"}
  BY DEF CancelIsFinal
<1>1. Held(r) /\ doc[r] \in Documents /\ doc[r] # None /\ Created(doc[r])
  BY DocumentFields DEF IInv, DocsInv, CreatorsInv, Held
<1>2. doc[r] \notin subscriptions
  BY <1>1 DEF IInv, HandsInv
<1>3. ASSUME NEW q \in Requests \ {r}, doc[q] = doc[r]
      PROVE  \/ pc[q] \in Answers \cup {"audit"}
             \/ q \in hit /\ pc[q] \in {"delete", "refund", "debit_back"}
  <2>1. pc[q] \notin Holding /\ pc[q] # "idle"
    BY <1>1, <1>3 DEF IInv, HandsInv, DocsInv
  <2>2. CASE pc[q] \in Subscribing
    BY <1>1, <1>3, <2>2 DEF IInv, DocsInv, Created, PastInsert, Subscribing
  <2>3. CASE pc[q] = "debit_back"
    BY <2>3 DEF IInv, HitInv, Faulty, Compensating
  <2> QED BY <2>1, <2>2, <2>3 DEF IInv, TypeOK, Holding, Cancelling
<1> QED BY <1>2, <1>3

(* A cancel answered with success is final, whatever the other requests    *)
(* and the faults: its subscription is not stored again and no other       *)
(* cancel holds it.  Only the compensation of a request that a fault hit   *)
(* may still move its money.                                               *)
THEOREM CancelStaysFinal == Spec => []CancelIsFinal
BY FinalInv, Invariance, SpecIsWide, PTL

(* A success answer comes with its audit row, and with a stored            *)
(* subscription unless another request took it.                            *)
THEOREM AnswersAreReal == Spec => []AcceptedIsReal
<1>1. IInv => AcceptedIsReal
  BY DEF IInv, AcceptedInv, Placed, RowOf, AcceptedIsReal
<1> QED BY <1>1, Invariance, SpecIsWide, PTL

(* The $gte matcher of the debit protects the balance from every           *)
(* interleaving; only a faulty cancel's compensation can overdraw it.      *)
THEOREM NeverOverdrawn == Spec => []NoOverdraft
<1>1. IInv => NoOverdraft
  BY DEF IInv
<1> QED BY <1>1, Invariance, SpecIsWide, PTL

----------------------------------------------------------------------------
(* Double entry: the effect of each action on the documents paid for.      *)

Paying == {"insert", "refund", "credit"}

LEMMA Paid ==
    \A d : d \in OutOfWallet <=>
             d \in subscriptions \/ \E r \in Requests : pc[r] \in Paying /\ doc[r] = d
BY DEF OutOfWallet, InHand, At, Paying

LEMMA PaidNext ==
    \A d : d \in OutOfWallet' <=>
             d \in subscriptions' \/ \E r \in Requests : pc'[r] \in Paying /\ doc'[r] = d
BY DEF OutOfWallet, InHand, At, Paying

(* Without a fault, a document being paid for or paid back is in the hands *)
(* of one request only, and not stored.                                    *)
LEMMA InOneHand ==
    ASSUME IInv, hit = {}, NEW r \in Requests, pc[r] \in {"debit", "refund", "credit"}
    PROVE  /\ doc[r] \in Documents
           /\ doc[r] \notin subscriptions
           /\ \A q \in Requests \ {r} : pc[q] \in Paying => doc[q] # doc[r]
<1> USE DEF IInv
<1>1. doc[r] \in Documents
  BY DEF DocsInv, Busy, Subscribing, Cancelling
<1>2. \A q \in Requests : pc[q] = "credit" => Held(q) /\ Created(doc[q])
  BY DEF DocsInv, CreatorsInv, Held, Holding, Cancelling
<1>3. \A q \in Requests : pc[q] \in {"debit", "insert", "refund"} => doc[q].id = q
  BY DEF DocsInv, Subscribing
<1>4. doc[r] \notin subscriptions
  BY <1>2, <1>3 DEF CreatorsInv, Created, HandsInv
<1>5. ASSUME NEW q \in Requests \ {r}, pc[q] \in Paying, doc[q] = doc[r]
      PROVE  FALSE
  BY <1>2, <1>3, <1>5 DEF Paying, Created, HandsInv, Holding
<1> QED BY <1>1, <1>4, <1>5

(* The three ways a step may treat the documents paid for.                 *)
LEMMA Stays ==
    ASSUME OutOfWallet' = OutOfWallet, UNCHANGED balance
    PROVE  \A u \in Users : Moved(u)
BY DEF Moved

LEMMA Enters ==
    ASSUME TypeOK, NEW d \in Documents, d \notin OutOfWallet,
           OutOfWallet' = OutOfWallet \cup {d}, Debited(d.user, d.amount)
    PROVE  \A u \in Users : Moved(u)
<1> SUFFICES ASSUME NEW u \in Users PROVE Moved(u)
  OBVIOUS
<1> DEFINE out == {e \in OutOfWallet : e.user = u}
           outnext == {e \in OutOfWallet' : e.user = u}
<1>1. /\ balance'[d.user] = balance[d.user] - d.amount
      /\ \A v \in Users \ {d.user} : balance'[v] = balance[v]
  BY DocumentFields, BalanceMoves DEF TypeOK
<1>2. CASE d.user = u
  <2>1. d \in outnext \ out /\ outnext = out \cup {d}
    BY <1>2
  <2> QED BY <1>1, <1>2, <2>1 DEF Moved
<1>3. CASE d.user # u
  <2>1. outnext = out
    BY <1>3
  <2> QED BY <1>1, <1>3, <2>1 DEF Moved
<1> QED BY <1>2, <1>3

LEMMA Leaves ==
    ASSUME TypeOK, NEW d \in Documents, d \in OutOfWallet,
           OutOfWallet' = OutOfWallet \ {d}, Credited(d.user, d.amount)
    PROVE  \A u \in Users : Moved(u)
<1> SUFFICES ASSUME NEW u \in Users PROVE Moved(u)
  OBVIOUS
<1> DEFINE out == {e \in OutOfWallet : e.user = u}
           outnext == {e \in OutOfWallet' : e.user = u}
<1>1. /\ balance'[d.user] = balance[d.user] + d.amount
      /\ \A v \in Users \ {d.user} : balance'[v] = balance[v]
  BY DocumentFields, BalanceMoves DEF TypeOK
<1>2. CASE d.user = u
  <2>1. d \in out \ outnext /\ outnext = out \ {d}
    BY <1>2
  <2> QED BY <1>1, <1>2, <2>1 DEF Moved
<1>3. CASE d.user # u
  <2>1. outnext = out
    BY <1>3
  <2> QED BY <1>1, <1>3, <2>1 DEF Moved
<1> QED BY <1>2, <1>3

(* The money goes from the wallet into the hands of the request.           *)
LEMMA DebitMoves ==
    ASSUME IInv, hit' = {}, NEW r \in Requests, Debit(r)
    PROVE  \A u \in Users : Moved(u)
<1>1. /\ hit = {} /\ pc[r] = "debit" /\ pc' = [pc EXCEPT ![r] = "insert"]
      /\ Debited(doc[r].user, doc[r].amount)
      /\ UNCHANGED <<subscriptions, doc>>
  BY DEF Debit, Returns, Goto, Fault
<1>2. /\ doc[r] \in Documents
      /\ doc[r] \notin subscriptions
      /\ \A q \in Requests \ {r} : pc[q] \in Paying => doc[q] # doc[r]
  BY <1>1, InOneHand
<1>3. /\ pc[r] \notin Paying /\ pc'[r] \in Paying
      /\ \A q \in Requests \ {r} : pc'[q] = pc[q]
  BY <1>1 DEF IInv, TypeOK, Paying
<1>4. doc[r] \notin OutOfWallet
  BY <1>2, <1>3, Paid
<1>5. OutOfWallet' = OutOfWallet \cup {doc[r]}
  BY <1>1, <1>3, Paid, PaidNext
<1> QED BY <1>1, <1>2, <1>4, <1>5, Enters DEF IInv

(* A refund, or the credit of a cancel, empties the hands of the request.  *)
LEMMA CreditMoves ==
    ASSUME IInv, hit' = {}, NEW r \in Requests, Credit(r) \/ Refund(r)
    PROVE  \A u \in Users : Moved(u)
<1>1. PICK l \in {"audit_cancel", "failed"} :
        /\ hit = {} /\ pc[r] \in {"credit", "refund"} /\ pc' = [pc EXCEPT ![r] = l]
        /\ Credited(doc[r].user, doc[r].amount)
        /\ UNCHANGED <<subscriptions, doc>>
  BY DEF Credit, Refund, Returns, Goto, Fault
<1>2. /\ doc[r] \in Documents
      /\ doc[r] \notin subscriptions
      /\ \A q \in Requests \ {r} : pc[q] \in Paying => doc[q] # doc[r]
  BY <1>1, InOneHand
<1>3. /\ pc'[r] \notin Paying /\ pc[r] \in Paying
      /\ \A q \in Requests \ {r} : pc'[q] = pc[q]
  BY <1>1 DEF IInv, TypeOK, Paying
<1>4. doc[r] \in OutOfWallet
  BY <1>3, Paid
<1>5. OutOfWallet' = OutOfWallet \ {doc[r]}
  BY <1>1, <1>2, <1>3, Paid, PaidNext
<1> QED BY <1>1, <1>2, <1>4, <1>5, Leaves DEF IInv

(* An insert and a cancel's find_one_and_delete hand a document over       *)
(* between the request and the collection; it stays paid for.              *)
LEMMA HandOver ==
    ASSUME IInv, hit' = {}, NEW r \in Requests, Insert(r) \/ Take(r)
    PROVE  \A u \in Users : Moved(u)
<1>1. CASE Insert(r)
  <2>1. /\ pc[r] = "insert" /\ pc' = [pc EXCEPT ![r] = "audit"]
        /\ subscriptions' = subscriptions \cup {doc[r]}
        /\ UNCHANGED <<balance, doc>>
    BY <1>1 DEF Insert, Returns, Goto, Fault
  <2>2. /\ pc[r] \in Paying /\ pc'[r] \notin Paying
        /\ \A q \in Requests \ {r} : pc'[q] = pc[q]
    BY <2>1 DEF IInv, TypeOK, Paying
  <2>3. OutOfWallet' = OutOfWallet
    BY <2>1, <2>2, Paid, PaidNext
  <2> QED BY <2>1, <2>3, Stays
<1>2. CASE Take(r)
  <2>1. PICK u \in Users, s \in Requests : \E d \in Matches(u, s) :
           /\ subscriptions' = subscriptions \ {d}
           /\ doc' = [doc EXCEPT ![r] = d]
    BY <1>2 DEF Take
  <2>2. PICK d \in subscriptions :
           /\ subscriptions' = subscriptions \ {d}
           /\ doc' = [doc EXCEPT ![r] = d]
    BY <2>1 DEF Matches
  <2>3. /\ pc[r] = "idle" /\ pc' = [pc EXCEPT ![r] = "credit"] /\ UNCHANGED balance
    BY <1>2 DEF Take, Returns, Goto, Fault
  <2>4. /\ pc[r] \notin Paying /\ pc'[r] \in Paying /\ doc'[r] = d
        /\ \A q \in Requests \ {r} : pc'[q] = pc[q] /\ doc'[q] = doc[q]
    BY <2>2, <2>3 DEF IInv, TypeOK, Paying
  <2>5. OutOfWallet' = OutOfWallet
    BY <2>2, <2>4, Paid, PaidNext
  <2> QED BY <2>3, <2>5, Stays
<1> QED BY <1>1, <1>2

(* Every other call leaves the documents paid for, and the balances, alone.*)
LEMMA LookupMoves ==
    ASSUME IInv, NEW r \in Requests, Lookup(r)
    PROVE  \A u \in Users : Moved(u)
<1>1. /\ pc[r] = "idle" /\ UNCHANGED <<balance, subscriptions>>
      /\ \E l \in {"check", "rejected"} : pc' = [pc EXCEPT ![r] = l]
      /\ \A q \in Requests \ {r} : doc'[q] = doc[q]
  BY DEF Lookup, Goto, IInv, TypeOK
<1>2. /\ pc[r] \notin Paying /\ pc'[r] \notin Paying
      /\ \A q \in Requests \ {r} : pc'[q] = pc[q]
  BY <1>1 DEF IInv, TypeOK, Paying
<1>3. OutOfWallet' = OutOfWallet
  BY <1>1, <1>2, Paid, PaidNext
<1> QED BY <1>1, <1>3, Stays

LEMMA LabelMoves ==
    ASSUME IInv, hit' = {}, NEW r \in Requests,
           \/ Check(r) \/ Insufficient(r) \/ Duplicate(r) \/ NotFound(r)
           \/ Audit(r) \/ AuditCancel(r)
    PROVE  \A u \in Users : Moved(u)
<1> DEFINE steps == {<<"check", "debit">>, <<"check", "rejected">>,
                     <<"debit", "rejected">>, <<"insert", "refund">>,
                     <<"idle", "rejected">>, <<"audit", "ok">>,
                     <<"audit_cancel", "ok">>}
<1>1. PICK l : <<pc[r], l>> \in steps /\ pc' = [pc EXCEPT ![r] = l]
  BY DEF Check, Insufficient, Duplicate, NotFound, Audit, AuditCancel, Returns,
     Goto, Fault
<1>2. UNCHANGED <<balance, subscriptions, doc>>
  BY DEF Check, Insufficient, Duplicate, NotFound, Audit, AuditCancel
<1>3. \A q \in Requests : pc'[q] \in Paying <=> pc[q] \in Paying
  BY <1>1 DEF IInv, TypeOK, Paying
<1>4. OutOfWallet' = OutOfWallet
  BY <1>2, <1>3, Paid, PaidNext
<1> QED BY <1>2, <1>4, Stays

(* A served request takes the money and stores the document, or the        *)
(* reverse, in one step.                                                   *)
LEMMA ServedMoves ==
    ASSUME IInv, hit' = {}, NEW r \in Requests, Served(r)
    PROVE  \A u \in Users : Moved(u)
<1>1. PICK d \in Documents :
        /\ pc[r] = "idle" /\ pc'[r] = "ok" /\ hit = {}
        /\ \A q \in Requests \ {r} : pc'[q] = pc[q] /\ doc'[q] = doc[q]
        /\ \/ ServedOpen(r, d) /\ d \notin subscriptions
           \/ ServedClose(d) /\ Created(d)
  BY ServedCases
<1>2. pc[r] \notin Paying /\ pc'[r] \notin Paying
  BY <1>1 DEF Paying
<1>3. ASSUME NEW q \in Requests, pc[q] \in Paying PROVE doc[q] # d
  <2>1. pc[q] = "credit" => doc[q] \notin subscriptions /\ Created(doc[q])
    BY DEF IInv, DocsInv, CreatorsInv, HandsInv, Held, Holding, Cancelling
  <2>2. pc[q] # "credit" => doc[q].id = q /\ pc[q] \notin {"audit", "ok"}
    BY <1>3 DEF IInv, DocsInv, Subscribing, Paying
  <2> QED BY <1>1, <1>3, <2>1, <2>2 DEF ServedOpen, ServedClose, Created, PastInsert, Paying
<1>4. CASE ServedOpen(r, d) /\ d \notin subscriptions
  <2>1. d \notin OutOfWallet
    BY <1>3, <1>4, Paid
  <2>2. OutOfWallet' = OutOfWallet \cup {d}
    BY <1>1, <1>2, <1>4, Paid, PaidNext DEF ServedOpen
  <2> QED BY <1>4, <2>1, <2>2, Enters DEF IInv, ServedOpen
<1>5. CASE ServedClose(d)
  <2>1. d \in OutOfWallet
    BY <1>5, Paid DEF ServedClose
  <2>2. OutOfWallet' = OutOfWallet \ {d}
    BY <1>1, <1>2, <1>3, <1>5, Paid, PaidNext DEF ServedClose
  <2> QED BY <1>5, <2>1, <2>2, Leaves DEF IInv, ServedClose
<1> QED BY <1>1, <1>4, <1>5

(* Without a fault, Delete, Reinsert, DebitBack, Refused and Crash do not  *)
(* happen, and every other step is one of the above.                       *)
LEMMA NextMoves ==
    ASSUME IInv, WideNext, hit' = {}
    PROVE  \A u \in Users : Moved(u)
<1>1. ASSUME NEW r \in Requests, Delete(r) \/ Reinsert(r) \/ DebitBack(r) PROVE FALSE
  BY <1>1 DEF Delete, Reinsert, DebitBack, IInv, HitInv, Faulty, Compensating
<1>2. ASSUME NEW r \in Requests, Refused(r) PROVE FALSE
  BY <1>2 DEF Refused, Fault
<1>3. ASSUME Crash PROVE FALSE
  BY <1>3 DEF Crash
<1>4. ASSUME NEW f \in Funds, SoftDelete(f) PROVE \A u \in Users : Moved(u)
  <2>1. UNCHANGED <<balance, subscriptions, pc, doc>>
    BY <1>4 DEF SoftDelete
  <2>2. OutOfWallet' = OutOfWallet
    BY <2>1, Paid, PaidNext
  <2> QED BY <2>1, <2>2, Stays
<1>5. ASSUME NEW r \in Requests, Lookup(r) \/ Take(r) \/ NotFound(r) \/ Continue(r)
      PROVE  \A u \in Users : Moved(u)
  BY <1>1, <1>5, LookupMoves, HandOver, LabelMoves, DebitMoves, CreditMoves DEF Continue
<1> QED BY <1>2, <1>3, <1>4, <1>5, ServedMoves DEF Next, WideNext

(* Until a fault hits, a balance only moves against one document of        *)
(* exactly that amount: under every interleaving, the money of a user is   *)
(* in the wallet, invested, or in the hands of one request.                *)
THEOREM MoneyMovesInPairs == Spec => DoubleEntry
<1>1. IInv /\ [WideNext]_vars => [hit' = {} => \A u \in Users : Moved(u)]_vars
  BY NextMoves
<1> QED BY <1>1, Invariance, SpecIsWide, PTL DEF WideSpec, DoubleEntry

----------------------------------------------------------------------------
(* The audit log, while no fault has hit: a row is there because a request *)
(* succeeded, and a document that was ever inserted is still stored, has   *)
(* been cancelled or is being cancelled.                                   *)
Logged(row) ==
    IF row.type = "OPEN"
    THEN pc[row.doc.id] = "ok" /\ doc[row.doc.id] = row.doc
    ELSE \E q \in Requests : pc[q] = "ok" /\ doc[q] = row.doc /\ doc[q].id # q

Accounted == subscriptions \cup Closed \cup BeingClosed

LogInv ==
    hit = {} =>
      /\ \A row \in transactions : Logged(row)
      /\ \A r \in Requests :
           (pc[r] \in {"audit", "ok"} /\ doc[r].id = r) => doc[r] \in Accounted

LEMMA InitLog == Init => LogInv
BY DEF Init, LogInv

(* The documents accounted for, and those of the next state.               *)
LEMMA AccountedFor ==
    /\ \A d : d \in Accounted <=>
                \/ d \in subscriptions
                \/ \E row \in transactions : row.type = "CANCEL" /\ row.doc = d
                \/ \E q \in Requests : pc[q] \in {"credit", "audit_cancel"} /\ doc[q] = d
    /\ \A d : d \in Accounted' <=>
                \/ d \in subscriptions'
                \/ \E row \in transactions' : row.type = "CANCEL" /\ row.doc = d
                \/ \E q \in Requests : pc'[q] \in {"credit", "audit_cancel"} /\ doc'[q] = d
BY DEF Accounted, Closed, BeingClosed, At

(* A step keeps LogInv if it takes back no success, logs only what has     *)
(* succeeded, and lets no document get lost.                               *)
LEMMA LogStep ==
    ASSUME TypeOK, LogInv, hit = {},
           \A q \in Requests : pc[q] = "ok" => pc'[q] = "ok" /\ doc'[q] = doc[q],
           \A row \in transactions' \ transactions : Logged(row)',
           Accounted \subseteq Accounted',
           \A q \in Requests :
             (pc'[q] \in {"audit", "ok"} /\ doc'[q].id = q) =>
               \/ doc'[q] \in Accounted'
               \/ pc[q] \in {"audit", "ok"} /\ doc[q] = doc'[q]
    PROVE  LogInv'
<1>1. \A row \in transactions : row.doc.id \in Requests
  BY DocumentFields DEF TypeOK, Rows
<1>2. \A row \in transactions : Logged(row)'
  BY <1>1 DEF LogInv, Logged
<1>3. \A row \in transactions' : Logged(row)'
  BY <1>2
<1>4. \A q \in Requests : (pc'[q] \in {"audit", "ok"} /\ doc'[q].id = q) =>
                            doc'[q] \in Accounted'
  BY DEF LogInv
<1> QED BY <1>3, <1>4 DEF LogInv

(* The steps that leave the collections and the documents in hand alone.   *)
QuietMoves ==
    {<<"idle", "check">>, <<"idle", "rejected">>, <<"check", "debit">>,
     <<"check", "rejected">>, <<"debit", "insert">>, <<"debit", "rejected">>,
     <<"insert", "refund">>, <<"refund", "failed">>, <<"credit", "audit_cancel">>}

LEMMA LabelLog ==
    ASSUME IInv, LogInv, hit = {}, NEW r \in Requests, NEW l,
           <<pc[r], l>> \in QuietMoves,
           pc' = [pc EXCEPT ![r] = l],
           \A q \in Requests : q # r \/ pc[r] = "credit" => doc'[q] = doc[q],
           UNCHANGED <<subscriptions, transactions>>
    PROVE  LogInv'
<1>1. \A q \in Requests \ {r} : pc'[q] = pc[q]
  BY DEF IInv, TypeOK
<1>2. /\ pc'[r] = l /\ pc[r] # "ok" /\ l \notin {"audit", "ok"}
      /\ pc[r] \in {"credit", "audit_cancel"} =>
           l \in {"credit", "audit_cancel"} /\ doc'[r] = doc[r]
  BY DEF IInv, TypeOK, QuietMoves
<1>3. Accounted \subseteq Accounted'
  BY <1>1, <1>2, AccountedFor
<1> QED BY <1>1, <1>2, <1>3, LogStep DEF IInv

(* The document goes from the request into the collection.                 *)
LEMMA InsertLog ==
    ASSUME IInv, LogInv, hit' = {}, NEW r \in Requests, Insert(r)
    PROVE  LogInv'
<1>1. /\ hit = {} /\ pc[r] = "insert" /\ pc' = [pc EXCEPT ![r] = "audit"]
      /\ subscriptions' = subscriptions \cup {doc[r]}
      /\ UNCHANGED <<transactions, doc>>
  BY DEF Insert, Returns, Goto, Fault
<1>2. pc'[r] = "audit" /\ \A q \in Requests \ {r} : pc'[q] = pc[q]
  BY <1>1 DEF IInv, TypeOK
<1>3. Accounted \subseteq Accounted' /\ doc[r] \in Accounted'
  BY <1>1, <1>2, AccountedFor
<1> QED BY <1>1, <1>2, <1>3, LogStep DEF IInv

(* A success comes with its row; a cancel has its document logged.         *)
LEMMA AuditLog ==
    ASSUME IInv, LogInv, hit' = {}, NEW r \in Requests, Audit(r) \/ AuditCancel(r)
    PROVE  LogInv'
<1> DEFINE new == Row(IF pc[r] = "audit" THEN "OPEN" ELSE "CANCEL", doc[r])
<1>1. /\ hit = {} /\ pc' = [pc EXCEPT ![r] = "ok"]
      /\ transactions' = transactions \cup {new}
      /\ pc[r] \in {"audit", "audit_cancel"}
      /\ UNCHANGED <<subscriptions, doc>>
  BY DEF Audit, AuditCancel, Returns, Goto, Fault
<1>2. pc'[r] = "ok" /\ \A q \in Requests \ {r} : pc'[q] = pc[q]
  BY <1>1 DEF IInv, TypeOK
<1>3. /\ doc[r] \in Documents
      /\ pc[r] = "audit" <=> doc[r].id = r
  BY <1>1 DEF IInv, DocsInv, Busy, Subscribing, Cancelling
<1>4. /\ new.doc = doc[r]
      /\ new.type = IF pc[r] = "audit" THEN "OPEN" ELSE "CANCEL"
  BY DEF Row
<1> HIDE DEF new
<1>5. \A row \in transactions' \ transactions : Logged(row)'
  <2> SUFFICES ASSUME NEW row, row = new PROVE Logged(row)'
    BY <1>1
  <2>1. CASE pc[r] = "audit"
    BY <1>1, <1>2, <1>3, <1>4, <2>1 DEF Logged
  <2>2. CASE pc[r] # "audit"
    BY <1>1, <1>2, <1>3, <1>4, <2>2 DEF Logged
  <2> QED BY <2>1, <2>2
<1>6. Accounted \subseteq Accounted'
  <2>1. pc[r] = "audit_cancel" => new.type = "CANCEL"
    BY <1>4
  <2> QED BY <1>1, <1>2, <1>4, <2>1, AccountedFor
<1>7. /\ \A q \in Requests : pc[q] = "ok" => pc'[q] = "ok" /\ doc'[q] = doc[q]
      /\ \A q \in Requests :
           (pc'[q] \in {"audit", "ok"} /\ doc'[q].id = q) =>
             pc[q] \in {"audit", "ok"} /\ doc[q] = doc'[q]
  BY <1>1, <1>2, <1>3
<1> QED BY <1>1, <1>5, <1>6, <1>7, LogStep DEF IInv

(* The document goes from the collection into the hands of the cancel.     *)
LEMMA TakeLog ==
    ASSUME IInv, LogInv, hit' = {}, NEW r \in Requests, Take(r)
    PROVE  LogInv'
<1>1. PICK u \in Users, s \in Requests : \E d \in Matches(u, s) :
         /\ subscriptions' = subscriptions \ {d}
         /\ doc' = [doc EXCEPT ![r] = d]
  BY DEF Take
<1>2. PICK d \in subscriptions :
         /\ subscriptions' = subscriptions \ {d}
         /\ doc' = [doc EXCEPT ![r] = d]
  BY <1>1 DEF Matches
<1>3. /\ hit = {} /\ pc[r] = "idle" /\ pc' = [pc EXCEPT ![r] = "credit"]
      /\ UNCHANGED transactions
  BY DEF Take, Returns, Goto, Fault
<1>4. /\ pc'[r] = "credit" /\ doc'[r] = d
      /\ \A q \in Requests \ {r} : pc'[q] = pc[q] /\ doc'[q] = doc[q]
  BY <1>2, <1>3 DEF IInv, TypeOK
<1>5. Accounted \subseteq Accounted'
  BY <1>2, <1>3, <1>4, AccountedFor
<1> QED BY <1>3, <1>4, <1>5, LogStep DEF IInv

(* A whole subscribe stores its document; a whole cancel logs it.          *)
LEMMA ServedLog ==
    ASSUME IInv, LogInv, hit' = {}, NEW r \in Requests, Served(r)
    PROVE  LogInv'
<1>1. PICK d \in Documents :
        /\ pc[r] = "idle" /\ pc'[r] = "ok" /\ doc'[r] = d /\ hit = {}
        /\ \A q \in Requests \ {r} : pc'[q] = pc[q] /\ doc'[q] = doc[q]
        /\ \/ ServedOpen(r, d)
           \/ ServedClose(d) /\ d.id # r
  BY ServedCases
<1>2. PICK type \in {"OPEN", "CANCEL"} :
        /\ transactions' = transactions \cup {Row(type, d)}
        /\ Row(type, d).doc = d /\ Row(type, d).type = type
        /\ type = "OPEN" => d.id = r /\ subscriptions' = subscriptions \cup {d}
        /\ type = "CANCEL" => d.id # r /\ subscriptions' = subscriptions \ {d}
  BY <1>1 DEF ServedOpen, ServedClose, Row
<1>3. Accounted \subseteq Accounted'
  BY <1>1, <1>2, AccountedFor
<1>4. \A row \in transactions' \ transactions : Logged(row)'
  BY <1>1, <1>2 DEF Logged
<1>5. d.id = r => d \in Accounted'
  BY <1>2, AccountedFor
<1> QED BY <1>1, <1>3, <1>4, <1>5, LogStep DEF IInv

LEMMA NextLog ==
    ASSUME IInv, LogInv, [WideNext]_vars
    PROVE  LogInv'
<1> SUFFICES ASSUME hit' = {} PROVE LogInv'
  BY DEF LogInv
<1>1. ASSUME NEW r \in Requests, Delete(r) \/ Reinsert(r) \/ DebitBack(r) PROVE FALSE
  BY <1>1 DEF Delete, Reinsert, DebitBack, IInv, HitInv, Faulty, Compensating
<1>2. ASSUME NEW r \in Requests, Refused(r) PROVE FALSE
  BY <1>2 DEF Refused, Fault
<1>3. ASSUME Crash PROVE FALSE
  BY <1>3 DEF Crash
<1>4. CASE UNCHANGED <<hit, pc, doc, subscriptions, transactions>>
  <2>1. Accounted' = Accounted
    BY <1>4, AccountedFor
  <2> QED BY <1>4, <2>1 DEF LogInv, Logged
<1>5. ASSUME NEW r \in Requests,
             \/ Lookup(r) \/ Check(r) \/ Debit(r) \/ Insufficient(r) \/ Duplicate(r)
             \/ NotFound(r) \/ Refund(r) \/ Credit(r)
      PROVE  LogInv'
  <2>1. PICK l :
          /\ <<pc[r], l>> \in QuietMoves
          /\ pc' = [pc EXCEPT ![r] = l]
    BY <1>5 DEF QuietMoves, Lookup, Check, Debit, Insufficient, Duplicate, NotFound, Refund,
       Credit, Returns, Goto, Fault
  <2>2. UNCHANGED <<subscriptions, transactions>> /\ hit = {}
    BY <1>5 DEF Lookup, Check, Debit, Insufficient, Duplicate, NotFound, Refund,
       Credit, Returns, Fault
  <2>3. \A q \in Requests : q # r \/ pc[r] = "credit" => doc'[q] = doc[q]
    BY <1>5 DEF Lookup, Check, Debit, Insufficient, Duplicate, NotFound, Refund,
       Credit, IInv, TypeOK
  <2> QED BY <2>1, <2>2, <2>3, LabelLog
<1> QED BY <1>1, <1>2, <1>3, <1>4, <1>5, InsertLog, AuditLog, TakeLog, ServedLog
    DEF Next, WideNext, Continue, SoftDelete, vars

(* Until a fault hits, replaying the audit log gives the subscriptions:    *)
(* every document ever inserted has, or is about to get, its OPEN row, and *)
(* is stored, cancelled or being cancelled, only one of the three.         *)
THEOREM LogTellsAll == Spec => []AuditComplete
<1>1. IInv /\ LogInv => AuditComplete
  <2> SUFFICES ASSUME IInv, LogInv, hit = {} PROVE AuditComplete
    BY DEF AuditComplete
  <2>1. \A q \in Requests :
          /\ pc[q] \in {"credit", "audit_cancel"} => Held(q) /\ pc[q] \in Holding
          /\ pc[q] = "audit" => doc[q].id = q
    BY DEF IInv, DocsInv, Held, Holding, Cancelling, Subscribing
  <2>2. \A d \in Closed : \E q \in Requests : pc[q] = "ok" /\ doc[q] = d /\ Held(q)
    BY DEF LogInv, Logged, Closed, Held
  <2>3. \A d \in BeingClosed : \E q \in Requests :
          pc[q] \in {"credit", "audit_cancel"} /\ doc[q] = d
    BY DEF BeingClosed, At
  <2>4. ASSUME NEW d \in Accounted PROVE d \in Opened \cup At({"audit"})
    <3>1. Created(d) /\ d \in Documents
      BY <2>1, <2>2, <2>3, <2>4 DEF Accounted, IInv, TypeOK, CreatorsInv, DocsInv,
         Busy, Cancelling
    <3>2. d.id \in Requests /\ doc[d.id] = d /\ pc[d.id] \in {"audit", "ok"}
      BY <3>1, DocumentFields DEF Created
    <3>3. CASE pc[d.id] = "audit"
      BY <3>2, <3>3 DEF At
    <3>4. CASE pc[d.id] = "ok"
      <4>1. Row("OPEN", d) \in transactions
        BY <3>2, <3>4 DEF IInv, AcceptedInv, RowOf
      <4> QED BY <4>1 DEF Opened, Row
    <3> QED BY <3>2, <3>3, <3>4
  <2>5. ASSUME NEW d \in Opened \cup At({"audit"}) PROVE d \in Accounted
    <3>1. CASE d \in At({"audit"})
      BY <2>1, <3>1 DEF At, LogInv
    <3>2. CASE d \in Opened
      <4>1. PICK row \in transactions : row.type = "OPEN" /\ row.doc = d
        BY <3>2 DEF Opened
      <4>2. d.id \in Requests /\ pc[d.id] = "ok" /\ doc[d.id] = d
        BY <4>1, DocumentFields DEF LogInv, Logged, IInv, TypeOK, Rows
      <4> QED BY <4>2 DEF LogInv
    <3> QED BY <3>1, <3>2
  <2>6. subscriptions \cap (Closed \cup BeingClosed) = {}
    BY <2>1, <2>2, <2>3 DEF IInv, HandsInv
  <2>7. Closed \cap BeingClosed = {}
    <3>1. ASSUME NEW d \in Closed \cap BeingClosed PROVE FALSE
      <4>1. PICK q \in Requests : pc[q] = "ok" /\ doc[q] = d /\ Held(q)
        BY <2>2
      <4>2. PICK p \in Requests : pc[p] \in {"credit", "audit_cancel"} /\ doc[p] = d
        BY <2>3
      <4> QED BY <2>1, <4>1, <4>2 DEF IInv, HandsInv
    <3> QED BY <3>1
  <2>8. \A r, q \in Requests :
          (/\ pc[r] \in {"credit", "audit_cancel"}
           /\ pc[q] \in {"credit", "audit_cancel"}
           /\ doc[r] = doc[q]) => r = q
    BY <2>1 DEF IInv, HandsInv
  <2> QED BY <2>4, <2>5, <2>6, <2>7, <2>8 DEF AuditComplete, Accounted
<1>2. IInv /\ LogInv /\ [WideNext]_vars => LogInv'
  BY NextLog
<1> QED BY <1>1, <1>2, InitLog, Invariance, SpecIsWide, PTL DEF WideSpec

----------------------------------------------------------------------------
(* The sum of the documents paid for.  They are finitely many: a stored    *)
(* document is the one of its creator.                                     *)
Stored == subscriptions \subseteq Documents /\ IsFiniteSet(subscriptions)

PaidFor == OutOfWallet \subseteq Documents /\ IsFiniteSet(OutOfWallet)

LEMMA FiniteBooks == IInv => Stored /\ PaidFor
<1> SUFFICES ASSUME IInv PROVE Stored /\ PaidFor
  OBVIOUS
<1> DEFINE docs == {doc[r] : r \in Requests}
<1>1. IsFiniteSet(docs)
  <2>1. doc \in Surjection(Requests, docs)
    BY DEF IInv, TypeOK, Surjection
  <2> QED BY <2>1, DataAssumption, FS_Surjection
<1>2. subscriptions \subseteq Documents /\ subscriptions \subseteq docs
  <2> SUFFICES ASSUME NEW d \in subscriptions PROVE d \in Documents /\ d \in docs
    OBVIOUS
  <2>1. d \in Documents /\ doc[d.id] = d
    BY DEF IInv, TypeOK, CreatorsInv, Created
  <2> QED BY <2>1, DocumentFields
<1>3. InHand \subseteq Documents /\ InHand \subseteq docs
  BY DEF InHand, At, IInv, DocsInv, Busy, Subscribing, Cancelling
<1>4. OutOfWallet \subseteq docs
  BY <1>2, <1>3 DEF OutOfWallet
<1>5. IsFiniteSet(subscriptions) /\ IsFiniteSet(OutOfWallet)
  BY <1>1, <1>2, <1>4, FS_Subset
<1> QED BY <1>2, <1>3, <1>5 DEF Stored, PaidFor, OutOfWallet

LEMMA FiniteBooksNext == IInv' => Stored' /\ PaidFor'
BY FiniteBooks, PTL

(* The money of a user in a finite set of documents.                       *)
LEMMA AmountIsTotal ==
    ASSUME NEW S, S \subseteq Documents, IsFiniteSet(S), NEW u
    PROVE  /\ AmountOf(S, u) = Total(Of(S, u))
           /\ IsFiniteSet(Of(S, u))
           /\ \A d \in Of(S, u) : d.amount \in Int /\ d.amount \in Nat
           /\ Total(Of(S, u)) \in Int
<1>1. AmountOf(S, u) = Total(Of(S, u))
  BY Zenon DEF AmountOf, Total, Of
<1>2. IsFiniteSet(Of(S, u))
  BY FS_Subset DEF Of
<1>3. \A d \in Of(S, u) : d.amount \in Int /\ d.amount \in Nat
  BY DocumentFields DEF Of
<1> QED BY <1>1, <1>2, <1>3, TotalInt

(* A balance and the documents paid for move by the same amount.           *)
LEMMA MovedSum ==
    ASSUME TypeOK, TypeOK', PaidFor, PaidFor', NEW u \in Users, Moved(u)
    PROVE  balance'[u] + AmountOf(OutOfWallet', u) = balance[u] + AmountOf(OutOfWallet, u)
<1> DEFINE out == Of(OutOfWallet, u)
           outnext == Of(OutOfWallet', u)
<1>1. /\ AmountOf(OutOfWallet, u) = Total(out) /\ IsFiniteSet(out)
      /\ \A d \in out : d.amount \in Int
      /\ Total(out) \in Int /\ balance[u] \in Int
  BY AmountIsTotal DEF PaidFor, TypeOK
<1>2. /\ AmountOf(OutOfWallet', u) = Total(outnext) /\ IsFiniteSet(outnext)
      /\ \A d \in outnext : d.amount \in Int
      /\ Total(outnext) \in Int /\ balance'[u] \in Int
  BY AmountIsTotal DEF PaidFor, TypeOK
<1>3. \/ outnext = out /\ balance'[u] = balance[u]
      \/ \E d \in outnext \ out : outnext = out \cup {d}
                                 /\ balance'[u] = balance[u] - d.amount
      \/ \E d \in out \ outnext : outnext = out \ {d}
                                 /\ balance'[u] = balance[u] + d.amount
  BY DEF Moved, Of
<1> HIDE DEF out, outnext
<1>4. CASE outnext = out /\ balance'[u] = balance[u]
  BY <1>1, <1>2, <1>4
<1>5. ASSUME NEW d \in outnext \ out, outnext = out \cup {d},
             balance'[u] = balance[u] - d.amount
      PROVE  balance'[u] + Total(outnext) = balance[u] + Total(out)
  <2>1. Total(outnext) = Total(out) + d.amount /\ d.amount \in Int
    BY <1>1, <1>2, <1>5, TotalAdd
  <2> QED BY <1>1, <1>2, <1>5, <2>1
<1>6. ASSUME NEW d \in out \ outnext, outnext = out \ {d},
             balance'[u] = balance[u] + d.amount
      PROVE  balance'[u] + Total(outnext) = balance[u] + Total(out)
  <2>1. Total(outnext) = Total(out) - d.amount /\ d.amount \in Int
    BY <1>1, <1>2, <1>6, TotalRemove
  <2> QED BY <1>1, <1>2, <1>6, <2>1
<1> QED BY <1>1, <1>2, <1>3, <1>4, <1>5, <1>6

LEMMA WideMoney == WideSpec => []MoneyAccounted
<1>1. Init => MoneyAccounted
  <2> SUFFICES ASSUME Init, NEW u \in Users
               PROVE  balance[u] + AmountOf(OutOfWallet, u) = InitialBalance
    BY DEF MoneyAccounted
  <2>1. OutOfWallet = {}
    BY DEF Init, OutOfWallet, InHand, At
  <2>2. AmountOf({}, u) = 0
    <3>1. Of({}, u) = {}
      BY DEF Of
    <3> QED BY <3>1, AmountIsTotal, TotalEmpty, FS_EmptySet
  <2> QED BY <2>1, <2>2, DataAssumption DEF Init
<1>2. ASSUME IInv, IInv', MoneyAccounted, [WideNext]_vars PROVE MoneyAccounted'
  <2> SUFFICES ASSUME hit' = {}, NEW u \in Users
               PROVE  balance'[u] + AmountOf(OutOfWallet', u) = InitialBalance
    BY DEF MoneyAccounted
  <2>1. CASE WideNext
    <3>1. hit = {}
      <4>1. hit \subseteq hit'
        BY <2>1 DEF Next, WideNext, Served, Lookup, Take, NotFound, Continue, Check, Debit,
           Insufficient, Insert, Duplicate, Audit, Delete, Refund, Credit, AuditCancel,
           Reinsert, DebitBack, Refused, SoftDelete, Crash, Returns, Fault
      <4> QED BY <4>1
    <3>2. Moved(u)
      BY <1>2, <2>1, NextMoves
    <3>3. balance'[u] + AmountOf(OutOfWallet', u) = balance[u] + AmountOf(OutOfWallet, u)
      BY <1>2, <3>2, FiniteBooks, FiniteBooksNext, MovedSum DEF IInv
    <3> QED BY <1>2, <3>1, <3>3 DEF MoneyAccounted
  <2>2. CASE UNCHANGED vars
    BY <1>2, <2>2 DEF MoneyAccounted, vars, OutOfWallet, InHand, At
  <2> QED BY <1>2, <2>1, <2>2
<1> QED BY <1>1, <1>2, Invariance, PTL DEF WideSpec

(* Until a fault hits, no peso is created or lost by any interleaving:     *)
(* wallet, investments and money in hand add up to the initial balance.    *)
THEOREM MoneyIsAccounted == Spec => []MoneyAccounted
BY WideMoney, SpecIsWide, PTL

----------------------------------------------------------------------------
(* What each request has left in the books, faults included.  The error of *)
(* a user's books is the sum of what the user's requests left there, and a *)
(* request leaves no more than its amount: nothing, unless a fault hit it, *)
(* once it is answered.                                                    *)
Error(u) == balance[u] + AmountOf(subscriptions, u) - InitialBalance

Cost(r) == IF doc[r] = None THEN 0 ELSE doc[r].amount

LeftBy(r, x) ==
    /\ x \in Int /\ -Cost(r) <= x /\ x <= Cost(r)
    /\ pc[r] \in {"insert", "credit"} => x = -Cost(r)
    /\ pc[r] \in {"refund", "reinsert"} => x <= 0
    /\ pc[r] = "debit_back" => x >= 0
    /\ pc[r] \in {"idle", "check", "debit", "audit", "delete", "audit_cancel",
                  "reinsert_debit", "ok", "rejected"} => x = 0
    /\ r \notin hit => /\ pc[r] = "refund" => x = -Cost(r)
                       /\ pc[r] = "failed" => x = 0

(* The part of user u in what the requests left.                           *)
Share(e, u) ==
    [r \in Requests |-> IF doc[r] # None /\ doc[r].user = u THEN e[r] ELSE 0]

LeftByAll(e) ==
    /\ e \in [Requests -> Int]
    /\ \A r \in Requests : LeftBy(r, e[r])
    /\ \A u \in Users : Error(u) = SumFunctionOnSet(Share(e, u), Requests)

DamageInv == \E e : LeftByAll(e)

LEMMA AmountMoves ==
    ASSUME NEW S, S \subseteq Documents, IsFiniteSet(S), NEW d \in Documents, NEW u
    PROVE  /\ AmountOf(S, u) \in Int /\ Part(d, u) \in Int
           /\ d \notin S => AmountOf(S \cup {d}, u) = AmountOf(S, u) + Part(d, u)
           /\ d \in S => AmountOf(S \ {d}, u) = AmountOf(S, u) - Part(d, u)
<1>1. /\ AmountOf(S, u) = Total(Of(S, u))
      /\ AmountOf(S \cup {d}, u) = Total(Of(S \cup {d}, u))
      /\ AmountOf(S \ {d}, u) = Total(Of(S \ {d}, u))
  BY Zenon DEF AmountOf, Total, Of
<1>2. d.amount \in Int /\ \A e \in S : e.amount \in Int
  BY DocumentFields
<1> QED BY <1>1, <1>2, TotalOfMoves

(* A step of one request that moves the books of its user by x, and what   *)
(* the request has left by the same.                                       *)
MovesAlone(r) ==
    /\ \A q \in Requests \ {r} : /\ pc'[q] = pc[q] /\ doc'[q] = doc[q]
                                 /\ q \in hit' <=> q \in hit
    /\ doc[r] = None \/ doc'[r] = doc[r]

ErrorMoves(r, x) ==
    \A u \in Users :
      Error(u)' = Error(u) + (IF doc'[r] # None /\ doc'[r].user = u THEN x ELSE 0)

LeftMoves(r, x) == \A y \in Int : LeftBy(r, y) => LeftBy(r, y + x)'

LEMMA DamageStep ==
    ASSUME TypeOK, TypeOK', DamageInv, NEW r \in Requests, NEW x \in Int,
           MovesAlone(r), doc'[r] = None => x = 0, ErrorMoves(r, x), LeftMoves(r, x)
    PROVE  DamageInv'
<1> USE DEF MovesAlone, ErrorMoves, LeftMoves
<1>1. PICK e : LeftByAll(e)
  BY DEF DamageInv
<1> DEFINE g == [e EXCEPT ![r] = @ + x]
<1>2. /\ g \in [Requests -> Int] /\ g[r] = e[r] + x /\ e[r] \in Int
      /\ \A q \in Requests \ {r} : g[q] = e[q] /\ e[q] \in Int
  BY <1>1 DEF LeftByAll
<1> HIDE DEF g
<1>3. ASSUME NEW q \in Requests PROVE LeftBy(q, g[q])'
  <2>1. CASE q = r
    BY <1>1, <1>2, <2>1 DEF LeftByAll
  <2>2. CASE q # r
    BY <1>1, <1>2, <2>2 DEF LeftByAll, LeftBy, Cost
  <2> QED BY <2>1, <2>2
<1>4. ASSUME NEW u \in Users
      PROVE  Error(u)' = SumFunctionOnSet(Share(g, u)', Requests)
  <2> DEFINE f == Share(e, u)
             h == Share(g, u)'
             y == IF doc'[r] # None /\ doc'[r].user = u THEN x ELSE 0
  <2>1. /\ \A q \in Requests : f[q] \in Int /\ h[q] \in Int
        /\ \A q \in Requests \ {r} : f[q] = h[q]
    BY <1>2 DEF Share
  <2>2. h[r] = f[r] + y /\ y \in Int
    <3>1. doc[r] = None => e[r] = 0
      BY <1>1, <1>2 DEF LeftByAll, LeftBy, Cost
    <3> QED BY <1>2, <3>1 DEF Share
  <2>3. Error(u)' = Error(u) + y /\ Error(u) = SumFunctionOnSet(f, Requests)
    BY <1>1 DEF LeftByAll
  <2> HIDE DEF f, h, y
  <2>4. SumFunctionOnSet(h, Requests) = SumFunctionOnSet(f, Requests) - f[r] + h[r]
    BY <2>1, SumUpdate, DataAssumption
  <2>5. SumFunctionOnSet(f, Requests) \in Int
    BY <2>1, SumInt, DataAssumption
  <2>6. Error(u)' = SumFunctionOnSet(h, Requests)
    BY <2>1, <2>2, <2>3, <2>4, <2>5
  <2> QED BY <2>6 DEF h
<1>5. LeftByAll(g)'
  BY <1>2, <1>3, <1>4 DEF LeftByAll
<1> QED BY <1>5 DEF DamageInv

LEMMA ErrorType ==
    ASSUME TypeOK, Stored
    PROVE  /\ \A u \in Users : balance[u] \in Int /\ AmountOf(subscriptions, u) \in Int
                               /\ Error(u) \in Int
           /\ \A r \in Requests : Cost(r) \in Nat
<1>1. \A u \in Users : balance[u] \in Int /\ AmountOf(subscriptions, u) \in Int
  BY AmountIsTotal DEF TypeOK, Stored
<1>2. \A r \in Requests : Cost(r) \in Nat
  BY DocumentFields DEF TypeOK, Cost
<1> QED BY <1>1, <1>2, DataAssumption DEF Error

(* How what a request has left fits its next label.                        *)
LEMMA LeftNothing ==
    ASSUME NEW r \in Requests, Cost(r)' \in Nat,
           pc'[r] \notin {"insert", "credit"}, pc'[r] = "refund" => r \in hit'
    PROVE  LeftBy(r, 0)'
BY DEF LeftBy

LEMMA LeftSame ==
    ASSUME NEW r \in Requests, Cost(r) \in Nat, Cost(r)' = Cost(r), NEW y,
           LeftBy(r, y),
           \/ pc[r] = "insert" /\ pc'[r] = "refund"
           \/ pc[r] = "credit" /\ pc'[r] = "reinsert"
           \/ pc'[r] = "failed" /\ r \in hit'
    PROVE  LeftBy(r, y)'
BY DEF LeftBy

(* Steps that move neither money nor subscriptions.                        *)
LEMMA QuietDamage ==
    ASSUME IInv, IInv', Stored, DamageInv, NEW r \in Requests,
           \/ Lookup(r) \/ Check(r) \/ Insufficient(r) \/ Duplicate(r) \/ NotFound(r)
           \/ Audit(r) \/ AuditCancel(r) \/ Refused(r)
    PROVE  DamageInv'
<1>1. /\ UNCHANGED <<balance, subscriptions>>
      /\ hit' \subseteq hit \cup {r} /\ hit \subseteq hit'
      /\ \E l : pc' = [pc EXCEPT ![r] = l]
      /\ \A q \in Requests \ {r} : doc'[q] = doc[q]
      /\ pc[r] # "idle" => doc' = doc
  BY DEF Lookup, Check, Insufficient, Duplicate, NotFound, Audit, AuditCancel,
     Refused, Returns, Goto, Fault, IInv, TypeOK
<1>2. /\ \A q \in Requests \ {r} : pc'[q] = pc[q]
      /\ pc[r] = "idle" => doc[r] = None
  BY <1>1 DEF IInv, TypeOK, DocsInv
<1>3. \/ /\ pc[r] \in {"idle", "check", "debit", "audit", "delete", "audit_cancel",
                       "reinsert_debit"}
         /\ pc'[r] \notin {"insert", "credit"}
         /\ pc'[r] = "refund" => r \in hit'
      \/ pc[r] = "insert" /\ pc'[r] = "refund"
      \/ pc[r] = "credit" /\ pc'[r] = "reinsert"
      \/ pc[r] # "idle" /\ pc'[r] = "failed" /\ r \in hit'
  BY DEF Lookup, Check, Insufficient, Duplicate, NotFound, Audit, AuditCancel,
     Refused, Returns, Goto, Fault, AfterFailure, Answers, Subscribing, Cancelling,
     IInv, TypeOK
<1>4. Cost(r) \in Nat /\ Cost(r)' \in Nat /\ (Cost(r) = 0 \/ Cost(r)' = Cost(r))
  <2>1. Cost(r) \in Nat /\ Cost(r)' \in Nat
    BY DocumentFields DEF IInv, TypeOK, Cost
  <2> QED BY <1>1, <1>2, <2>1 DEF Cost
<1>5. ASSUME NEW y \in Int, LeftBy(r, y) PROVE LeftBy(r, y + 0)'
  <2>1. CASE pc[r] \in {"idle", "check", "debit", "audit", "delete", "audit_cancel",
                       "reinsert_debit"}
    <3>1. y = 0
      BY <1>5, <2>1 DEF LeftBy
    <3>2. LeftBy(r, 0)' \/ LeftBy(r, y)'
      BY <1>1, <1>3, <1>4, <1>5, <2>1, LeftNothing
    <3> QED BY <3>1, <3>2
  <2>2. CASE pc[r] \notin {"idle", "check", "debit", "audit", "delete", "audit_cancel",
                          "reinsert_debit"}
    <3>1. Cost(r)' = Cost(r)
      BY <1>1, <2>2 DEF Cost
    <3>2. LeftBy(r, y)'
      BY <1>3, <1>4, <1>5, <2>2, <3>1, LeftSame
    <3>3. y + 0 = y
      OBVIOUS
    <3> QED BY <3>2, <3>3
  <2> QED BY <2>1, <2>2
<1>6. \A u \in Users : Error(u)' = Error(u) /\ Error(u) \in Int
  BY <1>1, ErrorType DEF Error, IInv
<1>7. \A u \in Users :
        Error(u)' = Error(u) + (IF doc'[r] # None /\ doc'[r].user = u THEN 0 ELSE 0)
  BY <1>6
<1>8. doc[r] = None \/ doc'[r] = doc[r]
  BY <1>1, <1>2
<1>9. MovesAlone(r)
  BY <1>1, <1>2, <1>8 DEF MovesAlone
<1>10. ErrorMoves(r, 0) /\ LeftMoves(r, 0)
  BY <1>5, <1>7 DEF ErrorMoves, LeftMoves
<1> QED BY <1>9, <1>10, DamageStep DEF IInv

(* Steps that move the balance by the amount of the request's document.    *)
LEMMA BalanceDamage ==
    ASSUME IInv, IInv', Stored, DamageInv, NEW r \in Requests,
           Debit(r) \/ Credit(r) \/ Refund(r) \/ DebitBack(r)
    PROVE  DamageInv'
<1> DEFINE d == doc[r]
<1>1. /\ UNCHANGED <<doc, subscriptions>>
      /\ hit' \subseteq hit \cup {r} /\ hit \subseteq hit'
      /\ \E l : pc' = [pc EXCEPT ![r] = l]
      /\ pc[r] \in {"debit", "credit", "refund", "debit_back"}
      /\ IF pc[r] \in {"debit", "debit_back"} THEN Debited(d.user, d.amount)
                                              ELSE Credited(d.user, d.amount)
  BY DEF Debit, Credit, Refund, DebitBack, Returns, Goto, Fault
<1>2. /\ d \in Documents /\ d # None /\ d.user \in Users /\ d.amount \in Nat
      /\ \A q \in Requests \ {r} : pc'[q] = pc[q]
      /\ Cost(r) = d.amount /\ Cost(r)' = d.amount
      /\ pc[r] = "debit_back" => r \in hit
  BY <1>1, DocumentFields DEF IInv, TypeOK, DocsInv, Busy, Subscribing, Cancelling, Cost,
     HitInv, Faulty, Compensating
<1>3. \/ pc[r] = "debit" /\ pc'[r] \in {"insert", "failed"}
      \/ pc[r] = "credit" /\ pc'[r] \in {"audit_cancel", "reinsert"}
      \/ pc[r] \in {"refund", "debit_back"} /\ pc'[r] = "failed"
  BY DEF Debit, Credit, Refund, DebitBack, Returns, Goto, Fault, AfterFailure,
     IInv, TypeOK
<1>4. pc[r] = "debit" /\ pc'[r] = "failed" => r \in hit'
  BY DEF Debit, Credit, Refund, DebitBack, Returns, Goto, Fault, IInv, TypeOK
<1>5. PICK x \in Int :
        x = IF pc[r] \in {"debit", "debit_back"} THEN -d.amount ELSE d.amount
  BY <1>2
<1>6. \A u \in Users : balance'[u] = balance[u] + (IF d.user = u THEN x ELSE 0)
  <2>1. \A u \in Users : balance[u] \in Int
    BY DEF IInv, TypeOK
  <2> QED BY <1>1, <1>2, <1>5, <2>1, BalanceMoves DEF IInv, TypeOK
<1>7. ASSUME NEW y \in Int, LeftBy(r, y) PROVE LeftBy(r, y + x)'
  <2>1. PICK c \in Nat : c = d.amount /\ Cost(r) = c /\ Cost(r)' = c
    BY <1>2
  <2>2. CASE pc[r] = "debit"
    <3>1. y = 0 /\ x = -c /\ y + x = -c
      BY <1>5, <1>7, <2>1, <2>2 DEF LeftBy
    <3>2. pc'[r] = "insert" \/ (pc'[r] = "failed" /\ r \in hit')
      BY <1>3, <1>4, <2>2
    <3>3. LeftBy(r, -c)'
      BY <2>1, <3>2 DEF LeftBy
    <3> QED BY <3>1, <3>3
  <2>3. CASE pc[r] = "credit"
    <3>1. y = -c /\ x = c /\ y + x = 0
      BY <1>5, <1>7, <2>1, <2>3 DEF LeftBy
    <3>2. pc'[r] \notin {"insert", "credit", "refund"}
      BY <1>3, <2>3
    <3>3. LeftBy(r, 0)'
      BY <2>1, <3>2, LeftNothing
    <3> QED BY <3>1, <3>3
  <2>4. CASE pc[r] = "refund"
    <3>1. y \in Int /\ -c <= y /\ y <= 0 /\ (r \notin hit => y = -c)
      BY <1>7, <2>1, <2>4 DEF LeftBy
    <3>2. x = c /\ pc'[r] = "failed"
      BY <1>3, <1>5, <2>1, <2>4
    <3>3. LeftBy(r, y + c)'
      BY <1>1, <2>1, <3>1, <3>2 DEF LeftBy
    <3> QED BY <3>2, <3>3
  <2>5. CASE pc[r] = "debit_back"
    <3>1. y \in Int /\ 0 <= y /\ y <= c
      BY <1>7, <2>1, <2>5 DEF LeftBy
    <3>2. x = -c /\ pc'[r] = "failed" /\ r \in hit'
      BY <1>1, <1>2, <1>3, <1>5, <2>1, <2>5
    <3>3. LeftBy(r, y - c)' /\ y + x = y - c
      BY <2>1, <3>1, <3>2 DEF LeftBy
    <3> QED BY <3>3
  <2> QED BY <1>1, <2>2, <2>3, <2>4, <2>5
<1>8. \A u \in Users : Error(u)' =
        Error(u) + (IF doc'[r] # None /\ doc'[r].user = u THEN x ELSE 0)
  <2> SUFFICES ASSUME NEW u \in Users
               PROVE  Error(u)' = Error(u) + (IF d.user = u THEN x ELSE 0)
    BY <1>1, <1>2
  <2>1. /\ balance[u] \in Int /\ AmountOf(subscriptions, u) \in Int
        /\ AmountOf(subscriptions, u)' = AmountOf(subscriptions, u)
    BY <1>1, ErrorType DEF IInv
  <2> DEFINE z == IF d.user = u THEN x ELSE 0
  <2>2. z \in Int /\ balance'[u] = balance[u] + z
    BY <1>6
  <2> HIDE DEF z
  <2>3. Error(u)' = Error(u) + z
    BY <2>1, <2>2, DataAssumption DEF Error
  <2> QED BY <2>3 DEF z
<1>9. MovesAlone(r) /\ doc'[r] # None
  BY <1>1, <1>2 DEF MovesAlone
<1>10. ErrorMoves(r, x)
  BY <1>8 DEF ErrorMoves
<1>11. LeftMoves(r, x)
  BY <1>7 DEF LeftMoves
<1> QED BY <1>9, <1>10, <1>11, DamageStep DEF IInv

(* Steps that store or delete the request's document, or leave it.         *)
LEMMA StoreError ==
    ASSUME TypeOK, Stored, UNCHANGED balance, NEW d \in Documents, NEW x \in Int,
           \/ d \notin subscriptions /\ subscriptions' = subscriptions \cup {d} /\ x = d.amount
           \/ d \in subscriptions /\ subscriptions' = subscriptions \ {d} /\ x = -d.amount
           \/ subscriptions' = subscriptions /\ x = 0,
           NEW u \in Users
    PROVE  Error(u)' = Error(u) + (IF d.user = u THEN x ELSE 0)
<1>1. /\ balance[u] \in Int /\ AmountOf(subscriptions, u) \in Int /\ Part(d, u) \in Int
      /\ d \notin subscriptions =>
           AmountOf(subscriptions \cup {d}, u) = AmountOf(subscriptions, u) + Part(d, u)
      /\ d \in subscriptions =>
           AmountOf(subscriptions \ {d}, u) = AmountOf(subscriptions, u) - Part(d, u)
  BY ErrorType, AmountMoves DEF Stored
<1>2. PICK z \in Int : z = IF d.user = u THEN x ELSE 0
  OBVIOUS
<1>3. d.amount \in Int /\ Part(d, u) = IF d.user = u THEN d.amount ELSE 0
  BY DocumentFields DEF Part
<1>4. AmountOf(subscriptions', u) = AmountOf(subscriptions, u) + z
  <2>1. CASE d \notin subscriptions /\ subscriptions' = subscriptions \cup {d} /\ x = d.amount
    <3>1. z = Part(d, u)
      BY <1>2, <1>3, <2>1
    <3> QED BY <1>1, <2>1, <3>1
  <2>2. CASE d \in subscriptions /\ subscriptions' = subscriptions \ {d} /\ x = -d.amount
    <3>1. z = -Part(d, u)
      BY <1>2, <1>3, <2>2
    <3>2. AmountOf(subscriptions', u) = AmountOf(subscriptions, u) - Part(d, u)
      BY <1>1, <2>2
    <3> QED BY <1>1, <3>1, <3>2
  <2>3. CASE subscriptions' = subscriptions /\ x = 0
    BY <1>1, <1>2, <2>3
  <2> QED BY <2>1, <2>2, <2>3
<1>5. Error(u)' = Error(u) + z
  BY <1>1, <1>4, DataAssumption DEF Error
<1> QED BY <1>2, <1>5

LEMMA InsertDamage ==
    ASSUME IInv, IInv', Stored, DamageInv, NEW r \in Requests, Insert(r)
    PROVE  DamageInv'
<1> DEFINE d == doc[r]
<1>1. /\ pc[r] = "insert" /\ CanInsert(d) /\ subscriptions' = subscriptions \cup {d}
      /\ hit' \subseteq hit \cup {r} /\ hit \subseteq hit'
      /\ \E l \in {"audit", "refund"} : pc' = [pc EXCEPT ![r] = l]
      /\ UNCHANGED <<balance, doc>>
  BY DEF Insert, Returns, Goto, Fault, AfterFailure
<1>2. pc'[r] = "refund" => r \in hit'
  BY DEF Insert, Returns, Goto, Fault, IInv, TypeOK
<1>3. /\ d \in Documents /\ d # None /\ d.amount \in Nat /\ d \notin subscriptions
      /\ \A q \in Requests \ {r} : pc'[q] = pc[q]
      /\ pc'[r] \in {"audit", "refund"}
      /\ Cost(r) = d.amount /\ Cost(r)' = d.amount
  BY <1>1, DocumentFields DEF IInv, TypeOK, DocsInv, Busy, Subscribing, Cost, CanInsert
<1>4. PICK x \in Int : x = d.amount
  BY <1>3
<1>5. MovesAlone(r) /\ doc'[r] # None
  BY <1>1, <1>3 DEF MovesAlone
<1>6. ErrorMoves(r, x)
  BY <1>1, <1>3, <1>4, StoreError DEF ErrorMoves, IInv
<1>7. LeftMoves(r, x)
  <2> SUFFICES ASSUME NEW y \in Int, LeftBy(r, y) PROVE LeftBy(r, y + x)'
    BY DEF LeftMoves
  <2>1. y = -x /\ y + x = 0
    BY <1>1, <1>3, <1>4 DEF LeftBy
  <2>2. LeftBy(r, 0)'
    BY <1>2, <1>3, LeftNothing
  <2> QED BY <2>1, <2>2
<1> QED BY <1>5, <1>6, <1>7, DamageStep DEF IInv

LEMMA TakeDamage ==
    ASSUME IInv, IInv', Stored, DamageInv, NEW r \in Requests, Take(r)
    PROVE  DamageInv'
<1>1. PICK u \in Users, s \in Requests : \E d \in Matches(u, s) :
         /\ subscriptions' = subscriptions \ {d}
         /\ doc' = [doc EXCEPT ![r] = d]
  BY DEF Take
<1>2. PICK d \in subscriptions :
         /\ subscriptions' = subscriptions \ {d}
         /\ doc' = [doc EXCEPT ![r] = d]
  BY <1>1 DEF Matches
<1>3. /\ pc[r] = "idle" /\ hit' \subseteq hit \cup {r} /\ hit \subseteq hit'
      /\ \E l \in {"credit", "failed"} : pc' = [pc EXCEPT ![r] = l]
      /\ UNCHANGED balance
  BY DEF Take, Returns, Goto, Fault, AfterFailure
<1>4. pc'[r] = "failed" => r \in hit'
  BY DEF Take, Returns, Goto, Fault, IInv, TypeOK
<1>5. /\ d \in Documents /\ d # None /\ d.amount \in Nat /\ doc[r] = None /\ doc'[r] = d
      /\ \A q \in Requests \ {r} : pc'[q] = pc[q] /\ doc'[q] = doc[q]
      /\ pc'[r] \in {"credit", "failed"}
      /\ Cost(r) = 0 /\ Cost(r)' = d.amount
  BY <1>2, <1>3, DocumentFields DEF IInv, TypeOK, DocsInv, Cost
<1>6. PICK x \in Int : x = -d.amount
  BY <1>5
<1>7. MovesAlone(r) /\ doc'[r] # None
  BY <1>3, <1>5 DEF MovesAlone
<1>8. ErrorMoves(r, x)
  BY <1>2, <1>3, <1>5, <1>6, StoreError DEF ErrorMoves, IInv
<1>9. LeftMoves(r, x)
  <2> SUFFICES ASSUME NEW y \in Int, LeftBy(r, y) PROVE LeftBy(r, y + x)'
    BY DEF LeftMoves
  <2>1. y = 0 /\ y + x = x
    BY <1>3 DEF LeftBy
  <2>2. LeftBy(r, x)'
    BY <1>4, <1>5, <1>6 DEF LeftBy
  <2> QED BY <2>1, <2>2
<1> QED BY <1>7, <1>8, <1>9, DamageStep DEF IInv

LEMMA CompensationDamage ==
    ASSUME IInv, IInv', Stored, DamageInv, NEW r \in Requests, Delete(r) \/ Reinsert(r)
    PROVE  DamageInv'
<1> DEFINE d == doc[r]
<1>1. /\ UNCHANGED <<balance, doc, hit>>
      /\ \/ pc[r] = "delete" /\ pc' = [pc EXCEPT ![r] = "refund"]
         \/ pc[r] = "reinsert" /\ pc' = [pc EXCEPT ![r] = "failed"]
         \/ pc[r] = "reinsert_debit" /\ pc' = [pc EXCEPT ![r] = "debit_back"]
  BY DEF Delete, Reinsert, Goto
<1>2. /\ r \in hit /\ d \in Documents /\ d # None /\ d.amount \in Nat
      /\ Cost(r) = d.amount /\ Cost(r)' = d.amount
      /\ \A q \in Requests \ {r} : pc'[q] = pc[q]
  BY <1>1, DocumentFields DEF IInv, TypeOK, DocsInv, HitInv, Busy, Subscribing,
     Cancelling, Cost, Faulty, Compensating
<1>3. \/ pc[r] = "delete" /\ pc'[r] = "refund"
      \/ pc[r] = "reinsert" /\ pc'[r] = "failed"
      \/ pc[r] = "reinsert_debit" /\ pc'[r] = "debit_back"
  BY <1>1 DEF IInv, TypeOK
<1>4. PICK x \in Int :
        /\ \/ d \notin subscriptions /\ subscriptions' = subscriptions \cup {d} /\ x = d.amount
           \/ d \in subscriptions /\ subscriptions' = subscriptions \ {d} /\ x = -d.amount
           \/ subscriptions' = subscriptions /\ x = 0
        /\ pc[r] = "delete" => x <= 0
        /\ pc[r] # "delete" => x >= 0
        /\ -Cost(r) <= x /\ x <= Cost(r)
  <2>1. CASE Delete(r)
    <3>1. \A e \in subscriptions : e.id = r => e = d
      BY DEF IInv, CreatorsInv, Created
    <3>2. d.id = r /\ pc[r] = "delete"
      BY <2>1 DEF Delete, IInv, DocsInv, Subscribing
    <3>3. subscriptions' = subscriptions \ {d}
      BY <2>1, <3>1, <3>2 DEF Delete
    <3>4. -d.amount \in Int /\ -d.amount <= 0 /\ 0 \in Int
      BY <1>2
    <3>5. CASE d \in subscriptions
      BY <1>2, <3>2, <3>3, <3>4, <3>5
    <3>6. CASE d \notin subscriptions
      <4>1. subscriptions' = subscriptions
        BY <3>3, <3>6
      <4> QED BY <1>2, <3>2, <3>4, <4>1
    <3> QED BY <3>5, <3>6
  <2>2. CASE Reinsert(r)
    <3>1. pc[r] # "delete"
      BY <2>2 DEF Reinsert
    <3>2. CASE CanInsert(d)
      <4>1. d \notin subscriptions /\ subscriptions' = subscriptions \cup {d}
        BY <2>2, <3>2 DEF Reinsert, CanInsert
      <4> QED BY <1>2, <3>1, <4>1
    <3>3. CASE ~CanInsert(d)
      <4>1. subscriptions' = subscriptions
        BY <2>2, <3>3 DEF Reinsert
      <4> QED BY <1>2, <3>1, <4>1
    <3> QED BY <3>2, <3>3
  <2> QED BY <2>1, <2>2
<1>5. MovesAlone(r) /\ doc'[r] # None
  BY <1>1, <1>2 DEF MovesAlone
<1>6. ErrorMoves(r, x)
  BY <1>1, <1>2, <1>4, StoreError DEF ErrorMoves, IInv
<1>7. LeftMoves(r, x)
  <2> SUFFICES ASSUME NEW y \in Int, LeftBy(r, y) PROVE LeftBy(r, y + x)'
    BY DEF LeftMoves
  <2>1. PICK c \in Nat : Cost(r) = c /\ Cost(r)' = c /\ -c <= x /\ x <= c
    BY <1>2, <1>4
  <2>2. r \in hit'
    BY <1>1, <1>2
  <2>3. CASE pc[r] = "reinsert"
    <3>1. -c <= y /\ y <= 0 /\ 0 <= x /\ pc'[r] = "failed"
      BY <1>3, <1>4, <2>1, <2>3 DEF LeftBy
    <3> QED BY <2>1, <2>2, <3>1 DEF LeftBy
  <2>4. CASE pc[r] = "delete"
    <3>1. y = 0 /\ y + x = x /\ x <= 0 /\ pc'[r] = "refund"
      BY <1>3, <1>4, <2>4 DEF LeftBy
    <3>2. LeftBy(r, x)'
      BY <2>1, <2>2, <3>1 DEF LeftBy
    <3> QED BY <3>1, <3>2
  <2>5. CASE pc[r] = "reinsert_debit"
    <3>1. y = 0 /\ y + x = x /\ x >= 0 /\ pc'[r] = "debit_back"
      BY <1>3, <1>4, <2>5 DEF LeftBy
    <3>2. LeftBy(r, x)'
      BY <2>1, <2>2, <3>1 DEF LeftBy
    <3> QED BY <3>1, <3>2
  <2> QED BY <1>3, <2>3, <2>4, <2>5
<1> QED BY <1>5, <1>6, <1>7, DamageStep DEF IInv

(* A crash moves nothing and hits every request it ends.                   *)
LEMMA CrashDamage ==
    ASSUME IInv, DamageInv, Crash
    PROVE  DamageInv'
<1>1. /\ UNCHANGED <<balance, subscriptions, doc>> /\ hit \subseteq hit'
      /\ \A q \in Requests : \/ pc'[q] = pc[q] /\ (q \in hit' <=> q \in hit)
                             \/ pc'[q] = "crashed"
  BY DEF Crash, InFlight
<1>2. PICK e : LeftByAll(e)
  BY DEF DamageInv
<1>3. \A q \in Requests : LeftBy(q, e[q])'
  BY <1>1, <1>2 DEF LeftByAll, LeftBy, Cost
<1>4. \A u \in Users : Error(u)' = Error(u) /\ Share(e, u)' = Share(e, u)
  BY <1>1 DEF Error, Share
<1> QED BY <1>2, <1>3, <1>4 DEF LeftByAll, DamageInv

(* A served request leaves nothing: what it takes it stores, and the other *)
(* way round.                                                              *)
LEMMA ServedDamage ==
    ASSUME IInv, IInv', Stored, DamageInv, NEW r \in Requests, Served(r)
    PROVE  DamageInv'
<1>1. PICK d \in Documents :
        /\ pc[r] = "idle" /\ pc'[r] = "ok" /\ doc[r] = None /\ doc'[r] = d /\ d # None
        /\ \A q \in Requests \ {r} : pc'[q] = pc[q] /\ doc'[q] = doc[q]
        /\ UNCHANGED hit
        /\ \/ ServedOpen(r, d) /\ d \notin subscriptions
           \/ ServedClose(d)
  BY ServedCases
<1>2. d.amount \in Nat /\ d.user \in Users /\ Cost(r) = 0 /\ Cost(r)' = d.amount
  BY <1>1, DocumentFields DEF Cost
<1>3. ASSUME NEW u \in Users PROVE Error(u)' = Error(u) /\ Error(u) \in Int
  <2>1. /\ balance[u] \in Int /\ AmountOf(subscriptions, u) \in Int /\ Part(d, u) \in Int
        /\ d \notin subscriptions =>
             AmountOf(subscriptions \cup {d}, u) = AmountOf(subscriptions, u) + Part(d, u)
        /\ d \in subscriptions =>
             AmountOf(subscriptions \ {d}, u) = AmountOf(subscriptions, u) - Part(d, u)
    BY ErrorType, AmountMoves DEF Stored, IInv
  <2>2. Part(d, u) = IF d.user = u THEN d.amount ELSE 0
    BY DEF Part
  <2>3. CASE ServedOpen(r, d) /\ d \notin subscriptions
    <3>1. balance'[u] = balance[u] - Part(d, u)
      BY <1>2, <2>1, <2>2, <2>3 DEF ServedOpen, Debited, IInv, TypeOK
    <3>2. AmountOf(subscriptions', u) = AmountOf(subscriptions, u) + Part(d, u)
      BY <2>1, <2>3 DEF ServedOpen
    <3> QED BY <2>1, <3>1, <3>2, DataAssumption DEF Error
  <2>4. CASE ServedClose(d)
    <3>1. balance'[u] = balance[u] + Part(d, u)
      BY <1>2, <2>1, <2>2, <2>4 DEF ServedClose, Credited, IInv, TypeOK
    <3>2. AmountOf(subscriptions', u) = AmountOf(subscriptions, u) - Part(d, u)
      BY <2>1, <2>4 DEF ServedClose
    <3> QED BY <2>1, <3>1, <3>2, DataAssumption DEF Error
  <2> QED BY <1>1, <2>3, <2>4
<1>4. MovesAlone(r)
  BY <1>1 DEF MovesAlone
<1>5. ErrorMoves(r, 0)
  BY <1>3 DEF ErrorMoves
<1>6. LeftMoves(r, 0)
  <2> SUFFICES ASSUME NEW y \in Int, LeftBy(r, y) PROVE LeftBy(r, y + 0)'
    BY DEF LeftMoves
  <2>1. y = 0 /\ y + 0 = 0
    BY <1>1 DEF LeftBy
  <2>2. LeftBy(r, 0)'
    BY <1>1, <1>2 DEF LeftBy
  <2> QED BY <2>1, <2>2
<1> QED BY <1>4, <1>5, <1>6, DamageStep DEF IInv

LEMMA NextDamage ==
    ASSUME IInv, IInv', DamageInv, [WideNext]_vars
    PROVE  DamageInv'
<1>1. CASE UNCHANGED <<balance, subscriptions, pc, doc, hit>>
  <2>1. PICK e : LeftByAll(e)
    BY DEF DamageInv
  <2>2. \A q \in Requests : LeftBy(q, e[q])'
    BY <1>1, <2>1 DEF LeftByAll, LeftBy, Cost
  <2>3. \A u \in Users : Error(u)' = Error(u) /\ Share(e, u)' = Share(e, u)
    BY <1>1 DEF Error, Share
  <2> QED BY <2>1, <2>2, <2>3 DEF LeftByAll, DamageInv
<1> QED BY <1>1, FiniteBooks, QuietDamage, BalanceDamage, InsertDamage, TakeDamage,
           CompensationDamage, CrashDamage, ServedDamage
        DEF WideNext, Next, Continue, SoftDelete, vars

LEMMA InitDamage == Init => DamageInv
<1> SUFFICES ASSUME Init PROVE DamageInv
  OBVIOUS
<1> DEFINE e == [r \in Requests |-> 0]
<1>1. \A r \in Requests : e[r] = 0 /\ LeftBy(r, e[r])
  BY DEF Init, LeftBy, Cost
<1>2. ASSUME NEW u \in Users PROVE Error(u) = SumFunctionOnSet(Share(e, u), Requests)
  <2>1. Of({}, u) = {}
    BY DEF Of
  <2>2. AmountOf({}, u) = 0
    BY <2>1, AmountIsTotal, TotalEmpty, FS_EmptySet
  <2>3. Error(u) = 0
    BY <2>2, DataAssumption DEF Init, Error
  <2>4. \A r \in Requests : Share(e, u)[r] = 0
    BY DEF Init, Share
  <2>5. SumFunctionOnSet(Share(e, u), Requests) = SumFunctionOnSet(Share(e, u), {})
    BY <2>4, SumSupport, DataAssumption
  <2> QED BY <2>3, <2>5, SumEmpty
<1>3. LeftByAll(e)
  BY <1>1, <1>2 DEF LeftByAll
<1> QED BY <1>3 DEF DamageInv
(* What a fault may have cost user u, request by request.                  *)
HitCost(u) ==
    [r \in Requests |->
       IF r \in hit /\ doc[r] # None /\ doc[r].user = u THEN doc[r].amount ELSE 0]

LEMMA HitAmountIsSum ==
    ASSUME TypeOK, NEW u
    PROVE  /\ HitAmount(u) = SumFunctionOnSet(HitCost(u), Requests)
           /\ \A r \in Requests : HitCost(u)[r] \in Nat
<1> DEFINE H == {q \in hit : doc[q] # None /\ doc[q].user = u}
           f == [r \in H |-> doc[r].amount]
           g == HitCost(u)
<1>1. H \in SUBSET Requests /\ IsFiniteSet(H)
  BY DataAssumption, FS_Subset DEF TypeOK
<1>2. /\ \A r \in H : f[r] = g[r]
      /\ \A r \in Requests : g[r] \in Nat /\ g[r] \in Int
      /\ \A r \in Requests \ H : g[r] = 0
  BY DocumentFields DEF TypeOK, HitCost
<1>3. HitAmount(u) = SumFunctionOnSet(f, H)
  BY Zenon DEF HitAmount, SumFunction
<1> HIDE DEF H, f
<1>4. SumFunctionOnSet(f, H) = SumFunctionOnSet(g, H)
  BY <1>1, <1>2, SumAgree
<1>5. SumFunctionOnSet(g, Requests) = SumFunctionOnSet(g, H)
  BY <1>1, <1>2, SumSupport, DataAssumption
<1> QED BY <1>2, <1>3, <1>4, <1>5

(* An answered request has left no more than a fault on it accounts for.   *)
LEMMA AnsweredLeft ==
    ASSUME IInv, Quiescent, NEW r \in Requests, NEW x, LeftBy(r, x), NEW u,
           doc[r] # None, doc[r].user = u
    PROVE  -HitCost(u)[r] <= x /\ x <= HitCost(u)[r]
<1>1. pc[r] \in {"idle", "ok", "rejected", "failed", "crashed"}
  BY DEF Quiescent, InFlight, IInv, TypeOK, Answers
<1>2. pc[r] = "crashed" => r \in hit
  BY DEF IInv, HitInv, Faulty
<1>3. doc[r].amount \in Nat /\ Cost(r) = doc[r].amount
  BY DocumentFields DEF IInv, TypeOK, Cost
<1>4. HitCost(u)[r] = IF r \in hit THEN doc[r].amount ELSE 0
  BY DEF HitCost
<1>5. CASE r \in hit
  BY <1>3, <1>4, <1>5 DEF LeftBy
<1>6. CASE r \notin hit
  <2>1. x = 0
    BY <1>1, <1>2, <1>6 DEF LeftBy
  <2> QED BY <1>4, <1>6, <2>1
<1> QED BY <1>5, <1>6

LEMMA WideDamage == WideSpec => []DamageBounded
<1>1. IInv /\ DamageInv => DamageBounded
  <2> SUFFICES ASSUME IInv, DamageInv, Quiescent, NEW u \in Users
               PROVE  -HitAmount(u) <= Error(u) /\ Error(u) <= HitAmount(u)
    BY DEF DamageBounded, Error
  <2>1. PICK e : LeftByAll(e)
    BY DEF DamageInv
  <2> DEFINE f == Share(e, u)
             g == HitCost(u)
             m == [r \in Requests |-> -g[r]]
  <2>2. \A r \in Requests : e[r] \in Int /\ g[r] \in Nat
    BY <2>1, HitAmountIsSum DEF LeftByAll, IInv
  <2>3. ASSUME NEW r \in Requests PROVE f[r] \in Int /\ -g[r] <= f[r] /\ f[r] <= g[r]
    <3>1. CASE doc[r] # None /\ doc[r].user = u
      <4>1. f[r] = e[r]
        BY <3>1 DEF Share
      <4>2. LeftBy(r, e[r])
        BY <2>1 DEF LeftByAll
      <4> QED BY <2>2, <3>1, <4>1, <4>2, AnsweredLeft
    <3>2. CASE ~(doc[r] # None /\ doc[r].user = u)
      <4>1. f[r] = 0
        BY <3>2 DEF Share
      <4> QED BY <2>2, <4>1
    <3> QED BY <3>1, <3>2
  <2>4. Error(u) = SumFunctionOnSet(f, Requests)
    BY <2>1 DEF LeftByAll
  <2>5. HitAmount(u) = SumFunctionOnSet(g, Requests)
    BY HitAmountIsSum DEF IInv
  <2> HIDE DEF f, g
  <2>6. SumFunctionOnSet(f, Requests) <= SumFunctionOnSet(g, Requests)
    BY <2>2, <2>3, SumMonotonic, DataAssumption
  <2>7. \A r \in Requests : m[r] \in Int /\ m[r] = -g[r] /\ g[r] \in Int
    BY <2>2
  <2> HIDE DEF m
  <2>8. SumFunctionOnSet(m, Requests) <= SumFunctionOnSet(f, Requests)
    BY <2>3, <2>7, SumMonotonic, DataAssumption
  <2>9. SumFunctionOnSet(m, Requests) = -SumFunctionOnSet(g, Requests)
    BY <2>7, SumNegate, DataAssumption
  <2> QED BY <2>4, <2>5, <2>6, <2>8, <2>9
<1>2. IInv /\ IInv' /\ DamageInv /\ [WideNext]_vars => DamageInv'
  BY NextDamage
<1> QED BY <1>1, <1>2, InitDamage, Invariance, PTL DEF WideSpec

(* Whatever calls are refused, replies lost, compensations broken off or   *)
(* processes killed: when nothing is in flight, the books of a user are    *)
(* wrong by no more than the amounts of the requests that were hit.        *)
THEOREM DamageIsBounded == Spec => []DamageBounded
BY WideDamage, SpecIsWide, PTL

----------------------------------------------------------------------------
(* The refinement: until a fault hits, an insert is the step that opens a  *)
(* subscription in the ledger, a find_one_and_delete the one that closes   *)
(* it, and no other call shows.                                            *)
Wallet == [u \in Users |-> balance[u] + AmountOf(InHand, u)]

Journal == transactions
             \cup {Row("OPEN", d) : d \in At({"audit"})}
             \cup {Row("CANCEL", d) : d \in BeingClosed}

LEMMA JournalRows ==
    /\ \A row : row \in Journal <=>
         \/ row \in transactions
         \/ \E q \in Requests : pc[q] = "audit" /\ row = Row("OPEN", doc[q])
         \/ \E q \in Requests :
              pc[q] \in {"credit", "audit_cancel"} /\ row = Row("CANCEL", doc[q])
    /\ \A row : row \in Journal' <=>
         \/ row \in transactions'
         \/ \E q \in Requests : pc'[q] = "audit" /\ row = Row("OPEN", doc'[q])
         \/ \E q \in Requests :
              pc'[q] \in {"credit", "audit_cancel"} /\ row = Row("CANCEL", doc'[q])
BY DEF Journal, BeingClosed, At

(* A fund's minimum is met by every document a request carries.            *)
MinimumInv ==
    \A r \in Requests : doc[r] # None => doc[r].amount >= Minimum[doc[r].fund]

LEMMA NextMinimum == IInv /\ MinimumInv /\ [WideNext]_vars => MinimumInv'
<1> SUFFICES ASSUME IInv, MinimumInv, [WideNext]_vars PROVE MinimumInv'
  OBVIOUS
<1>1. CASE UNCHANGED doc
  BY <1>1 DEF MinimumInv
<1>2. ASSUME NEW r \in Requests, Lookup(r) PROVE MinimumInv'
  <2>1. PICK u \in Users, f \in Funds, a \in Amounts :
          \/ Acceptable(f, a) /\ doc' = [doc EXCEPT ![r] = Subscription(r, u, f, a)]
          \/ UNCHANGED doc
    BY <1>2, DataAssumption DEF Lookup, EffectiveAmount
  <2> QED BY <2>1 DEF IInv, TypeOK, MinimumInv, Acceptable, Subscription
<1>3. ASSUME NEW r \in Requests, Take(r) PROVE MinimumInv'
  <2>1. PICK u \in Users, s \in Requests : \E d \in Matches(u, s) :
           doc' = [doc EXCEPT ![r] = d]
    BY <1>3 DEF Take
  <2>2. PICK d \in subscriptions : doc' = [doc EXCEPT ![r] = d]
    BY <2>1 DEF Matches
  <2>3. d # None /\ d.id \in Requests /\ doc[d.id] = d
    BY DocumentFields DEF IInv, TypeOK, CreatorsInv, Created
  <2> QED BY <2>2, <2>3 DEF IInv, TypeOK, MinimumInv
<1>4. ASSUME NEW r \in Requests, Served(r) PROVE MinimumInv'
  <2>1. PICK d \in Documents :
          /\ d # None /\ doc'[r] = d
          /\ \A q \in Requests \ {r} : doc'[q] = doc[q]
          /\ ServedOpen(r, d) \/ Created(d)
    BY <1>4, ServedCases
  <2>2. d.amount >= Minimum[d.fund]
    BY <2>1, DocumentFields DEF ServedOpen, Created, MinimumInv
  <2> QED BY <2>1, <2>2 DEF MinimumInv
<1> QED BY <1>1, <1>2, <1>3, <1>4 DEF Next, WideNext, Continue, NotFound, Check, Debit, Insufficient,
    Insert, Duplicate, Audit, Delete, Refund, Credit, AuditCancel, Reinsert,
    DebitBack, Refused, SoftDelete, Crash, vars

(* The ledger's wallet is what the stored subscriptions leave of the       *)
(* initial balance, and covers the money in every request's hands.         *)
Remaining == [u \in Users |-> InitialBalance - AmountOf(subscriptions, u)]

LEMMA WalletFacts ==
    ASSUME IInv, MoneyAccounted, hit = {}
    PROVE  /\ Wallet = Remaining
           /\ \A u \in Users : AmountOf(subscriptions, u) \in Int
           /\ \A d \in InHand : d.user \in Users /\ d.amount <= Wallet[d.user]
<1>1. /\ Stored /\ OutOfWallet \subseteq Documents /\ IsFiniteSet(OutOfWallet)
      /\ InHand \subseteq Documents /\ IsFiniteSet(InHand)
  BY FiniteBooks, FS_Subset DEF PaidFor, OutOfWallet
<1>2. subscriptions \cap InHand = {}
  <2> SUFFICES ASSUME NEW r \in Requests, pc[r] \in {"insert", "refund", "credit"},
                      doc[r] \in subscriptions
               PROVE  FALSE
    BY DEF InHand, At
  <2>1. CASE pc[r] = "insert"
    BY <2>1 DEF IInv, DocsInv, CreatorsInv, Created, Subscribing
  <2>2. CASE pc[r] # "insert"
    BY <2>2, InOneHand
  <2> QED BY <2>1, <2>2
<1>3. ASSUME NEW u \in Users
      PROVE  /\ AmountOf(subscriptions, u) \in Int
             /\ balance[u] + AmountOf(InHand, u) = InitialBalance - AmountOf(subscriptions, u)
  <2>1. /\ AmountOf(subscriptions, u) = Total(Of(subscriptions, u))
        /\ AmountOf(InHand, u) = Total(Of(InHand, u))
        /\ AmountOf(OutOfWallet, u) = Total(Of(OutOfWallet, u))
        /\ IsFiniteSet(Of(OutOfWallet, u))
        /\ \A d \in Of(OutOfWallet, u) : d.amount \in Int
        /\ Total(Of(subscriptions, u)) \in Int /\ Total(Of(InHand, u)) \in Int
    BY <1>1, AmountIsTotal DEF Stored
  <2> DEFINE A == Of(subscriptions, u)
             B == Of(InHand, u)
  <2>2. Of(OutOfWallet, u) = A \cup B /\ A \cap B = {}
    BY <1>2 DEF Of, OutOfWallet
  <2>3. IsFiniteSet(A \cup B) /\ \A d \in A \cup B : d.amount \in Int
    BY <2>1, <2>2
  <2> HIDE DEF A, B
  <2>4. Total(A \cup B) = Total(A) + Total(B)
    BY <2>2, <2>3, TotalUnion
  <2>5. Total(Of(OutOfWallet, u)) = Total(A \cup B)
    BY <2>2, Zenon
  <2>6. balance[u] + AmountOf(OutOfWallet, u) = InitialBalance /\ balance[u] \in Int
    BY DEF MoneyAccounted, IInv, TypeOK
  <2> QED BY <2>1, <2>4, <2>5, <2>6, DataAssumption DEF A, B
<1>4. ASSUME NEW d \in InHand
      PROVE  d.user \in Users /\ d.amount <= balance[d.user] + AmountOf(InHand, d.user)
  <2> DEFINE u == d.user
             B == Of(InHand, u)
  <2>1. u \in Users /\ d \in B
    BY <1>1, <1>4, DocumentFields DEF Of
  <2>2. /\ AmountOf(InHand, u) = Total(B) /\ IsFiniteSet(B)
        /\ \A e \in B : e.amount \in Nat
        /\ Total(B) \in Int
    BY <1>1, AmountIsTotal
  <2>3. d.amount <= Total(B) /\ d.amount \in Nat
    BY <2>1, <2>2, TotalMember
  <2>4. balance[u] \in Int /\ balance[u] >= 0
    BY <2>1 DEF IInv, TypeOK, NoOverdraft
  <2> QED BY <2>1, <2>2, <2>3, <2>4
<1> QED BY <1>1, <1>3, <1>4 DEF Wallet, Remaining

Booked == IInv /\ MoneyAccounted /\ LogInv /\ MinimumInv /\ hit = {}

InvestsTheRest == Wallet = Remaining

LEMMA WalletNow == Booked => InvestsTheRest
BY WalletFacts DEF Booked, InvestsTheRest

LEMMA WalletNext == Booked' => InvestsTheRest'
BY WalletNow, PTL

(* A step of the ledger, as it looks from here.                            *)
Opens(d) ==
    /\ Wallet[d.user] >= d.amount /\ d.amount >= Minimum[d.fund]
    /\ \A e \in subscriptions : e.user = d.user => e.fund # d.fund
    /\ \A row \in Journal : row.doc.id # d.id
    /\ Wallet' = [Wallet EXCEPT ![d.user] = @ - d.amount]
    /\ subscriptions' = subscriptions \cup {d}
    /\ Journal' = Journal \cup {Row("OPEN", d)}

Closes(d) ==
    /\ d \in subscriptions
    /\ Wallet' = [Wallet EXCEPT ![d.user] = @ + d.amount]
    /\ subscriptions' = subscriptions \ {d}
    /\ Journal' = Journal \cup {Row("CANCEL", d)}

(* When one document comes or goes, the ledger's wallet follows.           *)
LEMMA WalletMoves ==
    ASSUME Booked, Booked', NEW d \in Documents
    PROVE  /\ d \notin subscriptions /\ subscriptions' = subscriptions \cup {d}
                => Wallet' = [Wallet EXCEPT ![d.user] = @ - d.amount]
           /\ d \in subscriptions /\ subscriptions' = subscriptions \ {d}
                => Wallet' = [Wallet EXCEPT ![d.user] = @ + d.amount]
<1>1. /\ Wallet = [u \in Users |-> InitialBalance - AmountOf(subscriptions, u)]
      /\ Wallet' = [u \in Users |-> InitialBalance - AmountOf(subscriptions', u)]
  BY WalletNow, WalletNext DEF InvestsTheRest, Remaining
<1>2. /\ \A u \in Users : AmountOf(subscriptions, u) \in Int
      /\ Stored /\ d.amount \in Int /\ InitialBalance \in Int
  BY WalletFacts, FiniteBooks, DocumentFields, DataAssumption DEF Booked
<1>3. ASSUME d \notin subscriptions, subscriptions' = subscriptions \cup {d}
      PROVE  Wallet' = [Wallet EXCEPT ![d.user] = @ - d.amount]
  <2>1. ASSUME NEW u \in Users
        PROVE  InitialBalance - AmountOf(subscriptions', u) =
                 InitialBalance - AmountOf(subscriptions, u)
                   - (IF u = d.user THEN d.amount ELSE 0)
    <3>1. /\ AmountOf(subscriptions, u) \in Int /\ Part(d, u) \in Int
          /\ AmountOf(subscriptions', u) = AmountOf(subscriptions, u) + Part(d, u)
      BY <1>2, <1>3, AmountMoves DEF Stored
    <3>2. Part(d, u) = IF u = d.user THEN d.amount ELSE 0
      BY DEF Part
    <3> QED BY <1>2, <3>1, <3>2
  <2> QED BY <1>1, <1>2, <2>1
<1>4. ASSUME d \in subscriptions, subscriptions' = subscriptions \ {d}
      PROVE  Wallet' = [Wallet EXCEPT ![d.user] = @ + d.amount]
  <2>1. ASSUME NEW u \in Users
        PROVE  InitialBalance - AmountOf(subscriptions', u) =
                 InitialBalance - AmountOf(subscriptions, u)
                   + (IF u = d.user THEN d.amount ELSE 0)
    <3>1. /\ AmountOf(subscriptions, u) \in Int /\ Part(d, u) \in Int
          /\ AmountOf(subscriptions', u) = AmountOf(subscriptions, u) - Part(d, u)
      BY <1>2, <1>4, AmountMoves DEF Stored
    <3>2. Part(d, u) = IF u = d.user THEN d.amount ELSE 0
      BY DEF Part
    <3> QED BY <1>2, <3>1, <3>2
  <2> QED BY <1>1, <1>2, <2>1
<1> QED BY <1>3, <1>4

(* No row has the id of a request that has not inserted its document.      *)
LEMMA JournalIsPast ==
    ASSUME Booked, NEW r \in Requests, pc[r] \in {"idle", "insert"}
    PROVE  \A row \in Journal : row.doc.id # r
<1>1. ASSUME NEW e, pc[e.id] \in {"audit", "ok"} PROVE e.id # r
  BY <1>1
<1>2. ASSUME NEW q \in Requests, Held(q) PROVE doc[q].id # r
  BY <1>2 DEF Booked, IInv, CreatorsInv, Created, PastInsert
<1>3. ASSUME NEW row \in transactions PROVE row.doc.id # r
  BY <1>1, <1>2 DEF Booked, LogInv, Logged, Held
<1>4. ASSUME NEW q \in Requests, pc[q] = "audit" PROVE doc[q].id # r
  BY <1>4 DEF Booked, IInv, DocsInv, Subscribing
<1>5. ASSUME NEW q \in Requests, pc[q] \in {"credit", "audit_cancel"}
      PROVE  doc[q].id # r
  BY <1>2, <1>5 DEF Booked, IInv, DocsInv, Cancelling, Held, Holding
<1> QED BY <1>3, <1>4, <1>5, JournalRows DEF Row

(* How an insert and a find_one_and_delete look to the ledger.             *)
LEMMA InsertOpens ==
    ASSUME Booked, Booked', NEW r \in Requests, Insert(r)
    PROVE  \E d \in Documents : Opens(d)
<1>0. PICK d \in Documents : d = doc[r]
  BY DEF Insert, Booked, IInv, DocsInv, Busy, Subscribing
<1>1. /\ doc[r] = d /\ pc[r] = "insert" /\ pc' = [pc EXCEPT ![r] = "audit"] /\ CanInsert(d)
      /\ subscriptions' = subscriptions \cup {d}
      /\ UNCHANGED <<balance, doc, transactions>>
  BY <1>0 DEF Insert, Returns, Goto, Fault, Booked
<1>2. /\ pc'[r] = "audit" /\ \A q \in Requests \ {r} : pc'[q] = pc[q]
      /\ d # None /\ d.id = r /\ d.user \in Users /\ d \in InHand /\ d.amount \in Int
  BY <1>1, DocumentFields DEF Booked, IInv, TypeOK, DocsInv, Busy, Subscribing, InHand, At
<1>3. Wallet[d.user] >= d.amount
  <2>1. d.amount <= Wallet[d.user]
    BY <1>2, WalletFacts DEF Booked
  <2>2. Wallet[d.user] \in Int
    BY <1>2, WalletFacts, DataAssumption DEF Booked, Remaining
  <2> QED BY <1>2, <2>1, <2>2
<1>4. d.amount >= Minimum[d.fund]
  BY <1>1, <1>2 DEF Booked, MinimumInv
<1>5. /\ \A e \in subscriptions : e.user = d.user => e.fund # d.fund
      /\ d \notin subscriptions
  BY <1>1 DEF CanInsert
<1>6. \A row \in Journal : row.doc.id # d.id
  BY <1>1, <1>2, JournalIsPast
<1>7. Wallet' = [Wallet EXCEPT ![d.user] = @ - d.amount]
  BY <1>1, <1>5, WalletMoves
<1>8. Journal' = Journal \cup {Row("OPEN", d)}
  BY <1>1, <1>2, JournalRows
<1> QED BY <1>1, <1>3, <1>4, <1>5, <1>6, <1>7, <1>8 DEF Opens

LEMMA TakeCloses ==
    ASSUME Booked, Booked', NEW r \in Requests, Take(r)
    PROVE  \E d \in Documents : Closes(d)
<1>1. PICK u \in Users, s \in Requests : \E d \in Matches(u, s) :
         /\ subscriptions' = subscriptions \ {d}
         /\ doc' = [doc EXCEPT ![r] = d]
  BY DEF Take
<1>2. PICK d \in subscriptions :
         /\ subscriptions' = subscriptions \ {d}
         /\ doc' = [doc EXCEPT ![r] = d]
  BY <1>1 DEF Matches
<1>3. /\ pc[r] = "idle" /\ pc' = [pc EXCEPT ![r] = "credit"] /\ UNCHANGED transactions
  BY DEF Take, Returns, Goto, Fault, Booked
<1>4. /\ pc'[r] = "credit" /\ doc'[r] = d
      /\ \A q \in Requests \ {r} : pc'[q] = pc[q] /\ doc'[q] = doc[q]
      /\ d \in Documents
  BY <1>2, <1>3 DEF Booked, IInv, TypeOK
<1>5. Wallet' = [Wallet EXCEPT ![d.user] = @ + d.amount]
  BY <1>2, <1>4, WalletMoves
<1>6. Journal' = Journal \cup {Row("CANCEL", d)}
  BY <1>3, <1>4, JournalRows
<1> QED BY <1>2, <1>4, <1>5, <1>6 DEF Closes

(* A served request opens or closes its document at once.                  *)
LEMMA ServedTransacts ==
    ASSUME Booked, Booked', NEW r \in Requests, Served(r)
    PROVE  \E d \in Documents : Opens(d) \/ Closes(d)
<1>1. PICK d \in Documents :
        /\ pc[r] = "idle" /\ pc'[r] = "ok"
        /\ \A q \in Requests \ {r} : pc'[q] = pc[q] /\ doc'[q] = doc[q]
        /\ \/ ServedOpen(r, d) /\ d \notin subscriptions
           \/ ServedClose(d)
  BY ServedCases DEF Booked
<1>2. \A q \in Requests :
        pc[q] \in {"audit", "credit", "audit_cancel"} \/ pc'[q] \in {"audit", "credit", "audit_cancel"}
          => q # r /\ pc'[q] = pc[q] /\ doc'[q] = doc[q]
  BY <1>1
<1>3. CASE ServedOpen(r, d) /\ d \notin subscriptions
  <2>1. Wallet' = [Wallet EXCEPT ![d.user] = @ - d.amount]
    BY <1>3, WalletMoves DEF ServedOpen
  <2>2. Wallet[d.user] >= d.amount
    <3>1. /\ d.user \in Users /\ d.amount \in Int
          /\ balance[d.user] \in Int /\ balance[d.user] >= d.amount
          /\ Wallet[d.user] = balance[d.user] + AmountOf(InHand, d.user)
      BY <1>3, DocumentFields DEF ServedOpen, CanDebit, Wallet, Booked, IInv, TypeOK
    <3>2. AmountOf(InHand, d.user) \in Int /\ AmountOf(InHand, d.user) >= 0
      <4>1. InHand \subseteq Documents /\ IsFiniteSet(InHand)
        BY FiniteBooks, FS_Subset DEF PaidFor, OutOfWallet, Booked
      <4>2. /\ AmountOf(InHand, d.user) = Total(Of(InHand, d.user))
            /\ IsFiniteSet(Of(InHand, d.user))
            /\ \A e \in Of(InHand, d.user) : e.amount \in Nat
        BY <4>1, AmountIsTotal
      <4>3. CASE Of(InHand, d.user) = {}
        BY <4>2, <4>3, TotalEmpty
      <4>4. ASSUME NEW e \in Of(InHand, d.user)
            PROVE  AmountOf(InHand, d.user) \in Int /\ AmountOf(InHand, d.user) >= 0
        <5>1. /\ e.amount \in Nat /\ e.amount <= Total(Of(InHand, d.user))
              /\ Total(Of(InHand, d.user)) \in Int
          BY <4>1, <4>2, <4>4, TotalMember, AmountIsTotal
        <5> QED BY <4>2, <5>1
      <4> QED BY <4>3, <4>4
    <3> QED BY <3>1, <3>2
  <2>3. \A row \in Journal : row.doc.id # d.id
    BY <1>1, <1>3, JournalIsPast DEF ServedOpen
  <2>4. Journal' = Journal \cup {Row("OPEN", d)}
    BY <1>2, <1>3, JournalRows DEF ServedOpen
  <2> QED BY <1>3, <2>1, <2>2, <2>3, <2>4 DEF Opens, ServedOpen, CanInsert
<1>4. CASE ServedClose(d)
  <2>1. Wallet' = [Wallet EXCEPT ![d.user] = @ + d.amount]
    BY <1>4, WalletMoves DEF ServedClose
  <2>2. Journal' = Journal \cup {Row("CANCEL", d)}
    BY <1>2, <1>4, JournalRows DEF ServedClose
  <2> QED BY <1>4, <2>1, <2>2 DEF Closes, ServedClose
<1> QED BY <1>1, <1>3, <1>4

(* Every other call: what it logs was already about to be logged.          *)
LEMMA OthersStutter ==
    ASSUME Booked, Booked', [Next]_vars, UNCHANGED subscriptions
    PROVE  Wallet' = Wallet /\ Journal' = Journal
<1>1. Wallet' = Wallet
  BY WalletNow, WalletNext DEF InvestsTheRest, Remaining
<1>2. ASSUME NEW r \in Requests,
             Delete(r) \/ Reinsert(r) \/ DebitBack(r) \/ Refused(r)
      PROVE  FALSE
  BY <1>2 DEF Delete, Reinsert, DebitBack, Refused, Fault, Booked, IInv, HitInv, Faulty,
     Compensating
<1>3. ASSUME NEW r \in Requests, Insert(r) \/ Take(r) PROVE FALSE
  BY <1>3 DEF Insert, Take, CanInsert, Matches
<1>4. CASE UNCHANGED <<transactions, pc, doc>>
  BY <1>4, JournalRows
<1>5. ASSUME NEW r \in Requests,
             \/ Lookup(r) \/ Check(r) \/ Debit(r) \/ Insufficient(r) \/ Duplicate(r)
             \/ NotFound(r) \/ Refund(r) \/ Credit(r)
      PROVE  Journal' = Journal
  <2>1. PICK l : <<pc[r], l>> \in QuietMoves /\ pc' = [pc EXCEPT ![r] = l]
    BY <1>5 DEF QuietMoves, Lookup, Check, Debit, Insufficient, Duplicate, NotFound, Refund,
       Credit, Returns, Goto, Fault, Booked
  <2>2. /\ UNCHANGED transactions
        /\ \A q \in Requests : q # r \/ pc[r] = "credit" => doc'[q] = doc[q]
    BY <1>5 DEF Lookup, Check, Debit, Insufficient, Duplicate, NotFound, Refund,
       Credit, Booked, IInv, TypeOK
  <2>3. /\ pc'[r] = l /\ \A q \in Requests \ {r} : pc'[q] = pc[q]
        /\ pc[r] # "audit" /\ l # "audit"
        /\ (pc[r] \in {"credit", "audit_cancel"} <=> l \in {"credit", "audit_cancel"})
        /\ pc[r] \in {"credit", "audit_cancel"} => pc[r] = "credit"
    BY <2>1 DEF QuietMoves, Booked, IInv, TypeOK
  <2>4. \A q \in Requests :
          /\ pc'[q] = "audit" <=> pc[q] = "audit"
          /\ pc'[q] \in {"credit", "audit_cancel"} <=> pc[q] \in {"credit", "audit_cancel"}
          /\ pc[q] \in {"audit", "credit", "audit_cancel"} => doc'[q] = doc[q]
    BY <2>2, <2>3
  <2>5. \A row : row \in Journal' <=> row \in Journal
    BY <2>2, <2>4, JournalRows
  <2> QED BY <2>5
<1>6. ASSUME NEW r \in Requests, Audit(r) \/ AuditCancel(r) PROVE Journal' = Journal
  <2>1. /\ pc' = [pc EXCEPT ![r] = "ok"] /\ UNCHANGED doc
        /\ \/ pc[r] = "audit" /\ transactions' = transactions \cup {Row("OPEN", doc[r])}
           \/ pc[r] = "audit_cancel"
              /\ transactions' = transactions \cup {Row("CANCEL", doc[r])}
    BY <1>6 DEF Audit, AuditCancel, Returns, Goto, Fault, Booked
  <2>2. pc'[r] = "ok" /\ \A q \in Requests \ {r} : pc'[q] = pc[q]
    BY <2>1 DEF Booked, IInv, TypeOK
  <2>3. \A row : row \in Journal' <=> row \in Journal
    BY <2>1, <2>2, JournalRows
  <2> QED BY <2>3
<1>7. ~Crash
  BY DEF Crash, Booked
<1> QED BY <1>1, <1>2, <1>3, <1>4, <1>5, <1>6, <1>7 DEF Next, Continue, SoftDelete, vars

(* Every step is one of the ledger's, or does not show.                    *)
LEMMA WideTransacts ==
    Booked /\ Booked' /\ [WideNext]_vars
      => \/ \E d \in Documents : Opens(d) \/ Closes(d)
         \/ UNCHANGED <<Wallet, subscriptions, Journal>>
<1> SUFFICES ASSUME Booked, Booked', [WideNext]_vars
             PROVE  \/ \E d \in Documents : Opens(d) \/ Closes(d)
                    \/ UNCHANGED <<Wallet, subscriptions, Journal>>
  OBVIOUS
<1>1. CASE UNCHANGED subscriptions /\ [Next]_vars
  BY <1>1, OthersStutter
<1>2. ASSUME NEW r \in Requests, Delete(r) \/ Reinsert(r) PROVE FALSE
  BY <1>2 DEF Delete, Reinsert, Booked, IInv, HitInv, Faulty, Compensating
<1>3. ASSUME UNCHANGED vars PROVE UNCHANGED subscriptions
  BY <1>3 DEF vars
<1>4. ASSUME Next PROVE \/ UNCHANGED subscriptions
                        \/ \E r \in Requests :
                             Insert(r) \/ Take(r) \/ Delete(r) \/ Reinsert(r)
  BY <1>4 DEF Next, Continue, Lookup, NotFound, Check, Debit, Insufficient, Duplicate,
     Audit, Refund, Credit, AuditCancel, DebitBack, Refused, SoftDelete, Crash
<1> QED BY <1>1, <1>2, <1>3, <1>4, InsertOpens, TakeCloses, ServedTransacts DEF WideNext

(* What holds of the books whatever happens; Booked is the part of it that *)
(* the ledger needs, and needs no fault for.                               *)
Books == IInv /\ MoneyAccounted /\ LogInv /\ MinimumInv

LEMMA WideBooks == WideSpec => []Books
<1>1. Init => MinimumInv
  BY DEF Init, MinimumInv
<1>2. IInv /\ MinimumInv /\ [WideNext]_vars => MinimumInv'
  BY NextMinimum
<1>3. IInv /\ LogInv /\ [WideNext]_vars => LogInv'
  BY NextLog
<1> QED BY <1>1, <1>2, <1>3, InitLog, Invariance, WideMoney, PTL DEF WideSpec, Books

LEMMA WideBooked == WideSpec /\ [](hit = {}) => []Booked
<1>1. Books /\ hit = {} => Booked
  BY DEF Books, Booked
<1> QED BY <1>1, WideBooks, PTL

(* A request that was hit stays hit.                                       *)
LEMMA HitGrows == [WideNext]_vars => hit \subseteq hit'
<1> SUFFICES ASSUME [WideNext]_vars PROVE hit \subseteq hit'
  OBVIOUS
<1>1. \A r, l : Returns(r, l) => hit \subseteq hit'
  BY DEF Returns, Fault
<1> QED BY <1>1 DEF WideNext, Next, Served, Continue, Lookup, Take, NotFound, Refused, Fault,
        SoftDelete, Crash, Check, Debit, Insufficient, Insert, Duplicate, Audit, Delete,
        Refund, Credit, AuditCancel, Reinsert, DebitBack, vars

LEMMA InitLedger ==
    Init => /\ Wallet = [u \in Users |-> InitialBalance]
            /\ subscriptions = {}
            /\ Journal = {}
<1> SUFFICES ASSUME Init
             PROVE  Wallet = [u \in Users |-> InitialBalance] /\ Journal = {}
  BY DEF Init
<1>1. InHand = {} /\ Journal = {}
  BY DEF Init, InHand, Journal, BeingClosed, At
<1>2. ASSUME NEW u \in Users PROVE AmountOf(InHand, u) = 0
  <2>1. AmountOf({}, u) = Total(Of({}, u)) /\ Of({}, u) = {}
    BY Zenon DEF AmountOf, Total, Of
  <2> QED BY <1>1, <2>1, TotalEmpty
<1>3. Wallet = [u \in Users |-> InitialBalance]
  BY <1>2, DataAssumption DEF Wallet, Init
<1> QED BY <1>1, <1>3

(* Without transactions the code still implements the atomic ledger, in    *)
(* every behaviour no fault hits: whatever the interleaving of the calls,  *)
(* with the lost insert races and their compensation, wallets, holdings    *)
(* and journal move together, one whole subscribe or cancel at a time.     *)
THEOREM FallbackRefinesLedger == Spec /\ [](hit = {}) => ImplementsLedger
<1>1. Init => AtomicLedger!LedgerInit
  BY InitLedger DEF Wallet, Journal, AtomicLedger!LedgerInit, AtomicLedger!Row, Row
<1>2. Booked /\ Booked' /\ [WideNext]_vars
        => [AtomicLedger!LedgerNext]_(AtomicLedger!ledgerVars)
  <2> SUFFICES ASSUME Booked, Booked', [WideNext]_vars
               PROVE  AtomicLedger!LedgerNext \/ UNCHANGED AtomicLedger!ledgerVars
    OBVIOUS
  <2>1. ASSUME NEW d, Opens(d) PROVE AtomicLedger!Open(d)
    BY <2>1 DEF Opens, Wallet, Journal, AtomicLedger!Open, AtomicLedger!Row, Row
  <2>2. ASSUME NEW d, Closes(d) PROVE AtomicLedger!Close(d)
    BY <2>2 DEF Closes, Wallet, Journal, AtomicLedger!Close, AtomicLedger!Row, Row
  <2>3. ASSUME UNCHANGED <<Wallet, subscriptions, Journal>>
        PROVE  UNCHANGED AtomicLedger!ledgerVars
    BY <2>3 DEF AtomicLedger!ledgerVars, Wallet, Journal, AtomicLedger!Row, Row
  <2> QED BY <2>1, <2>2, <2>3, WideTransacts DEF AtomicLedger!LedgerNext,
          AtomicLedger!Documents, Documents
<1> QED BY <1>1, <1>2, WideBooked, SpecIsWide, PTL
    DEF WideSpec, ImplementsLedger, AtomicLedger!LedgerSpec

(* No call fails and no reply or process is lost.                          *)
Faultless == FaultKinds = {} /\ hit = {}

(* In particular where no fault can happen, as in the run without faults.  *)
THEOREM FaultlessRefinesLedger == FaultKinds = {} /\ Spec => ImplementsLedger
<1>1. FaultKinds = {} /\ Init => Faultless
  BY DEF Init, Faultless
<1>2. Faultless /\ [Next]_vars => Faultless'
  <2> SUFFICES ASSUME FaultKinds = {}, [Next]_vars PROVE hit' = hit
    BY DEF Faultless
  <2>1. ASSUME NEW kind, NEW r, Fault(kind, r) PROVE FALSE
    BY <2>1 DEF Fault
  <2>2. ASSUME NEW r, NEW label, Returns(r, label) PROVE hit' = hit
    BY <2>1, <2>2 DEF Returns
  <2>3. ASSUME NEW r, Refused(r) PROVE FALSE
    BY <2>1, <2>3 DEF Refused
  <2>4. ~Crash
    BY DEF Crash
  <2>5. ASSUME NEW r \in Requests, Continue(r) \/ Lookup(r) \/ Take(r) \/ NotFound(r)
        PROVE  hit' = hit
    BY <2>2, <2>3, <2>5 DEF Continue, Lookup, Take, NotFound, Check, Debit, Insufficient,
       Insert, Duplicate, Audit, Delete, Refund, Credit, AuditCancel, Reinsert, DebitBack
  <2> QED BY <2>2, <2>3, <2>4, <2>5 DEF Next, SoftDelete, vars
<1>3. Faultless => hit = {}
  BY DEF Faultless
<1> QED BY <1>1, <1>2, <1>3, FallbackRefinesLedger, PTL DEF Spec
=============================================================================
