----------------------- MODULE SubscriptionsTxnProofs -----------------------
(***************************************************************************)
(* Theorems about the transaction mode, alone and with requests that have  *)
(* no session on the same collections, for any users, funds, amounts and   *)
(* requests and any number of faults.                                      *)
(*                                                                         *)
(* Both are about the same invariant IInv(others), where the requests in   *)
(* others have no session: they write outside transactions, and only where *)
(* no open transaction has.  The transaction mode alone is IInv({}).       *)
(***************************************************************************)
EXTENDS SubscriptionsMixed, SumTheorems, TLAPS

Labels == {"idle", "check", "debit"} \cup WroteUser \cup Deleted \cup Answers

(* Labels of a subscribe, and of one whose transaction has begun.          *)
Opening == {"check", "debit", "insert", "audit", "commit"}
Debited == {"insert", "audit", "commit"}

SameKey(d, e) == d.user = e.user /\ d.fund = e.fund

(* What a request carries: an acceptable document of its own, or a stored  *)
(* one that no other transaction deletes.                                  *)
DocsInv ==
    \A r \in Requests :
      /\ pc[r] = "idle" => doc[r] = None
      /\ pc[r] \in Opening => /\ doc[r] \in Documents
                              /\ doc[r].id = r
                              /\ doc[r].amount >= Minimum[doc[r].fund]
      /\ pc[r] \in Deleted => /\ doc[r] \in subscriptions
                              /\ ~DocLocked(doc[r], r)

(* An open transaction that has not written the user's document yet may    *)
(* write it only while its snapshot is current.                            *)
SnapInv ==
    \A r \in Requests :
      (pc[r] = "credit" /\ r \notin stale) => snap[r] = balance[doc[r].user]

(* A debit that matched stays covered, and an inserted key stays free,     *)
(* until the transaction commits.                                          *)
CoveredInv ==
    \A r \in Requests :
      /\ pc[r] \in Debited => balance[doc[r].user] >= doc[r].amount
      /\ pc[r] \in Inserted =>
           /\ ~Taken(doc[r])
           /\ \A q \in Requests \ {r} : pc[q] \in Inserted => ~SameKey(doc[q], doc[r])

(* An id is in the collections only if its creator has committed, or is    *)
(* not served with a transaction at all.                                   *)
Committed(r, others) == r \in others \/ pc[r] \in {"ok", "unknown"}

JournalInv(others) ==
    /\ \A d \in subscriptions : Committed(d.id, others)
    /\ \A row \in transactions : Committed(row.doc.id, others)
    /\ \A r \in Requests :
         (pc[r] = "ok" /\ doc[r] # None /\ doc[r].id = r) =>
           Row("OPEN", doc[r]) \in transactions

AbandonedInv == abandoned \subseteq InTxn

(* The others are the requests of workers that compensate by hand; in the  *)
(* transaction mode by itself there are none.                              *)
IInv(others) ==
    /\ TypeOK
    /\ DocsInv
    /\ NoLostUpdate
    /\ SnapInv
    /\ CoveredInv
    /\ JournalInv(others)
    /\ AbandonedInv

----------------------------------------------------------------------------
(* The fields of a document.                                               *)
LEMMA DocumentFields ==
    ASSUME NEW d \in Documents
    PROVE  /\ d # None /\ d.id \in Requests /\ d.user \in Users
           /\ d.fund \in Funds /\ d.amount \in Nat
<1>1. d.id \in Requests /\ d.user \in Users /\ d.fund \in Funds /\ d.amount \in Amounts
  BY DEF Documents
<1>2. d # None
  BY NoneAssumption
<1> QED BY <1>1, <1>2, DataAssumption

(* The initial state satisfies the invariant.                              *)
LEMMA InitIInv == ASSUME NEW others PROVE Init => IInv(others)
<1> SUFFICES ASSUME Init PROVE IInv(others)
  OBVIOUS
<1> USE DEF Init
<1>1. TypeOK
  BY DataAssumption DEF TypeOK
<1>2. DocsInv /\ NoLostUpdate /\ SnapInv /\ CoveredInv /\ JournalInv(others)
  BY DEF DocsInv, NoLostUpdate, SnapInv, CoveredInv, JournalInv, Opening,
         Deleted, WroteUser, Debited, Inserted
<1>3. AbandonedInv
  BY DEF AbandonedInv
<1> QED BY <1>1, <1>2, <1>3 DEF IInv

(* What is committed, and by whom, does not change in a step that leaves   *)
(* the collections alone and answers nobody with success.                  *)
LEMMA JournalStays ==
    ASSUME NEW others, TypeOK, JournalInv(others), UNCHANGED <<subscriptions, transactions>>,
           \A q \in Requests : Committed(q, others) => Committed(q, others)',
           \A q \in Requests : pc'[q] = "ok" => pc[q] = "ok" /\ doc'[q] = doc[q]
    PROVE  JournalInv(others)'
<1>1. \A e \in subscriptions : e.id \in Requests
  BY DocumentFields DEF TypeOK
<1>2. \A row \in transactions : row.doc.id \in Requests
  BY DocumentFields DEF TypeOK, Rows
<1> QED BY <1>1, <1>2 DEF JournalInv

(* Steps that leave the data alone and let requests go on without a new    *)
(* lock, or end them: reads, audits, conflicts, rejections, faults.        *)
Onward(l, m) ==
    \/ m = l
    \/ m \in {"rejected", "aborted"} /\ l \notin Answers
    \/ <<l, m>> \in {<<"check", "debit">>, <<"audit", "commit">>,
                     <<"audit_cancel", "commit_cancel">>}

LEMMA OnwardStep ==
    ASSUME NEW others, IInv(others), UNCHANGED <<balance, subscriptions, transactions, doc, stale>>,
           active' \subseteq active, faults' \in Nat,
           pc' \in [Requests -> Labels],
           \A r \in Requests : Onward(pc[r], pc'[r]),
           snap' \in [Requests -> Int],
           \A r \in Requests : pc'[r] \in WroteUser \cup Deleted => snap'[r] = snap[r],
           abandoned' \subseteq InTxn'
    PROVE  IInv(others)'
<1> USE DEF IInv, TypeOK
<1>1. TypeOK'
  BY DEF InTxn, Labels
<1>2. \A r \in Requests :
        /\ pc'[r] \in Opening => pc[r] \in Opening
        /\ pc'[r] \in Deleted => pc[r] \in Deleted
        /\ pc'[r] \in WroteUser => pc[r] \in WroteUser
        /\ pc'[r] \in Inserted => pc[r] \in Inserted
        /\ pc'[r] \in Debited => pc[r] \in Debited
        /\ pc'[r] = "credit" => pc[r] = "credit"
        /\ pc'[r] = "idle" => pc[r] = "idle"
        /\ Committed(r, others)' = Committed(r, others)
        /\ pc'[r] = "ok" => pc[r] = "ok"
  BY DEF Onward, Opening, Deleted, WroteUser, Inserted, Debited, Committed, Answers
<1>3. DocsInv'
  BY <1>2 DEF DocsInv, DocLocked
<1>4. NoLostUpdate' /\ SnapInv'
  BY <1>2 DEF NoLostUpdate, UserLocked, SnapInv, Deleted
<1>5. CoveredInv'
  BY <1>2 DEF CoveredInv, Taken
<1>6. JournalInv(others)'
  BY <1>2, JournalStays
<1>7. AbandonedInv'
  BY DEF AbandonedInv
<1> QED BY <1>1, <1>3, <1>4, <1>5, <1>6, <1>7

----------------------------------------------------------------------------
(* The steps that acquire something: one lemma per call.                   *)

LEMMA LookupStep ==
    ASSUME NEW others, IInv(others), NEW r \in Requests, Lookup(r)
    PROVE  IInv(others)'
<1> USE DEF IInv, TypeOK
<1>1. PICK u \in Users, f \in Funds, payload \in Amounts \cup {None} :
        LET a == EffectiveAmount(f, payload) IN
         \/ /\ f \in active /\ Acceptable(f, a)
            /\ doc' = [doc EXCEPT ![r] = Subscription(r, u, f, a)]
            /\ Goto(r, "check")
         \/ /\ f \notin active \/ ~Acceptable(f, a)
            /\ Goto(r, "rejected")
            /\ UNCHANGED doc
  BY DEF Lookup
<1> DEFINE d == Subscription(r, u, f, EffectiveAmount(f, payload))
<1>2. /\ pc[r] = "idle" /\ doc[r] = None
      /\ UNCHANGED <<data, snap, stale, abandoned, faults>>
  BY DEF Lookup, DocsInv
<1>3. CASE /\ Acceptable(f, EffectiveAmount(f, payload))
           /\ doc' = [doc EXCEPT ![r] = d] /\ Goto(r, "check")
  <2>1. d \in Documents /\ d.id = r /\ d.amount >= Minimum[d.fund]
    BY <1>3, DataAssumption DEF Documents, Subscription, EffectiveAmount, Acceptable
  <2>2. doc' = [doc EXCEPT ![r] = d] /\ pc' = [pc EXCEPT ![r] = "check"]
    BY <1>3 DEF Goto
  <2> HIDE DEF d
  <2>3. UNCHANGED <<balance, subscriptions, transactions, active, snap, stale,
                    abandoned, faults>>
    BY <1>2 DEF data
  <2>4. /\ pc'[r] = "check" /\ doc'[r] = d
        /\ \A q \in Requests \ {r} : pc'[q] = pc[q] /\ doc'[q] = doc[q]
    BY <2>2
  <2> USE <1>2, <2>1, <2>3, <2>4
  <2>5. TypeOK'
    BY <2>2
  <2>6. DocsInv'
    BY DEF DocsInv, DocLocked, Deleted, Opening
  <2>7. NoLostUpdate' /\ SnapInv'
    BY DEF NoLostUpdate, UserLocked, SnapInv, WroteUser
  <2>8. CoveredInv'
    BY DEF CoveredInv, Taken, Debited, Inserted
  <2>9. JournalInv(others)'
    BY JournalStays DEF Committed
  <2>10. AbandonedInv'
    BY DEF AbandonedInv, InTxn, WroteUser, Deleted
  <2> QED BY <2>5, <2>6, <2>7, <2>8, <2>9, <2>10
<1>4. CASE UNCHANGED doc /\ Goto(r, "rejected")
  <2>1. /\ pc' = [pc EXCEPT ![r] = "rejected"]
        /\ UNCHANGED <<balance, subscriptions, transactions, active, doc, snap,
                       stale, abandoned, faults>>
    BY <1>2, <1>4 DEF Goto, data
  <2>2. pc' \in [Requests -> Labels] /\ \A q \in Requests : Onward(pc[q], pc'[q])
    BY <1>2, <2>1 DEF Labels, Answers, Onward
  <2>3. abandoned' \subseteq InTxn'
    BY <1>2, <2>1 DEF AbandonedInv, InTxn, WroteUser, Deleted
  <2> QED BY <2>1, <2>2, <2>3, OnwardStep
<1> QED BY <1>1, <1>3, <1>4

(* The debit finds the money in a current snapshot, and nobody else's      *)
(* uncommitted write on the user's document.                               *)
LEMMA DebitStep ==
    ASSUME NEW others, IInv(others), NEW r \in Requests, Debit(r)
    PROVE  IInv(others)'
<1> USE DEF IInv, TypeOK
<1> DEFINE u == doc[r].user
<1>1. /\ pc[r] = "debit" /\ doc[r] \in Documents /\ r \notin abandoned
      /\ snap' = [snap EXCEPT ![r] = balance[u]]
      /\ UNCHANGED <<balance, subscriptions, transactions, active, doc, stale,
                     abandoned, faults>>
  BY DEF Debit, DocsInv, Opening, AbandonedInv, InTxn, WroteUser, Deleted, data
<1>2. u \in Users /\ doc[r].amount \in Nat /\ balance[u] \in Int
  BY <1>1, DocumentFields
<1>3. CASE Goto(r, "rejected") \/ Goto(r, "aborted")
  <2>1. PICK l \in {"rejected", "aborted"} : pc' = [pc EXCEPT ![r] = l]
    BY <1>3 DEF Goto
  <2>2. pc' \in [Requests -> Labels] /\ \A q \in Requests : Onward(pc[q], pc'[q])
    BY <1>1, <2>1 DEF Labels, Answers, Onward
  <2>3. abandoned' \subseteq InTxn'
    BY <1>1, <2>1 DEF AbandonedInv, InTxn
  <2>4. \A q \in Requests : pc'[q] \in WroteUser \cup Deleted => snap'[q] = snap[q]
    BY <1>1, <2>1 DEF WroteUser, Deleted
  <2> QED BY <1>1, <1>2, <2>1, <2>2, <2>3, <2>4, OnwardStep
<1>4. CASE balance[u] >= doc[r].amount /\ ~UserLocked(u, r) /\ Goto(r, "insert")
  <2>1. /\ pc' = [pc EXCEPT ![r] = "insert"]
        /\ pc'[r] = "insert" /\ snap'[r] = balance[u]
        /\ \A q \in Requests \ {r} : pc'[q] = pc[q] /\ snap'[q] = snap[q]
    BY <1>1, <1>4 DEF Goto
  <2> USE <1>1, <1>2, <2>1
  <2>2. TypeOK'
    BY DEF WroteUser
  <2>3. DocsInv'
    BY DEF DocsInv, DocLocked, Deleted, Opening
  <2>4. NoLostUpdate'
    BY <1>4 DEF NoLostUpdate, UserLocked
  <2>5. SnapInv'
    BY DEF SnapInv
  <2>6. CoveredInv'
    BY <1>4 DEF CoveredInv, Taken, Debited, Inserted
  <2>7. JournalInv(others)'
    BY JournalStays DEF Committed
  <2>8. AbandonedInv'
    BY DEF AbandonedInv, InTxn
  <2> QED BY <2>2, <2>3, <2>4, <2>5, <2>6, <2>7, <2>8
<1>5. \/ Goto(r, "rejected") \/ Goto(r, "aborted")
      \/ balance[u] >= doc[r].amount /\ ~UserLocked(u, r) /\ Goto(r, "insert")
  <2>1. balance[u] < doc[r].amount \/ balance[u] >= doc[r].amount
    BY <1>2
  <2> QED BY <2>1 DEF Debit
<1> QED BY <1>3, <1>4, <1>5

(* A call of an open transaction that gets a conflict, or is told no, ends *)
(* it; one that only logs goes on.                                         *)
LEMMA EndStep ==
    ASSUME NEW others, IInv(others), NEW r \in Requests, NEW l \in {"rejected", "aborted", "debit",
                                                "commit", "commit_cancel"},
           pc' = [pc EXCEPT ![r] = l], Onward(pc[r], l), r \notin abandoned,
           UNCHANGED <<data, doc, snap, stale, abandoned, faults>>
    PROVE  IInv(others)'
<1> USE DEF IInv, TypeOK
<1>1. pc' \in [Requests -> Labels] /\ \A q \in Requests : Onward(pc[q], pc'[q])
  BY DEF Labels, Answers, Onward, WroteUser, Deleted
<1>2. abandoned' \subseteq InTxn'
  BY DEF AbandonedInv, InTxn
<1> QED BY <1>1, <1>2, OnwardStep DEF data

(* The insert finds the key free, committed or not.                        *)
LEMMA InsertStep ==
    ASSUME NEW others, IInv(others), NEW r \in Requests, Insert(r)
    PROVE  IInv(others)'
<1> USE DEF IInv, TypeOK
<1>1. /\ pc[r] = "insert" /\ doc[r] \in Documents /\ r \notin abandoned
      /\ UNCHANGED <<balance, subscriptions, transactions, active, doc, snap, stale,
                     abandoned, faults>>
  BY DEF Insert, DocsInv, Opening, data
<1>2. CASE Goto(r, "rejected") \/ Goto(r, "aborted")
  <2>1. PICK l \in {"rejected", "aborted"} : pc' = [pc EXCEPT ![r] = l]
    BY <1>2 DEF Goto
  <2> QED BY <1>1, <2>1, EndStep DEF Onward, Answers, data
<1>3. CASE ~KeyLocked(doc[r], r) /\ ~Taken(doc[r]) /\ Goto(r, "audit")
  <2>1. /\ pc' = [pc EXCEPT ![r] = "audit"]
        /\ pc'[r] = "audit"
        /\ \A q \in Requests \ {r} : pc'[q] = pc[q]
    BY <1>3 DEF Goto
  <2> USE <1>1, <2>1
  <2>2. TypeOK'
    BY DEF WroteUser
  <2>3. DocsInv'
    BY DEF DocsInv, DocLocked, Deleted, Opening
  <2>4. NoLostUpdate'
    BY DEF NoLostUpdate, UserLocked, WroteUser
  <2>5. SnapInv'
    BY DEF SnapInv
  <2>6. CoveredInv'
    BY <1>3 DEF CoveredInv, Taken, Debited, Inserted, KeyLocked, SameKey
  <2>7. JournalInv(others)'
    BY JournalStays DEF Committed
  <2>8. AbandonedInv'
    BY DEF AbandonedInv, InTxn
  <2> QED BY <2>2, <2>3, <2>4, <2>5, <2>6, <2>7, <2>8
<1> QED BY <1>2, <1>3 DEF Insert

(* find_one_and_delete sees a committed document nobody else deletes, and  *)
(* takes the snapshot.                                                     *)
LEMMA TakeStep ==
    ASSUME NEW others, IInv(others), NEW r \in Requests \ others, Take(r)
    PROVE  IInv(others)'
<1> USE DEF IInv, TypeOK
<1>1. PICK u \in Users, s \in Requests, d \in subscriptions :
         /\ d.id = s /\ d.user = u
         /\ doc' = [doc EXCEPT ![r] = d]
         /\ snap' = [snap EXCEPT ![r] = balance[u]]
         /\ Goto(r, IF DocLocked(d, r) THEN "aborted" ELSE "credit")
  BY DEF Take
<1>2. /\ pc[r] = "idle" /\ d \in Documents /\ d.id # r /\ r \notin abandoned
      /\ UNCHANGED <<balance, subscriptions, transactions, active, stale,
                     abandoned, faults>>
  BY DocumentFields DEF Take, JournalInv, Committed, AbandonedInv, InTxn, WroteUser,
     Deleted, data
<1>3. PICK l \in {"aborted", "credit"} :
        pc' = [pc EXCEPT ![r] = l] /\ (l = "credit" => ~DocLocked(d, r))
  BY <1>1 DEF Goto
<1>4. /\ pc'[r] = l /\ doc'[r] = d /\ snap'[r] = balance[d.user]
      /\ \A q \in Requests \ {r} :
           pc'[q] = pc[q] /\ doc'[q] = doc[q] /\ snap'[q] = snap[q]
  BY <1>1, <1>3
<1> USE <1>2, <1>4
<1>5. TypeOK'
  BY <1>1, <1>3 DEF Deleted, Answers
<1>6. DocsInv'
  BY <1>3 DEF DocsInv, DocLocked, Deleted, Opening
<1>7. NoLostUpdate' /\ SnapInv'
  BY DEF NoLostUpdate, UserLocked, SnapInv, WroteUser
<1>8. CoveredInv'
  BY DEF CoveredInv, Taken, Debited, Inserted
<1>9. JournalInv(others)'
  BY JournalStays DEF Committed
<1>10. AbandonedInv'
  BY DEF AbandonedInv, InTxn
<1> QED BY <1>5, <1>6, <1>7, <1>8, <1>9, <1>10

(* The credit writes only from a current snapshot.                         *)
LEMMA CreditStep ==
    ASSUME NEW others, IInv(others), NEW r \in Requests, Credit(r)
    PROVE  IInv(others)'
<1> USE DEF IInv, TypeOK
<1>1. /\ pc[r] = "credit" /\ r \notin abandoned
      /\ UNCHANGED <<balance, subscriptions, transactions, active, doc, snap, stale,
                     abandoned, faults>>
  BY DEF Credit, data
<1>2. CASE Goto(r, "aborted")
  BY <1>1, <1>2, EndStep DEF Onward, Answers, data, Goto
<1>3. CASE ~UserLocked(doc[r].user, r) /\ r \notin stale /\ Goto(r, "audit_cancel")
  <2>1. /\ pc' = [pc EXCEPT ![r] = "audit_cancel"]
        /\ pc'[r] = "audit_cancel"
        /\ \A q \in Requests \ {r} : pc'[q] = pc[q]
    BY <1>3 DEF Goto
  <2> USE <1>1, <2>1
  <2>2. TypeOK'
    BY DEF Deleted
  <2>3. DocsInv'
    BY DEF DocsInv, DocLocked, Deleted, Opening
  <2>4. NoLostUpdate'
    BY <1>3 DEF NoLostUpdate, UserLocked, SnapInv
  <2>5. SnapInv'
    BY DEF SnapInv
  <2>6. CoveredInv'
    BY DEF CoveredInv, Taken, Debited, Inserted
  <2>7. JournalInv(others)'
    BY JournalStays DEF Committed
  <2>8. AbandonedInv'
    BY DEF AbandonedInv, InTxn
  <2> QED BY <2>2, <2>3, <2>4, <2>5, <2>6, <2>7, <2>8
<1> QED BY <1>2, <1>3 DEF Credit

(* A commit: the balance written is the current one less, or plus, the     *)
(* amount, so the step is an Open or a Close of the ledger.                *)
LEMMA CommitSubscribeFacts ==
    ASSUME NEW others, IInv(others), NEW r \in Requests \ others, CommitSubscribe(r)
    PROVE  /\ pc[r] = "commit" /\ doc[r] \in Documents /\ doc[r].id = r
           /\ balance' = [balance EXCEPT ![doc[r].user] = @ - doc[r].amount]
           /\ balance[doc[r].user] >= doc[r].amount
           /\ doc[r].amount >= Minimum[doc[r].fund]
           /\ ~Taken(doc[r]) /\ ~UserLocked(doc[r].user, r)
           /\ \A row \in transactions : row.doc.id # r
<1> USE DEF IInv, TypeOK
<1>1. pc[r] = "commit" /\ snap[r] = balance[doc[r].user]
  BY DEF CommitSubscribe, NoLostUpdate, WroteUser
<1>2. \A row \in transactions : row.doc.id # r
  BY <1>1 DEF JournalInv, Committed
<1> QED BY <1>1, <1>2 DEF CommitSubscribe, DocsInv, CoveredInv, NoLostUpdate, Opening,
        Debited, Inserted, WroteUser

LEMMA CommitCancelFacts ==
    ASSUME NEW others, IInv(others), NEW r \in Requests \ others, CommitCancel(r)
    PROVE  /\ pc[r] = "commit_cancel" /\ doc[r] \in subscriptions
           /\ balance' = [balance EXCEPT ![doc[r].user] = @ + doc[r].amount]
           /\ ~DocLocked(doc[r], r) /\ ~UserLocked(doc[r].user, r)
           /\ doc[r].id # r
<1> USE DEF IInv, TypeOK
<1>1. pc[r] = "commit_cancel" /\ snap[r] = balance[doc[r].user]
  BY DEF CommitCancel, NoLostUpdate, WroteUser
<1>2. doc[r] \in subscriptions
  BY <1>1 DEF DocsInv, Deleted
<1>3. doc[r].id # r
  BY <1>1, <1>2 DEF JournalInv, Committed
<1> QED BY <1>1, <1>2, <1>3 DEF CommitCancel, DocsInv, NoLostUpdate, Deleted, WroteUser

(* What both commits do besides: the answer, the outdated snapshots.       *)
LEMMA ToldCases ==
    ASSUME TypeOK, NEW r \in Requests, Told(r)
    PROVE  /\ \E l \in {"ok", "unknown"} : pc' = [pc EXCEPT ![r] = l]
           /\ faults' \in Nat
BY DEF Told, Goto, TypeOK

LEMMA CommitSubscribeStep ==
    ASSUME NEW others, IInv(others), NEW r \in Requests \ others, CommitSubscribe(r)
    PROVE  IInv(others)'
<1> USE DEF IInv, TypeOK
<1> DEFINE d == doc[r]
<1>1. /\ pc[r] = "commit" /\ d \in Documents /\ d.id = r
      /\ balance' = [balance EXCEPT ![d.user] = @ - d.amount]
      /\ ~UserLocked(d.user, r)
  BY CommitSubscribeFacts
<1>2. /\ subscriptions' = subscriptions \cup {d}
      /\ transactions' = transactions \cup {Row("OPEN", d)}
      /\ stale' = stale \cup Outdated(d.user)
      /\ abandoned' = abandoned \ {r}
      /\ UNCHANGED <<active, doc, snap>>
  BY DEF CommitSubscribe
<1>3. PICK l \in {"ok", "unknown"} : pc' = [pc EXCEPT ![r] = l]
  BY ToldCases DEF CommitSubscribe
<1>4. /\ pc'[r] \in {"ok", "unknown"}
      /\ \A q \in Requests \ {r} : pc'[q] = pc[q]
  BY <1>3
<1>5. /\ d.user \in Users /\ d.amount \in Nat
      /\ \A u \in Users \ {d.user} : balance'[u] = balance[u]
  BY <1>1, DocumentFields
<1>6. \A q \in Requests \ {r} : pc[q] \in WroteUser => doc[q].user # d.user
  BY <1>1 DEF UserLocked
<1>7. \A q \in Requests :
        pc[q] \in WroteUser \cup Deleted => doc[q] \in Documents /\ doc[q].user \in Users
  BY DocumentFields DEF DocsInv, WroteUser, Deleted, Opening
<1>8. TypeOK'
  <2>1. balance' \in [Users -> Int]
    BY <1>1, <1>5
  <2>2. Row("OPEN", d) \in Rows
    BY <1>1 DEF Row, Rows
  <2>3. faults' \in Nat /\ Outdated(d.user) \subseteq Requests
    BY ToldCases DEF CommitSubscribe, Outdated
  <2> QED BY <1>1, <1>2, <1>3, <2>1, <2>2, <2>3 DEF Answers
<1>9. DocsInv'
  BY <1>2, <1>4 DEF DocsInv, DocLocked, Deleted, Opening
<1>10. NoLostUpdate'
  BY <1>2, <1>4, <1>5, <1>6, <1>7 DEF NoLostUpdate, UserLocked, WroteUser
<1>11. SnapInv'
  BY <1>2, <1>4, <1>5, <1>7 DEF SnapInv, Outdated, Deleted
<1>12. CoveredInv'
  <2> SUFFICES ASSUME NEW q \in Requests \ {r}
               PROVE  /\ pc[q] \in Debited => balance'[doc[q].user] >= doc[q].amount
                      /\ pc[q] \in Inserted =>
                           /\ ~Taken(doc[q])'
                           /\ \A p \in Requests \ {q, r} :
                                pc[p] \in Inserted => ~SameKey(doc[p], doc[q])
    BY <1>2, <1>4 DEF CoveredInv, Debited, Inserted
  <2>1. pc[q] \in Debited => balance'[doc[q].user] = balance[doc[q].user]
    BY <1>5, <1>6, <1>7 DEF Debited, WroteUser
  <2>2. pc[q] \in Inserted => ~SameKey(d, doc[q]) /\ ~Taken(doc[q])
    BY <1>1 DEF CoveredInv, Inserted
  <2>3. pc[q] \in Inserted => ~Taken(doc[q])'
    BY <1>2, <2>2 DEF Taken, SameKey
  <2> QED BY <2>1, <2>3 DEF CoveredInv
<1>13. JournalInv(others)'
  <2>1. \A q \in Requests : (Committed(q, others) \/ q = r) => Committed(q, others)'
    BY <1>4 DEF Committed
  <2>2. \A e \in subscriptions' : e.id \in Requests /\ (e.id = r \/ Committed(e.id, others))
    BY <1>1, <1>2, DocumentFields DEF JournalInv
  <2>3. \A row \in transactions' :
          row.doc.id \in Requests /\ (row.doc.id = r \/ Committed(row.doc.id, others))
    BY <1>1, <1>2, DocumentFields DEF JournalInv, Row, Rows
  <2> QED BY <1>2, <1>4, <2>1, <2>2, <2>3 DEF JournalInv
<1>14. AbandonedInv'
  BY <1>2, <1>4 DEF AbandonedInv, InTxn
<1> QED BY <1>8, <1>9, <1>10, <1>11, <1>12, <1>13, <1>14

LEMMA CommitCancelStep ==
    ASSUME NEW others, IInv(others), NEW r \in Requests \ others, CommitCancel(r)
    PROVE  IInv(others)'
<1> USE DEF IInv, TypeOK
<1> DEFINE d == doc[r]
<1>1. /\ pc[r] = "commit_cancel" /\ d \in subscriptions /\ d \in Documents
      /\ balance' = [balance EXCEPT ![d.user] = @ + d.amount]
      /\ ~DocLocked(d, r) /\ ~UserLocked(d.user, r) /\ d.id # r
  BY CommitCancelFacts
<1>2. /\ subscriptions' = subscriptions \ {d}
      /\ transactions' = transactions \cup {Row("CANCEL", d)}
      /\ stale' = stale \cup Outdated(d.user)
      /\ abandoned' = abandoned \ {r}
      /\ UNCHANGED <<active, doc, snap>>
  BY DEF CommitCancel
<1>3. PICK l \in {"ok", "unknown"} : pc' = [pc EXCEPT ![r] = l]
  BY ToldCases DEF CommitCancel
<1>4. /\ pc'[r] \in {"ok", "unknown"}
      /\ \A q \in Requests \ {r} : pc'[q] = pc[q]
  BY <1>3
<1>5. /\ d.user \in Users /\ d.amount \in Nat
      /\ \A u \in Users \ {d.user} : balance'[u] = balance[u]
  BY <1>1, DocumentFields
<1>6. \A q \in Requests \ {r} : pc[q] \in WroteUser => doc[q].user # d.user
  BY <1>1 DEF UserLocked
<1>7. \A q \in Requests :
        pc[q] \in WroteUser \cup Deleted => doc[q] \in Documents /\ doc[q].user \in Users
  BY DocumentFields DEF DocsInv, WroteUser, Deleted, Opening
<1>8. TypeOK'
  <2>1. balance' \in [Users -> Int]
    BY <1>1, <1>5
  <2>2. Row("CANCEL", d) \in Rows
    BY <1>1 DEF Row, Rows
  <2>3. faults' \in Nat /\ Outdated(d.user) \subseteq Requests
    BY ToldCases DEF CommitCancel, Outdated
  <2> QED BY <1>1, <1>2, <1>3, <2>1, <2>2, <2>3 DEF Answers
<1>9. DocsInv'
  BY <1>1, <1>2, <1>4 DEF DocsInv, DocLocked, Deleted, Opening
<1>10. NoLostUpdate'
  BY <1>2, <1>4, <1>5, <1>6, <1>7 DEF NoLostUpdate, UserLocked, WroteUser
<1>11. SnapInv'
  BY <1>2, <1>4, <1>5, <1>7 DEF SnapInv, Outdated, Deleted
<1>12. CoveredInv'
  <2>1. \A q \in Requests \ {r} :
          pc[q] \in Debited => balance'[doc[q].user] = balance[doc[q].user]
    BY <1>5, <1>6, <1>7 DEF Debited, WroteUser
  <2>2. \A q \in Requests : ~Taken(doc[q]) => ~Taken(doc[q])'
    BY <1>2 DEF Taken
  <2> QED BY <1>2, <1>4, <2>1, <2>2 DEF CoveredInv, Debited, Inserted
<1>13. JournalInv(others)'
  <2>1. \A q \in Requests : Committed(q, others) => Committed(q, others)'
    BY <1>4 DEF Committed
  <2>2. \A e \in subscriptions' : e.id \in Requests /\ Committed(e.id, others)
    BY <1>2, DocumentFields DEF JournalInv
  <2>3. \A row \in transactions' : row.doc.id \in Requests /\ Committed(row.doc.id, others)
    BY <1>1, <1>2, DocumentFields DEF JournalInv, Row, Rows
  <2> QED BY <1>1, <1>2, <1>4, <2>1, <2>2, <2>3 DEF JournalInv
<1>14. AbandonedInv'
  BY <1>2, <1>4 DEF AbandonedInv, InTxn
<1> QED BY <1>8, <1>9, <1>10, <1>11, <1>12, <1>13, <1>14

(* The calls that neither lock nor unlock anything.                        *)
LEMMA ReadStep ==
    ASSUME NEW others, IInv(others), NEW r \in Requests, Check(r) \/ NotFound(r) \/ Audit(r)
    PROVE  IInv(others)'
<1>1. PICK l \in {"rejected", "debit", "commit", "commit_cancel"} :
        /\ pc' = [pc EXCEPT ![r] = l]
        /\ Onward(pc[r], l)
  BY DEF Check, NotFound, Audit, Goto, Onward, Answers
<1>2. r \notin abandoned
  BY DEF Check, NotFound, Audit, IInv, AbandonedInv, InTxn, WroteUser, Deleted
<1>3. UNCHANGED <<data, doc, snap, stale, abandoned, faults>>
  BY DEF Check, NotFound, Audit
<1> QED BY <1>1, <1>2, <1>3, EndStep

(* The server ends a transaction; a call is refused; the process dies.     *)
LEMMA ExpireStep ==
    ASSUME NEW others, IInv(others), NEW r \in Requests, Expire(r)
    PROVE  IInv(others)'
<1> USE DEF IInv, TypeOK
<1>1. /\ pc[r] \in WroteUser \cup Deleted /\ pc' = [pc EXCEPT ![r] = "aborted"]
      /\ abandoned' = abandoned \ {r}
      /\ UNCHANGED <<balance, subscriptions, transactions, active, doc, snap, stale, faults>>
  BY DEF Expire, Goto, data, AbandonedInv, InTxn
<1>2. pc' \in [Requests -> Labels] /\ \A q \in Requests : Onward(pc[q], pc'[q])
  BY <1>1 DEF Labels, Answers, Onward, WroteUser, Deleted
<1>3. abandoned' \subseteq InTxn'
  BY <1>1 DEF AbandonedInv, InTxn
<1> QED BY <1>1, <1>2, <1>3, OnwardStep

LEMMA RefusedStep ==
    ASSUME NEW others, IInv(others), NEW r \in Requests, Refused(r)
    PROVE  IInv(others)'
<1> USE DEF IInv, TypeOK
<1>1. /\ pc[r] \notin Answers /\ r \notin abandoned /\ faults' \in Nat
      /\ UNCHANGED <<balance, subscriptions, transactions, active, doc, snap, stale>>
      /\ \/ pc' = [pc EXCEPT ![r] = "aborted"] /\ abandoned' = abandoned
         \/ r \in InTxn /\ abandoned' = abandoned \cup {r} /\ pc' = pc
  BY DEF Refused, Goto, data
<1>2. pc' \in [Requests -> Labels] /\ \A q \in Requests : Onward(pc[q], pc'[q])
  BY <1>1 DEF Labels, Answers, Onward
<1>3. abandoned' \subseteq InTxn'
  BY <1>1 DEF AbandonedInv, InTxn
<1> QED BY <1>1, <1>2, <1>3, OnwardStep

LEMMA CrashStep ==
    ASSUME NEW others, IInv(others), Crash
    PROVE  IInv(others)'
<1> USE DEF IInv, TypeOK
<1>1. /\ faults' \in Nat /\ abandoned' = InTxn
      /\ UNCHANGED <<balance, subscriptions, transactions, active, doc, snap, stale>>
      /\ pc' = [r \in Requests |->
                  IF pc[r] \in {"check", "debit"} THEN "aborted" ELSE pc[r]]
  BY DEF Crash, data
<1>2. pc' \in [Requests -> Labels] /\ \A q \in Requests : Onward(pc[q], pc'[q])
  BY <1>1 DEF Labels, Answers, Onward
<1>3. abandoned' \subseteq InTxn'
  BY <1>1 DEF InTxn, WroteUser, Deleted
<1> QED BY <1>1, <1>2, <1>3, OnwardStep

(* Retiring a fund, and a step that changes nothing.                       *)
LEMMA UnchangedStep ==
    ASSUME NEW others, IInv(others), active' \subseteq active,
           UNCHANGED <<balance, subscriptions, transactions, pc, doc, snap, stale,
                       abandoned, faults>>
    PROVE  IInv(others)'
<1> USE DEF IInv, TypeOK
<1>1. pc' \in [Requests -> Labels] /\ \A q \in Requests : Onward(pc[q], pc'[q])
  BY DEF Labels, Onward
<1>2. abandoned' \subseteq InTxn'
  BY DEF AbandonedInv, InTxn
<1> QED BY <1>1, <1>2, OnwardStep

----------------------------------------------------------------------------
(* Every step keeps the invariant.                                         *)
LEMMA NextIInv == IInv({}) /\ [Next]_vars => IInv({})'
<1> SUFFICES ASSUME IInv({}), [Next]_vars PROVE IInv({})'
  OBVIOUS
<1>1. ASSUME NEW r \in Requests,
             \/ Lookup(r) \/ Take(r) \/ NotFound(r)
             \/ Continue(r) \/ Expire(r) \/ Refused(r)
      PROVE  IInv({})'
  BY <1>1, LookupStep, TakeStep, ReadStep, DebitStep, InsertStep, CreditStep,
     CommitSubscribeStep, CommitCancelStep, ExpireStep, RefusedStep DEF Continue
<1>2. ASSUME NEW f \in Funds, SoftDelete(f) PROVE IInv({})'
  BY <1>2, UnchangedStep DEF SoftDelete
<1>3. CASE Crash
  BY <1>3, CrashStep
<1>4. CASE UNCHANGED vars
  BY <1>4, UnchangedStep DEF vars
<1> QED BY <1>1, <1>2, <1>3, <1>4 DEF Next

LEMMA Invariance == Spec => []IInv({})
<1>1. Init => IInv({})
  BY InitIInv
<1> QED BY <1>1, NextIInv, PTL DEF Spec

(* Type correctness of the transaction mode.                               *)
THEOREM TypeCorrect == Spec => []TypeOK
<1>1. IInv({}) => TypeOK
  BY DEF IInv
<1> QED BY <1>1, Invariance, PTL

(* No transaction writes a balance computed from an outdated snapshot: the *)
(* conflict detection the code relies on, without a retry, is enough.      *)
THEOREM SnapshotsAreCurrent == Spec => []NoLostUpdate
<1>1. IInv({}) => NoLostUpdate
  BY DEF IInv
<1> QED BY <1>1, Invariance, PTL

----------------------------------------------------------------------------
(* The refinement: a commit is one step of the ledger, every other step    *)
(* leaves it alone.                                                        *)
LEMMA CommitOpens ==
    ASSUME IInv({}), NEW r \in Requests, CommitSubscribe(r)
    PROVE  AtomicLedger!Open(doc[r])
<1> DEFINE d == doc[r]
<1>1. /\ d \in Documents /\ d.id = r
      /\ balance' = [balance EXCEPT ![d.user] = @ - d.amount]
      /\ balance[d.user] >= d.amount
      /\ d.amount >= Minimum[d.fund]
      /\ ~Taken(d)
      /\ \A row \in transactions : row.doc.id # r
  BY CommitSubscribeFacts
<1>2. /\ subscriptions' = subscriptions \cup {d}
      /\ transactions' = transactions \cup {Row("OPEN", d)}
  BY DEF CommitSubscribe
<1>3. \A e \in subscriptions : e.user = d.user => e.fund # d.fund
  BY <1>1 DEF Taken
<1> QED BY <1>1, <1>2, <1>3 DEF AtomicLedger!Open, AtomicLedger!Row, Row

LEMMA CommitCloses ==
    ASSUME IInv({}), NEW r \in Requests, CommitCancel(r)
    PROVE  AtomicLedger!Close(doc[r])
<1>1. /\ doc[r] \in subscriptions
      /\ balance' = [balance EXCEPT ![doc[r].user] = @ + doc[r].amount]
  BY CommitCancelFacts
<1>2. /\ subscriptions' = subscriptions \ {doc[r]}
      /\ transactions' = transactions \cup {Row("CANCEL", doc[r])}
  BY DEF CommitCancel
<1> QED BY <1>1, <1>2 DEF AtomicLedger!Close, AtomicLedger!Row, Row

LEMMA OthersStutter ==
    ASSUME [Next]_vars, \A r \in Requests : ~CommitSubscribe(r) /\ ~CommitCancel(r)
    PROVE  UNCHANGED <<balance, subscriptions, transactions>>
BY DEF Next, Continue, vars, data, Lookup, Take, NotFound, Check, Debit, Insert, Audit,
   Credit, Expire, Refused, SoftDelete, Crash

(* The transaction mode implements the atomic ledger: whatever conflicts,  *)
(* aborts, lost commits and crashes do, the collections only ever move by  *)
(* one whole subscribe or cancel.                                          *)
THEOREM TransactionsRefineLedger == Spec => ImplementsLedger
<1>1. Init => AtomicLedger!LedgerInit
  BY DEF Init, AtomicLedger!LedgerInit
<1>2. IInv({}) /\ [Next]_vars => [AtomicLedger!LedgerNext]_(AtomicLedger!ledgerVars)
  <2> SUFFICES ASSUME IInv({}), [Next]_vars
               PROVE  AtomicLedger!LedgerNext \/ UNCHANGED AtomicLedger!ledgerVars
    OBVIOUS
  <2>1. ASSUME NEW r \in Requests, CommitSubscribe(r) PROVE AtomicLedger!LedgerNext
    BY <2>1, CommitOpens, CommitSubscribeFacts DEF AtomicLedger!LedgerNext,
       AtomicLedger!Documents, Documents
  <2>2. ASSUME NEW r \in Requests, CommitCancel(r) PROVE AtomicLedger!LedgerNext
    <3>1. doc[r] \in Documents
      BY <2>2, CommitCancelFacts DEF IInv, TypeOK
    <3> QED BY <2>2, <3>1, CommitCloses DEF AtomicLedger!LedgerNext,
            AtomicLedger!Documents, Documents
  <2>3. CASE \A r \in Requests : ~CommitSubscribe(r) /\ ~CommitCancel(r)
    BY <2>3, OthersStutter DEF AtomicLedger!ledgerVars
  <2> QED BY <2>1, <2>2, <2>3
<1> QED BY <1>1, <1>2, Invariance, PTL DEF Spec, ImplementsLedger, AtomicLedger!LedgerSpec

----------------------------------------------------------------------------
(* The equation of the class docstring, from the same steps of the ledger. *)
LEMMA AmountMoves ==
    ASSUME NEW S, S \subseteq Documents, IsFiniteSet(S), NEW d \in Documents, NEW u
    PROVE  /\ AmountOf(S, u) \in Int /\ Part(d, u) \in Int
           /\ d \notin S => AmountOf(S \cup {d}, u) = AmountOf(S, u) + Part(d, u)
           /\ d \in S => AmountOf(S \ {d}, u) = AmountOf(S, u) - Part(d, u)
<1>1. /\ AmountOf(S, u) = Total(Of(S, u))
      /\ AmountOf(S \cup {d}, u) = Total(Of(S \cup {d}, u))
      /\ AmountOf(S \ {d}, u) = Total(Of(S \ {d}, u))
  BY Zenon DEF AmountOf, Total, Of
<1>2. d.amount \in Int /\ \A e \in S : e.amount \in Int
  BY DocumentFields
<1> QED BY <1>1, <1>2, TotalOfMoves

Finite == IsFiniteSet(subscriptions)

LEMMA OpenConserves ==
    ASSUME IInv({}), Finite, ConservedAtEveryInstant, NEW r \in Requests, CommitSubscribe(r)
    PROVE  Finite' /\ ConservedAtEveryInstant'
<1> DEFINE d == doc[r]
<1>0. r \in Requests \ {}
  OBVIOUS
<1>1. /\ d \in Documents /\ ~Taken(d)
      /\ balance' = [balance EXCEPT ![d.user] = @ - d.amount]
      /\ subscriptions' = subscriptions \cup {d}
  BY <1>0, CommitSubscribeFacts DEF CommitSubscribe
<1>2. d \notin subscriptions /\ Finite'
  BY <1>1, FS_AddElement DEF Taken, Finite
<1>3. ASSUME NEW u \in Users
      PROVE  balance'[u] + AmountOf(subscriptions', u) = InitialBalance
  <2>1. /\ AmountOf(subscriptions, u) \in Int /\ Part(d, u) \in Int
        /\ AmountOf(subscriptions', u) = AmountOf(subscriptions, u) + Part(d, u)
    BY <1>1, <1>2, AmountMoves DEF IInv, TypeOK, Finite
  <2>2. balance[u] \in Int /\ balance'[u] = balance[u] - Part(d, u)
    BY <1>1, DocumentFields DEF IInv, TypeOK, Part
  <2>3. balance[u] + AmountOf(subscriptions, u) = InitialBalance
    BY DEF ConservedAtEveryInstant
  <2> QED BY <2>1, <2>2, <2>3, DataAssumption
<1> QED BY <1>2, <1>3 DEF ConservedAtEveryInstant

LEMMA CloseConserves ==
    ASSUME IInv({}), Finite, ConservedAtEveryInstant, NEW r \in Requests, CommitCancel(r)
    PROVE  Finite' /\ ConservedAtEveryInstant'
<1> DEFINE d == doc[r]
<1>0. r \in Requests \ {}
  OBVIOUS
<1>1. /\ d \in Documents /\ d \in subscriptions
      /\ balance' = [balance EXCEPT ![d.user] = @ + d.amount]
      /\ subscriptions' = subscriptions \ {d}
  BY <1>0, CommitCancelFacts DEF CommitCancel, IInv, TypeOK
<1>2. Finite'
  BY <1>1, FS_Subset DEF Finite
<1>3. ASSUME NEW u \in Users
      PROVE  balance'[u] + AmountOf(subscriptions', u) = InitialBalance
  <2>1. /\ AmountOf(subscriptions, u) \in Int /\ Part(d, u) \in Int
        /\ AmountOf(subscriptions', u) = AmountOf(subscriptions, u) - Part(d, u)
    <3>1. subscriptions \subseteq Documents
      BY DEF IInv, TypeOK
    <3> HIDE DEF d
    <3> QED BY <1>1, <3>1, AmountMoves DEF Finite
  <2>2. balance[u] \in Int /\ balance'[u] = balance[u] + Part(d, u)
    BY <1>1, DocumentFields DEF IInv, TypeOK, Part
  <2>3. balance[u] + AmountOf(subscriptions, u) = InitialBalance
    BY DEF ConservedAtEveryInstant
  <2> QED BY <2>1, <2>2, <2>3, DataAssumption
<1> QED BY <1>2, <1>3 DEF ConservedAtEveryInstant

(* In transaction mode the equation of the class docstring holds at every  *)
(* instant: balance plus active subscriptions is the initial balance,      *)
(* whatever conflicts, aborts, lost commits and crashes do.                *)
THEOREM ConservedAlways == Spec => []ConservedAtEveryInstant
<1>1. Init => Finite /\ ConservedAtEveryInstant
  <2> SUFFICES ASSUME Init PROVE Finite /\ ConservedAtEveryInstant
    OBVIOUS
  <2>1. ASSUME NEW u \in Users PROVE AmountOf({}, u) = 0
    <3>1. AmountOf({}, u) = Total(Of({}, u)) /\ Of({}, u) = {}
      BY Zenon DEF AmountOf, Total, Of
    <3> QED BY <3>1, TotalEmpty
  <2>2. \A u \in Users : balance[u] + AmountOf(subscriptions, u) = InitialBalance
    BY <2>1, DataAssumption DEF Init
  <2> QED BY <2>2, FS_EmptySet DEF Init, Finite, ConservedAtEveryInstant
<1>2. IInv({}) /\ Finite /\ ConservedAtEveryInstant /\ [Next]_vars
        => Finite' /\ ConservedAtEveryInstant'
  <2> SUFFICES ASSUME IInv({}), Finite, ConservedAtEveryInstant, [Next]_vars
               PROVE  Finite' /\ ConservedAtEveryInstant'
    OBVIOUS
  <2>1. CASE \A r \in Requests : ~CommitSubscribe(r) /\ ~CommitCancel(r)
    BY <2>1, OthersStutter DEF Finite, ConservedAtEveryInstant
  <2> QED BY <2>1, OpenConserves, CloseConserves
<1> QED BY <1>1, <1>2, Invariance, PTL DEF Spec

----------------------------------------------------------------------------
(* Replay of the audit log, from the same steps of the ledger.             *)
Replayed == IsFiniteSet(Opened) /\ IsFiniteSet(Closed) /\ ReplayGivesState

LEMMA LoggedDocuments ==
    ASSUME TypeOK
    PROVE  Opened \subseteq Documents /\ Closed \subseteq Documents
BY DEF TypeOK, Rows, Opened, Closed

(* A row puts its document where its type says.                            *)
LEMMA OpenLogged ==
    ASSUME NEW d, transactions' = transactions \cup {Row("OPEN", d)}
    PROVE  Opened' = Opened \cup {d} /\ Closed' = Closed
<1>1. /\ Row("OPEN", d).type = "OPEN" /\ Row("OPEN", d).doc = d
      /\ Row("OPEN", d).type # "CANCEL"
  BY DEF Row
<1> HIDE DEF Row
<1>2. Opened' = Opened \cup {d}
  BY <1>1 DEF Opened
<1>3. Closed' = Closed
  BY <1>1 DEF Closed
<1> QED BY <1>2, <1>3

LEMMA CancelLogged ==
    ASSUME NEW d, transactions' = transactions \cup {Row("CANCEL", d)}
    PROVE  Opened' = Opened /\ Closed' = Closed \cup {d}
<1>1. /\ Row("CANCEL", d).type = "CANCEL" /\ Row("CANCEL", d).doc = d
      /\ Row("CANCEL", d).type # "OPEN"
  BY DEF Row
<1>2. Opened' = Opened
  BY <1>1 DEF Opened
<1>3. Closed' = Closed \cup {d}
  BY <1>1 DEF Closed
<1> QED BY <1>2, <1>3

LEMMA OpenReplays ==
    ASSUME IInv({}), Replayed, NEW r \in Requests, CommitSubscribe(r)
    PROVE  Replayed'
<1> DEFINE d == doc[r]
<1>0. r \in Requests \ {}
  OBVIOUS
<1>1. /\ d \in Documents /\ d.id = r
      /\ balance' = [balance EXCEPT ![d.user] = @ - d.amount]
      /\ \A row \in transactions : row.doc.id # r
      /\ subscriptions' = subscriptions \cup {d}
      /\ transactions' = transactions \cup {Row("OPEN", d)}
  BY <1>0, CommitSubscribeFacts DEF CommitSubscribe
<1>2. Opened' = Opened \cup {d} /\ Closed' = Closed
  BY <1>1, OpenLogged
<1>3. d \notin Opened /\ d \notin Closed
  BY <1>1 DEF Opened, Closed
<1>4. Opened \subseteq Documents /\ Closed \subseteq Documents
  BY LoggedDocuments DEF IInv
<1>5. IsFiniteSet(Opened') /\ IsFiniteSet(Closed')
  BY <1>2, FS_AddElement DEF Replayed
<1>6. Closed' \subseteq Opened' /\ subscriptions' = Opened' \ Closed'
  BY <1>1, <1>2, <1>3 DEF Replayed, ReplayGivesState
<1>7. ASSUME NEW u \in Users
      PROVE  balance'[u] = InitialBalance - AmountOf(Opened', u) + AmountOf(Closed', u)
  <2>1. /\ AmountOf(Opened, u) \in Int /\ Part(d, u) \in Int
        /\ AmountOf(Opened', u) = AmountOf(Opened, u) + Part(d, u)
        /\ AmountOf(Closed, u) \in Int /\ AmountOf(Closed', u) = AmountOf(Closed, u)
    <3>1. IsFiniteSet(Opened) /\ IsFiniteSet(Closed)
      BY DEF Replayed
    <3> HIDE DEF d
    <3> QED BY <1>1, <1>2, <1>3, <1>4, <3>1, AmountMoves
  <2>2. balance[u] \in Int /\ balance'[u] = balance[u] - Part(d, u)
    BY <1>1, DocumentFields DEF IInv, TypeOK, Part
  <2>3. balance[u] = InitialBalance - AmountOf(Opened, u) + AmountOf(Closed, u)
    BY DEF Replayed, ReplayGivesState
  <2> QED BY <2>1, <2>2, <2>3, DataAssumption
<1> QED BY <1>5, <1>6, <1>7 DEF Replayed, ReplayGivesState

LEMMA CloseReplays ==
    ASSUME IInv({}), Replayed, NEW r \in Requests, CommitCancel(r)
    PROVE  Replayed'
<1> DEFINE d == doc[r]
<1>0. r \in Requests \ {}
  OBVIOUS
<1>1. /\ d \in Documents /\ d \in subscriptions
      /\ balance' = [balance EXCEPT ![d.user] = @ + d.amount]
      /\ subscriptions' = subscriptions \ {d}
      /\ transactions' = transactions \cup {Row("CANCEL", d)}
  BY <1>0, CommitCancelFacts DEF CommitCancel, IInv, TypeOK
<1>2. Opened' = Opened /\ Closed' = Closed \cup {d}
  BY <1>1, CancelLogged
<1>3. d \in Opened /\ d \notin Closed
  BY <1>1 DEF Replayed, ReplayGivesState
<1>4. Opened \subseteq Documents /\ Closed \subseteq Documents
  BY LoggedDocuments DEF IInv
<1>5. IsFiniteSet(Opened') /\ IsFiniteSet(Closed')
  BY <1>2, FS_AddElement DEF Replayed
<1>6. Closed' \subseteq Opened' /\ subscriptions' = Opened' \ Closed'
  BY <1>1, <1>2, <1>3 DEF Replayed, ReplayGivesState
<1>7. ASSUME NEW u \in Users
      PROVE  balance'[u] = InitialBalance - AmountOf(Opened', u) + AmountOf(Closed', u)
  <2>1. /\ AmountOf(Closed, u) \in Int /\ Part(d, u) \in Int
        /\ AmountOf(Closed', u) = AmountOf(Closed, u) + Part(d, u)
        /\ AmountOf(Opened, u) \in Int /\ AmountOf(Opened', u) = AmountOf(Opened, u)
    <3>1. IsFiniteSet(Opened) /\ IsFiniteSet(Closed)
      BY DEF Replayed
    <3> HIDE DEF d
    <3> QED BY <1>1, <1>2, <1>3, <1>4, <3>1, AmountMoves
  <2>2. balance[u] \in Int /\ balance'[u] = balance[u] + Part(d, u)
    BY <1>1, DocumentFields DEF IInv, TypeOK, Part
  <2>3. balance[u] = InitialBalance - AmountOf(Opened, u) + AmountOf(Closed, u)
    BY DEF Replayed, ReplayGivesState
  <2> QED BY <2>1, <2>2, <2>3, DataAssumption
<1> QED BY <1>5, <1>6, <1>7 DEF Replayed, ReplayGivesState

(* In transaction mode the audit log is the source of truth: at every      *)
(* instant its rows give every balance and the active subscriptions,       *)
(* whatever conflicts, aborts, lost commits and crashes do.                *)
THEOREM LogIsTruth == Spec => []ReplayGivesState
<1>1. Init => Replayed
  <2> SUFFICES ASSUME Init PROVE Replayed
    OBVIOUS
  <2>1. Opened = {} /\ Closed = {} /\ subscriptions = {}
    BY DEF Init, Opened, Closed
  <2>2. ASSUME NEW u \in Users PROVE AmountOf({}, u) = 0
    <3>1. AmountOf({}, u) = Total(Of({}, u)) /\ Of({}, u) = {}
      BY Zenon DEF AmountOf, Total, Of
    <3> QED BY <3>1, TotalEmpty
  <2>3. \A u \in Users :
          balance[u] = InitialBalance - AmountOf(Opened, u) + AmountOf(Closed, u)
    BY <2>1, <2>2, DataAssumption DEF Init
  <2> QED BY <2>1, <2>3, FS_EmptySet DEF Replayed, ReplayGivesState
<1>2. IInv({}) /\ Replayed /\ [Next]_vars => Replayed'
  <2> SUFFICES ASSUME IInv({}), Replayed, [Next]_vars
               PROVE  Replayed'
    OBVIOUS
  <2>1. CASE \A r \in Requests : ~CommitSubscribe(r) /\ ~CommitCancel(r)
    <3>1. UNCHANGED <<balance, subscriptions, transactions>>
      BY <2>1, OthersStutter
    <3> QED BY <3>1 DEF Replayed, ReplayGivesState, Opened, Closed
  <2> QED BY <2>1, OpenReplays, CloseReplays
<1>3. Replayed => ReplayGivesState
  BY DEF Replayed
<1> QED BY <1>1, <1>2, <1>3, Invariance, PTL DEF Spec

----------------------------------------------------------------------------
(* Every CANCEL row is the work of one cancel, and its document is gone.   *)
CancelsInv ==
    /\ subscriptions \cap Closed = {}
    /\ Closed = {doc[r] : r \in CancelsDone}
    /\ \A r, q \in CancelsDone : doc[r] = doc[q] => r = q

(* Only a commit answers with success, or leaves a client without answer.  *)
LEMMA OthersAnswer ==
    ASSUME IInv({}), [Next]_vars,
           \A r \in Requests : ~CommitSubscribe(r) /\ ~CommitCancel(r)
    PROVE  \A q \in Requests :
             /\ pc'[q] \in {"ok", "unknown"} <=> pc[q] \in {"ok", "unknown"}
             /\ pc[q] \in {"ok", "unknown"} => doc'[q] = doc[q]
<1> USE DEF IInv, TypeOK
<1>1. ASSUME NEW r \in Requests, Lookup(r) \/ Take(r)
      PROVE  \E l : /\ pc[r] = "idle" /\ l \in {"check", "rejected", "aborted", "credit"}
                    /\ pc' = [pc EXCEPT ![r] = l]
                    /\ \A q \in Requests \ {r} : doc'[q] = doc[q]
  BY <1>1 DEF Lookup, Take, Goto
<1>2. ASSUME NEW r \in Requests,
             \/ NotFound(r) \/ Check(r) \/ Debit(r) \/ Insert(r) \/ Audit(r) \/ Credit(r)
             \/ Expire(r) \/ Refused(r)
      PROVE  /\ UNCHANGED doc
             /\ \/ UNCHANGED pc
                \/ \E l : /\ pc[r] \notin {"ok", "unknown"} /\ l \notin {"ok", "unknown"}
                           /\ pc' = [pc EXCEPT ![r] = l]
  BY <1>2 DEF NotFound, Check, Debit, Insert, Audit, Credit, Expire, Refused, Goto, Answers,
     AbandonedInv, InTxn, WroteUser, Deleted
<1>3. CASE Crash
  BY <1>3 DEF Crash
<1>4. CASE UNCHANGED <<pc, doc>>
  BY <1>4
<1> QED BY <1>1, <1>2, <1>3, <1>4 DEF Next, Continue, SoftDelete, vars

LEMMA NextCancels == IInv({}) /\ CancelsInv /\ [Next]_vars => CancelsInv'
<1> SUFFICES ASSUME IInv({}), CancelsInv, [Next]_vars PROVE CancelsInv'
  OBVIOUS
<1>1. CASE \A r \in Requests : ~CommitSubscribe(r) /\ ~CommitCancel(r)
  <2>1. Closed' = Closed /\ subscriptions' = subscriptions
    BY <1>1, OthersStutter DEF Closed
  <2>2. CancelsDone' = CancelsDone /\ \A q \in CancelsDone : doc'[q] = doc[q]
    BY <1>1, OthersAnswer DEF CancelsDone
  <2>3. {doc'[r] : r \in CancelsDone'} = {doc[r] : r \in CancelsDone}
    BY <2>2
  <2> QED BY <2>1, <2>2, <2>3 DEF CancelsInv
<1>2. ASSUME NEW r \in Requests, CommitSubscribe(r) PROVE CancelsInv'
  <2>0. r \in Requests \ {}
    OBVIOUS
  <2>1. /\ pc[r] = "commit" /\ doc[r].id = r /\ \A row \in transactions : row.doc.id # r
        /\ subscriptions' = subscriptions \cup {doc[r]} /\ UNCHANGED doc
        /\ transactions' = transactions \cup {Row("OPEN", doc[r])}
    BY <1>2, <2>0, CommitSubscribeFacts DEF CommitSubscribe
  <2>2. \A q \in Requests \ {r} : pc'[q] = pc[q]
    BY <1>2, ToldCases DEF CommitSubscribe, IInv, TypeOK
  <2>3. Closed' = Closed /\ doc[r] \notin Closed
    BY <2>1, OpenLogged DEF Closed
  <2>4. CancelsDone' = CancelsDone
    BY <2>1, <2>2 DEF CancelsDone
  <2> QED BY <2>1, <2>3, <2>4 DEF CancelsInv
<1>3. ASSUME NEW r \in Requests, CommitCancel(r) PROVE CancelsInv'
  <2>0. r \in Requests \ {}
    OBVIOUS
  <2>1. /\ pc[r] = "commit_cancel" /\ doc[r] \in subscriptions /\ doc[r].id # r
        /\ subscriptions' = subscriptions \ {doc[r]} /\ UNCHANGED doc
        /\ transactions' = transactions \cup {Row("CANCEL", doc[r])}
    BY <1>3, <2>0, CommitCancelFacts DEF CommitCancel
  <2>2. /\ \A q \in Requests \ {r} : pc'[q] = pc[q]
        /\ pc'[r] \in {"ok", "unknown"}
    BY <1>3, ToldCases DEF CommitCancel, IInv, TypeOK
  <2>3. Closed' = Closed \cup {doc[r]} /\ doc[r] \notin Closed
    BY <2>1, CancelLogged DEF CancelsInv
  <2>4. doc[r] # None
    BY <2>1, DocumentFields DEF IInv, TypeOK
  <2>5. CancelsDone' = CancelsDone \cup {r} /\ r \notin CancelsDone
    BY <2>1, <2>2, <2>4 DEF CancelsDone
  <2>6. {doc'[q] : q \in CancelsDone'} = {doc[q] : q \in CancelsDone} \cup {doc[r]}
    BY <2>1, <2>5
  <2>7. \A q \in CancelsDone : doc[q] # doc[r]
    BY <2>3 DEF CancelsInv
  <2> QED BY <2>1, <2>3, <2>5, <2>6, <2>7 DEF CancelsInv
<1> QED BY <1>1, <1>2, <1>3

(* An error answer, other than a lost commit's, means nothing was done, of *)
(* a subscribe and of a cancel; no subscription is ever cancelled by two   *)
(* cancels.                                                                *)
THEOREM ErrorsDidNothing == Spec => []AnswersAreTrue
<1>1. IInv({}) /\ CancelsInv => AnswersAreTrue
  <2> SUFFICES ASSUME IInv({}), NEW r \in Requests, doc[r] # None, doc[r].id = r
               PROVE  /\ pc[r] \in {"rejected", "aborted"} =>
                           /\ doc[r] \notin subscriptions
                           /\ Row("OPEN", doc[r]) \notin transactions
                      /\ pc[r] = "ok" => Row("OPEN", doc[r]) \in transactions
    BY DEF AnswersAreTrue, CancelsInv
  <2>1. pc[r] \in {"rejected", "aborted"} => ~Committed(doc[r].id, {})
    BY DEF Committed
  <2>2. Row("OPEN", doc[r]).doc = doc[r]
    BY DEF Row
  <2> QED BY <2>1, <2>2 DEF IInv, JournalInv
<1>2. Init => CancelsInv
  BY DEF Init, CancelsInv, Closed, CancelsDone
<1> QED BY <1>1, <1>2, NextCancels, Invariance, PTL DEF Spec

----------------------------------------------------------------------------
(* Both modes on the same collections.  A request with a session appears   *)
(* to the fallback when its transaction commits: answered, in one step.    *)
(* Seen through SeenPc and SeenDoc, every step of the two modes is a step  *)
(* of the fallback, a whole request served at once, or nothing, so what is *)
(* proved of SubscriptionsFallbackProofs!WideSpec holds here.              *)

SeenPc == [r \in Requests |-> IF r \in unsupported THEN barePc[r]
                              ELSE IF pc[r] \in {"ok", "unknown"} THEN "ok" ELSE "idle"]

SeenDoc == [r \in Requests |-> IF r \in unsupported THEN bareDoc[r]
                               ELSE IF pc[r] \in {"ok", "unknown"} THEN doc[r] ELSE None]

Seen == INSTANCE SubscriptionsFallbackProofs WITH pc <- SeenPc, doc <- SeenDoc

(* The assumptions of the fallback's theorems hold here.                   *)
LEMMA SeenAssumptions ==
    Seen!DataAssumption /\ Seen!NoneAssumption /\ Seen!FaultAssumption
BY DataAssumption, NoneAssumption, MixedAssumption
   DEF IsFiniteSet, Seen!IsFiniteSet, Documents, Seen!Documents

Frame ==
    /\ unsupported \subseteq Requests
    /\ DOMAIN barePc = Requests /\ DOMAIN bareDoc = Requests
    /\ \A r \in unsupported : pc[r] = "idle" /\ doc[r] = None
    /\ \A r \in Requests \ unsupported : barePc[r] = "idle" /\ bareDoc[r] = None
    /\ hit \subseteq unsupported

MixedIInv == IInv(unsupported) /\ Seen!IInv /\ Seen!LogIsPast /\ Frame

Apart == UNCHANGED <<pc, doc, unsupported>>

LEMMA SeenHere ==
    ASSUME Frame, NEW r \in unsupported
    PROVE  r \in Requests /\ SeenPc[r] = barePc[r] /\ SeenDoc[r] = bareDoc[r]
BY DEF Frame, SeenPc, SeenDoc

LEMMA PcMoves ==
    ASSUME Frame, UNCHANGED <<pc, unsupported>>, NEW r \in unsupported, NEW l,
           barePc' = [barePc EXCEPT ![r] = l]
    PROVE  SeenPc' = [SeenPc EXCEPT ![r] = l]
BY DEF Frame, SeenPc

LEMMA DocMoves ==
    ASSUME Frame, UNCHANGED <<pc, doc, unsupported>>, NEW r \in unsupported, NEW d,
           bareDoc' = [bareDoc EXCEPT ![r] = d]
    PROVE  SeenDoc' = [SeenDoc EXCEPT ![r] = d]
BY DEF Frame, SeenDoc

LEMMA DocStays ==
    ASSUME UNCHANGED <<pc, doc, unsupported, bareDoc>>
    PROVE  SeenDoc' = SeenDoc
BY DEF SeenDoc

LEMMA GotoSeen ==
    ASSUME Frame, Apart, NEW r \in unsupported, NEW l, Bare!Goto(r, l)
    PROVE  Seen!Goto(r, l)
BY PcMoves DEF Bare!Goto, Seen!Goto, Apart

LEMMA SameCardinality == \A S : Seen!Cardinality(S) = Bare!Cardinality(S)
BY DEF Seen!Cardinality, Bare!Cardinality, Seen!IsFiniteSet, Bare!IsFiniteSet

LEMMA FaultSeen ==
    ASSUME NEW r, NEW kind, Bare!Fault(kind, r)
    PROVE  Seen!Fault(kind, r)
BY SameCardinality DEF Bare!Fault, Seen!Fault

LEMMA ReturnsSeen ==
    ASSUME Frame, Apart, NEW r \in unsupported, NEW l, Bare!Returns(r, l)
    PROVE  Seen!Returns(r, l)
<1>1. Bare!AfterFailure(barePc[r]) = Seen!AfterFailure(SeenPc[r])
  BY SeenHere DEF Bare!AfterFailure, Seen!AfterFailure
<1> QED BY <1>1, GotoSeen, FaultSeen DEF Bare!Returns, Seen!Returns

LEMMA LookupSeen ==
    ASSUME Frame, Apart, NEW r \in unsupported, Bare!Lookup(r)
    PROVE  Seen!Lookup(r)
<1>1. PICK u \in Users, f \in Funds, payload \in Amounts \cup {None} :
         LET a == Bare!EffectiveAmount(f, payload) IN
         \/ /\ f \in active /\ Bare!Acceptable(f, a)
            /\ bareDoc' = [bareDoc EXCEPT ![r] = Bare!Subscription(r, u, f, a)]
            /\ Bare!Goto(r, "check")
         \/ /\ f \notin active \/ ~Bare!Acceptable(f, a)
            /\ Bare!Goto(r, "rejected")
            /\ UNCHANGED bareDoc
  BY DEF Bare!Lookup
<1>2. barePc[r] = "idle" /\ UNCHANGED <<balance, subscriptions, transactions, active, hit>>
  BY DEF Bare!Lookup
<1> DEFINE a == Bare!EffectiveAmount(f, payload)
           d == Bare!Subscription(r, u, f, a)
<1>3. /\ Seen!EffectiveAmount(f, payload) = a
      /\ Seen!Acceptable(f, a) = Bare!Acceptable(f, a)
      /\ Seen!Subscription(r, u, f, a) = d
  BY DEF Seen!EffectiveAmount, Seen!Acceptable, Seen!Subscription,
     Bare!EffectiveAmount, Bare!Acceptable, Bare!Subscription
<1>4. /\ SeenPc[r] = "idle"
      /\ \A l : Bare!Goto(r, l) => Seen!Goto(r, l)
      /\ bareDoc' = [bareDoc EXCEPT ![r] = d] => SeenDoc' = [SeenDoc EXCEPT ![r] = d]
      /\ UNCHANGED bareDoc => UNCHANGED SeenDoc
  BY <1>2, SeenHere, GotoSeen, DocMoves, DocStays DEF Apart
<1> HIDE DEF a, d
<1> QED BY <1>1, <1>2, <1>3, <1>4 DEF Seen!Lookup, a, d

LEMMA TakeSeen ==
    ASSUME Frame, Apart, NEW r \in unsupported, Bare!Take(r)
    PROVE  Seen!Take(r)
<1>0. PICK u \in Users, s \in Requests : \E d \in Bare!Matches(u, s) :
         /\ subscriptions' = subscriptions \ {d}
         /\ bareDoc' = [bareDoc EXCEPT ![r] = d]
  BY DEF Bare!Take
<1>1. PICK d \in Bare!Matches(u, s) :
         /\ subscriptions' = subscriptions \ {d}
         /\ bareDoc' = [bareDoc EXCEPT ![r] = d]
  BY <1>0
<1>2. /\ barePc[r] = "idle" /\ UNCHANGED <<balance, transactions, active>>
      /\ Bare!Returns(r, "credit")
  BY DEF Bare!Take
<1>3. d \in Seen!Matches(u, s)
  BY DEF Bare!Matches, Seen!Matches
<1>4. SeenDoc' = [SeenDoc EXCEPT ![r] = d]
  BY <1>1, DocMoves DEF Apart
<1>5. SeenPc[r] = "idle" /\ Seen!Returns(r, "credit")
  BY <1>2, SeenHere, ReturnsSeen
<1> QED BY <1>1, <1>2, <1>3, <1>4, <1>5 DEF Seen!Take

LEMMA NotFoundSeen ==
    ASSUME Frame, Apart, NEW r \in unsupported, Bare!NotFound(r)
    PROVE  Seen!NotFound(r)
<1>1. UNCHANGED SeenDoc /\ SeenPc[r] = "idle" /\ Seen!Goto(r, "rejected")
  BY SeenHere, DocStays, GotoSeen DEF Bare!NotFound, Apart
<1> QED BY <1>1 DEF Bare!NotFound, Seen!NotFound, Bare!Matches, Seen!Matches

LEMMA RefusedSeen ==
    ASSUME Frame, Apart, NEW r \in unsupported, Bare!Refused(r)
    PROVE  Seen!Refused(r)
<1>1. UNCHANGED SeenDoc /\ SeenPc[r] = barePc[r]
  BY SeenHere, DocStays DEF Bare!Refused, Apart
<1>2. Bare!AfterFailure(barePc[r]) = Seen!AfterFailure(SeenPc[r])
  BY <1>1 DEF Bare!AfterFailure, Seen!AfterFailure
<1> QED BY <1>1, <1>2, GotoSeen, FaultSeen DEF Bare!Refused, Seen!Refused, Bare!Answers,
        Seen!Answers, Bare!Compensating, Seen!Compensating

LEMMA ContinueSeen ==
    ASSUME Frame, Apart, NEW r \in unsupported, Bare!Continue(r)
    PROVE  Seen!Continue(r)
<1>1. SeenPc[r] = barePc[r] /\ SeenDoc[r] = bareDoc[r]
  BY SeenHere
<1>2. UNCHANGED SeenDoc
  BY DocStays DEF Apart, Bare!Continue, Bare!Check, Bare!Debit, Bare!Insufficient,
     Bare!Insert, Bare!Duplicate, Bare!Audit, Bare!Delete, Bare!Refund, Bare!Credit,
     Bare!AuditCancel, Bare!Reinsert, Bare!DebitBack
<1>3. /\ \A l : Bare!Goto(r, l) => Seen!Goto(r, l)
      /\ \A l : Bare!Returns(r, l) => Seen!Returns(r, l)
  BY GotoSeen, ReturnsSeen
<1>4. /\ \A d : Bare!CanInsert(d) = Seen!CanInsert(d)
      /\ \A u, a : /\ Bare!CanDebit(u, a) = Seen!CanDebit(u, a)
                   /\ Bare!Debited(u, a) = Seen!Debited(u, a)
                   /\ Bare!Credited(u, a) = Seen!Credited(u, a)
      /\ \A type, d : Bare!Row(type, d) = Seen!Row(type, d)
  BY DEF Bare!CanInsert, Seen!CanInsert, Bare!CanDebit, Seen!CanDebit, Bare!Debited,
     Seen!Debited, Bare!Credited, Seen!Credited, Bare!Row, Seen!Row
<1>5. Bare!Check(r) => Seen!Check(r)
  BY <1>1, <1>2, <1>3, <1>4 DEF Bare!Check, Seen!Check
<1>6. Bare!Debit(r) => Seen!Debit(r)
  BY <1>1, <1>2, <1>3, <1>4 DEF Bare!Debit, Seen!Debit
<1>7. Bare!Insufficient(r) => Seen!Insufficient(r)
  BY <1>1, <1>2, <1>3, <1>4 DEF Bare!Insufficient, Seen!Insufficient
<1>8. Bare!Insert(r) => Seen!Insert(r)
  BY <1>1, <1>2, <1>3, <1>4 DEF Bare!Insert, Seen!Insert
<1>9. Bare!Duplicate(r) => Seen!Duplicate(r)
  BY <1>1, <1>2, <1>3, <1>4 DEF Bare!Duplicate, Seen!Duplicate
<1>10. Bare!Audit(r) => Seen!Audit(r)
  BY <1>1, <1>2, <1>3, <1>4 DEF Bare!Audit, Seen!Audit
<1>11. Bare!Delete(r) => Seen!Delete(r)
  BY <1>1, <1>2, <1>3, <1>4 DEF Bare!Delete, Seen!Delete
<1>12. Bare!Refund(r) => Seen!Refund(r)
  BY <1>1, <1>2, <1>3, <1>4 DEF Bare!Refund, Seen!Refund
<1>13. Bare!Credit(r) => Seen!Credit(r)
  BY <1>1, <1>2, <1>3, <1>4 DEF Bare!Credit, Seen!Credit
<1>14. Bare!AuditCancel(r) => Seen!AuditCancel(r)
  BY <1>1, <1>2, <1>3, <1>4 DEF Bare!AuditCancel, Seen!AuditCancel
<1>15. Bare!Reinsert(r) => Seen!Reinsert(r)
  BY <1>1, <1>2, <1>3, <1>4 DEF Bare!Reinsert, Seen!Reinsert
<1>16. Bare!DebitBack(r) => Seen!DebitBack(r)
  BY <1>1, <1>2, <1>3, <1>4 DEF Bare!DebitBack, Seen!DebitBack
<1> QED BY <1>5, <1>6, <1>7, <1>8, <1>9, <1>10, <1>11, <1>12, <1>13, <1>14, <1>15, <1>16
        DEF Bare!Continue, Seen!Continue

LEMMA SeenInFlight ==
    ASSUME Frame
    PROVE  Bare!InFlight = Seen!InFlight /\ Bare!InFlight \subseteq unsupported
BY DEF Bare!InFlight, Seen!InFlight, SeenPc, Frame, Bare!Subscribing, Seen!Subscribing,
   Bare!Cancelling, Seen!Cancelling

LEMMA CrashSeen ==
    ASSUME Frame, Apart, Bare!Crash
    PROVE  Seen!Crash
<1>1. Bare!InFlight = Seen!InFlight /\ Bare!InFlight \subseteq unsupported
  BY SeenInFlight
<1>2. UNCHANGED SeenDoc
  BY DocStays DEF Apart, Bare!Crash
<1>3. SeenPc' = [r \in Requests |-> IF r \in Seen!InFlight THEN "crashed" ELSE SeenPc[r]]
  BY <1>1 DEF Bare!Crash, SeenPc, Frame, Apart
<1> QED BY <1>1, <1>2, <1>3, SameCardinality DEF Bare!Crash, Seen!Crash

(* A commit is a request served in one step; the fallback sees nothing     *)
(* else of a transaction.                                                  *)
LEMMA CommitSeen ==
    ASSUME NEW others, others = unsupported, IInv(others), Frame,
           NEW r \in Requests \ others, CommitSubscribe(r) \/ CommitCancel(r),
           UNCHANGED <<bareVars, unsupported>>
    PROVE  Seen!Served(r)
<1>1. /\ doc[r] \in Documents /\ doc[r].amount \in Nat /\ pc[r] \in {"commit", "commit_cancel"}
      /\ pc[r] = "commit" => CommitSubscribe(r)
      /\ pc[r] = "commit_cancel" => CommitCancel(r)
  BY CommitSubscribeFacts, CommitCancelFacts, DocumentFields
     DEF IInv, TypeOK, CommitSubscribe, CommitCancel
<1>2. /\ DOMAIN pc = Requests /\ UNCHANGED doc
      /\ \E l \in {"ok", "unknown"} : pc' = [pc EXCEPT ![r] = l]
  BY ToldCases DEF IInv, TypeOK, CommitSubscribe, CommitCancel
<1>3. /\ SeenPc[r] = "idle"
      /\ SeenPc' = [SeenPc EXCEPT ![r] = "ok"]
      /\ SeenDoc' = [SeenDoc EXCEPT ![r] = doc[r]]
  BY <1>1, <1>2 DEF SeenPc, SeenDoc, bareVars
<1>4. UNCHANGED <<active, hit>>
  BY DEF CommitSubscribe, CommitCancel, bareVars
<1>5. CASE pc[r] = "commit"
  <2>1. /\ doc[r].id = r
        /\ balance' = [balance EXCEPT ![doc[r].user] = @ - doc[r].amount]
        /\ balance[doc[r].user] >= doc[r].amount
        /\ doc[r].amount >= Minimum[doc[r].fund]
        /\ ~Taken(doc[r])
        /\ subscriptions' = subscriptions \cup {doc[r]}
        /\ transactions' = transactions \cup {Row("OPEN", doc[r])}
    BY <1>1, <1>5, CommitSubscribeFacts DEF CommitSubscribe
  <2>2. Seen!ServedOpen(r, doc[r])
    BY <2>1 DEF Seen!ServedOpen, Seen!CanInsert, Seen!CanDebit, Seen!Debited, Seen!Row,
       Row, Taken
  <2> QED BY <1>1, <1>3, <1>4, <2>2 DEF Seen!Served, Seen!Documents, Documents
<1>6. CASE pc[r] = "commit_cancel"
  <2>1. /\ doc[r] \in subscriptions
        /\ balance' = [balance EXCEPT ![doc[r].user] = @ + doc[r].amount]
        /\ subscriptions' = subscriptions \ {doc[r]}
        /\ transactions' = transactions \cup {Row("CANCEL", doc[r])}
    BY <1>1, <1>6, CommitCancelFacts DEF CommitCancel
  <2>2. Seen!ServedClose(doc[r])
    BY <2>1 DEF Seen!ServedClose, Seen!Credited, Seen!Row, Row
  <2> QED BY <1>1, <1>3, <1>4, <2>2 DEF Seen!Served, Seen!Documents, Documents
<1> QED BY <1>1, <1>5, <1>6

LEMMA QuietSeen ==
    ASSUME Frame, UNCHANGED <<bareVars, unsupported>>,
           \/ \E r \in Requests \ unsupported :
                \/ Lookup(r) \/ Take(r) \/ NotFound(r) \/ Refused(r) \/ Expire(r)
                \/ Check(r) \/ Debit(r) \/ Insert(r) \/ Audit(r) \/ Credit(r)
           \/ Crash,
           TypeOK, AbandonedInv
    PROVE  UNCHANGED <<balance, subscriptions, transactions, active, hit, SeenPc, SeenDoc>>
<1>1. UNCHANGED <<balance, subscriptions, transactions, active, hit>>
  BY DEF Lookup, Take, NotFound, Refused, Expire, Check, Debit, Insert, Audit, Credit, Crash,
     data, bareVars
<1>2. ASSUME NEW q \in Requests
      PROVE  /\ pc'[q] \in {"ok", "unknown"} <=> pc[q] \in {"ok", "unknown"}
             /\ pc[q] \in {"ok", "unknown"} => doc'[q] = doc[q]
  <2>1. CASE Crash
    BY <2>1 DEF Crash
  <2>2. ASSUME NEW r \in Requests,
               \/ Lookup(r) \/ Take(r) \/ NotFound(r) \/ Refused(r) \/ Expire(r)
               \/ Check(r) \/ Debit(r) \/ Insert(r) \/ Audit(r) \/ Credit(r)
        PROVE  /\ pc'[q] \in {"ok", "unknown"} <=> pc[q] \in {"ok", "unknown"}
               /\ pc[q] \in {"ok", "unknown"} => doc'[q] = doc[q]
    <3>1. pc[r] \notin {"ok", "unknown"}
      BY <2>2 DEF Lookup, Take, NotFound, Refused, Expire, Check, Debit, Insert, Audit, Credit,
         AbandonedInv, InTxn, WroteUser, Deleted, Answers
    <3>2. \E l : l \notin {"ok", "unknown"} /\ (pc' = [pc EXCEPT ![r] = l] \/ pc' = pc)
      BY <2>2 DEF Lookup, Take, NotFound, Refused, Expire, Check, Debit, Insert, Audit, Credit,
         Goto
    <3>3. UNCHANGED doc \/ \E d : doc' = [doc EXCEPT ![r] = d]
      BY <2>2 DEF Lookup, Take, NotFound, Refused, Expire, Check, Debit, Insert, Audit, Credit
    <3>4. (pc[q] \in {"ok", "unknown"} => q # r) /\ (q # r => pc'[q] = pc[q])
      BY <3>1, <3>2 DEF TypeOK
    <3>5. q # r => doc'[q] = doc[q]
      BY <3>3 DEF TypeOK
    <3>6. pc'[r] \notin {"ok", "unknown"}
      BY <3>1, <3>2 DEF TypeOK
    <3> QED BY <3>1, <3>4, <3>5, <3>6
  <2> QED BY <2>1, <2>2
<1> QED BY <1>1, <1>2 DEF SeenPc, SeenDoc, bareVars

(* A write outside transactions leaves what the open ones rely on alone.   *)
LEMMA BareWriteStep ==
    ASSUME NEW others, IInv(others), BareWrite,
           balance' \in [Users -> Int], subscriptions' \subseteq Documents,
           transactions \subseteq transactions', transactions' \subseteq Rows,
           active' \subseteq active,
           \A d \in subscriptions' : Committed(d.id, others),
           \A row \in transactions' : Committed(row.doc.id, others)
    PROVE  IInv(others)'
<1> USE DEF IInv, TypeOK
<1>1. /\ UNCHANGED <<pc, doc, snap, abandoned, faults>>
      /\ stale \subseteq stale' /\ stale' \subseteq Requests
      /\ \A u \in Repaid : Outdated(u) \subseteq stale'
  BY DEF BareWrite, Outdated
<1>2. ASSUME NEW u \in Users, UserLocked(u, None) PROVE balance'[u] = balance[u]
  BY <1>2 DEF BareWrite, Repaid
<1>3. ASSUME NEW q \in Requests, pc[q] \in WroteUser \cup Deleted
      PROVE  doc[q] \in Documents /\ doc[q].user \in Users
  BY <1>3, DocumentFields DEF DocsInv, WroteUser, Deleted, Opening
<1>4. ASSUME NEW q \in Requests, pc[q] \in WroteUser
      PROVE  balance'[doc[q].user] = balance[doc[q].user]
  BY <1>2, <1>3, <1>4, MixedAssumption DEF UserLocked
<1>5. TypeOK'
  BY <1>1
<1>6. ASSUME NEW q \in Requests, pc[q] \in Deleted PROVE doc[q] \in subscriptions'
  <2>1. doc[q] \in subscriptions /\ KeyLocked(doc[q], None)
    BY <1>6, MixedAssumption DEF KeyLocked, DocsInv
  <2> QED BY <2>1 DEF BareWrite, Moved
<1>7. DocsInv'
  BY <1>1, <1>6 DEF DocsInv, DocLocked
<1>8. NoLostUpdate'
  BY <1>1, <1>4 DEF NoLostUpdate, UserLocked
<1>9. SnapInv'
  <2> SUFFICES ASSUME NEW q \in Requests, pc[q] = "credit", q \notin stale'
               PROVE  snap[q] = balance'[doc[q].user]
    BY <1>1 DEF SnapInv
  <2>1. doc[q].user \in Users /\ doc[q].user \notin Repaid
    BY <1>1, <1>3 DEF Outdated, Deleted
  <2> QED BY <1>1, <2>1 DEF SnapInv, Repaid
<1>10. CoveredInv'
  <2>1. ASSUME NEW q \in Requests, pc[q] \in Inserted PROVE ~Taken(doc[q])'
    <3> SUFFICES ASSUME NEW e \in subscriptions', SameKey(e, doc[q]) PROVE FALSE
      BY <1>1 DEF Taken, SameKey
    <3>1. e \notin subscriptions
      BY <2>1 DEF CoveredInv, Taken, SameKey
    <3>2. KeyLocked(e, None)
      BY <2>1, MixedAssumption DEF KeyLocked, SameKey
    <3> QED BY <3>1, <3>2 DEF BareWrite, Moved
  <2> QED BY <1>1, <1>4, <2>1 DEF CoveredInv, Debited, WroteUser
<1>11. JournalInv(others)'
  BY <1>1 DEF JournalInv, Committed
<1>12. AbandonedInv'
  BY <1>1 DEF AbandonedInv, InTxn
<1> QED BY <1>5, <1>7, <1>8, <1>9, <1>10, <1>11, <1>12

(* Every step of the two modes together, as the fallback sees it.          *)
LEMMA SeenStep ==
    ASSUME MixedIInv, [MixedNext]_mixedVars
    PROVE  [Seen!WideNext]_(Seen!vars)
<1>1. PICK others : others = unsupported
  OBVIOUS
<1>2. IInv(others) /\ Frame /\ TypeOK /\ AbandonedInv
  BY <1>1 DEF MixedIInv, IInv
<1>3. ASSUME NEW r \in Requests, ContinueBare(r) \/ OtherBare(r) PROVE Seen!Next
  <2>1. r \in unsupported /\ Apart
    BY <1>3 DEF ContinueBare, OtherBare, BareWrite, Apart
  <2>2. CASE ContinueBare(r)
    BY <1>2, <2>1, <2>2, ContinueSeen DEF ContinueBare, Seen!Next
  <2>3. CASE OtherBare(r)
    BY <1>2, <2>1, <2>3, LookupSeen, TakeSeen, NotFoundSeen, RefusedSeen
       DEF OtherBare, Seen!Next
  <2> QED BY <1>3, <2>2, <2>3
<1>4. ASSUME NEW r \in Requests, ContinueTxn(r) \/ ExpireTxn(r) \/ OtherTxn(r)
      PROVE  Seen!WideNext \/ UNCHANGED Seen!vars
  <2>1. r \in Requests \ others /\ r \in Requests \ unsupported
        /\ UNCHANGED <<bareVars, unsupported>>
    BY <1>1, <1>4 DEF ContinueTxn, ExpireTxn, OtherTxn, WithSession
  <2>2. CASE CommitSubscribe(r) \/ CommitCancel(r)
    BY <1>1, <1>2, <2>1, <2>2, CommitSeen DEF Seen!WideNext
  <2>3. CASE ~(CommitSubscribe(r) \/ CommitCancel(r))
    <3>1. UNCHANGED <<balance, subscriptions, transactions, active, hit, SeenPc, SeenDoc>>
      BY <1>2, <1>4, <2>1, <2>3, QuietSeen DEF ContinueTxn, ExpireTxn, OtherTxn, Continue
    <3> QED BY <3>1 DEF Seen!vars
  <2> QED BY <2>2, <2>3
<1>5. CASE Crash /\ UNCHANGED <<bareVars, unsupported>>
  <2>1. UNCHANGED <<balance, subscriptions, transactions, active, hit, SeenPc, SeenDoc>>
    BY <1>2, <1>5, QuietSeen
  <2> QED BY <2>1 DEF Seen!vars
<1>6. CASE Bare!Crash /\ BareWrite
  BY <1>2, <1>6, CrashSeen DEF BareWrite, Apart, Seen!WideNext, Seen!Next
<1>7. ASSUME NEW f \in Funds, SoftDelete(f), UNCHANGED <<bareVars, unsupported>>
      PROVE  Seen!WideNext
  <2>1. UNCHANGED <<SeenPc, SeenDoc, hit>>
    BY <1>7 DEF SoftDelete, SeenPc, SeenDoc, bareVars
  <2> QED BY <1>7, <2>1 DEF SoftDelete, Seen!SoftDelete, Seen!WideNext, Seen!Next
<1>8. CASE UNCHANGED mixedVars
  BY <1>8 DEF mixedVars, vars, bareVars, Seen!vars, SeenPc, SeenDoc
<1> QED BY <1>3, <1>4, <1>5, <1>6, <1>7, <1>8 DEF MixedNext, Around, Seen!WideNext

(* Who has which mode never changes, and nobody has both.                  *)
LEMMA FrameStep ==
    ASSUME Frame, TypeOK, [MixedNext]_mixedVars
    PROVE  Frame'
<1>1. ASSUME NEW r \in Requests, ContinueBare(r) \/ OtherBare(r) PROVE Frame'
  <2>1. r \in unsupported /\ UNCHANGED <<pc, doc, unsupported>>
    BY <1>1 DEF ContinueBare, OtherBare, BareWrite
  <2>2. /\ \E l : barePc' = [barePc EXCEPT ![r] = l]
        /\ UNCHANGED bareDoc \/ \E d : bareDoc' = [bareDoc EXCEPT ![r] = d]
    BY <1>1 DEF ContinueBare, OtherBare, Bare!Continue, Bare!Check, Bare!Debit,
       Bare!Insufficient, Bare!Insert, Bare!Duplicate, Bare!Audit, Bare!Delete, Bare!Refund,
       Bare!Credit, Bare!AuditCancel, Bare!Reinsert, Bare!DebitBack, Bare!Lookup, Bare!Take,
       Bare!NotFound, Bare!Refused, Bare!Goto, Bare!Returns
  <2>3. hit' \subseteq hit \cup {r}
    <3>1. \A l : Bare!Returns(r, l) => hit' \subseteq hit \cup {r}
      BY DEF Bare!Returns, Bare!Fault
    <3> QED BY <1>1, <3>1 DEF ContinueBare, OtherBare, Bare!Continue, Bare!Check, Bare!Debit,
         Bare!Insufficient, Bare!Insert, Bare!Duplicate, Bare!Audit, Bare!Delete,
         Bare!Refund, Bare!Credit, Bare!AuditCancel, Bare!Reinsert, Bare!DebitBack,
         Bare!Lookup, Bare!Take, Bare!NotFound, Bare!Refused, Bare!Fault
  <2> QED BY <2>1, <2>2, <2>3 DEF Frame
<1>2. ASSUME NEW r \in Requests, ContinueTxn(r) \/ ExpireTxn(r) \/ OtherTxn(r) PROVE Frame'
  <2>1. r \notin unsupported /\ UNCHANGED <<barePc, bareDoc, hit, unsupported>>
    BY <1>2 DEF ContinueTxn, ExpireTxn, OtherTxn, WithSession, bareVars
  <2>2. /\ UNCHANGED pc \/ \E l : pc' = [pc EXCEPT ![r] = l]
        /\ UNCHANGED doc \/ \E d : doc' = [doc EXCEPT ![r] = d]
    BY <1>2 DEF ContinueTxn, ExpireTxn, OtherTxn, Continue, Lookup, Take, NotFound, Refused,
       Expire, Check, Debit, Insert, Audit, Credit, CommitSubscribe, CommitCancel, Told, Goto
  <2> QED BY <2>1, <2>2 DEF Frame, TypeOK
<1>3. CASE Crash /\ UNCHANGED <<bareVars, unsupported>>
  BY <1>3 DEF Crash, bareVars, Frame
<1>4. CASE Bare!Crash /\ BareWrite
  BY <1>4 DEF Bare!Crash, Bare!InFlight, Bare!Subscribing, Bare!Cancelling, BareWrite, Frame
<1>5. ASSUME NEW f \in Funds, SoftDelete(f), UNCHANGED <<bareVars, unsupported>>
      PROVE  Frame'
  BY <1>5 DEF SoftDelete, bareVars, Frame
<1>6. CASE UNCHANGED mixedVars
  BY <1>6 DEF mixedVars, vars, bareVars, Frame
<1> QED BY <1>1, <1>2, <1>3, <1>4, <1>5, <1>6 DEF MixedNext, Around

(* An id that the fallback has seen come is one of its own requests, or a  *)
(* committed one.                                                          *)
LEMMA SeenAreCommitted ==
    ASSUME NEW others, Seen!IInv', Seen!LogIsPast', others = unsupported', UNCHANGED pc
    PROVE  /\ balance' \in [Users -> Int] /\ subscriptions' \subseteq Documents
           /\ transactions' \subseteq Rows
           /\ \A d \in subscriptions' : Committed(d.id, others)
           /\ \A row \in transactions' : Committed(row.doc.id, others)
<1>1. /\ balance' \in [Users -> Int] /\ subscriptions' \subseteq Documents
      /\ transactions' \subseteq Rows
  BY DEF Seen!IInv, Seen!TypeOK, Seen!Documents, Documents, Seen!Rows, Rows
<1>2. ASSUME NEW q \in Requests, SeenPc'[q] # "idle" PROVE Committed(q, others)
  BY <1>2 DEF SeenPc, Committed
<1>3. ASSUME NEW d \in subscriptions' PROVE Committed(d.id, others)
  <2>1. SeenPc'[d.id] # "idle"
    BY <1>3 DEF Seen!IInv, Seen!CreatorsInv, Seen!Created, Seen!PastInsert
  <2> QED BY <1>1, <1>2, <2>1, DocumentFields
<1>4. ASSUME NEW row \in transactions' PROVE Committed(row.doc.id, others)
  <2>1. SeenPc'[row.doc.id] # "idle"
    BY <1>4 DEF Seen!LogIsPast
  <2> QED BY <1>1, <1>2, <2>1, DocumentFields DEF Rows
<1> QED BY <1>1, <1>3, <1>4

LEMMA MixedStep == MixedIInv /\ [MixedNext]_mixedVars => MixedIInv'
<1> SUFFICES ASSUME MixedIInv, [MixedNext]_mixedVars PROVE MixedIInv'
  OBVIOUS
<1>1. PICK others : others = unsupported
  OBVIOUS
<1>2. IInv(others) /\ Frame /\ TypeOK /\ Seen!IInv /\ Seen!LogIsPast
  BY <1>1 DEF MixedIInv, IInv
<1>3. Seen!IInv' /\ Seen!LogIsPast'
  BY <1>2, SeenStep, SeenAssumptions, Seen!NextIInv, Seen!NextLogIsPast
<1>4. Frame'
  BY <1>2, FrameStep
<1>5. unsupported' = others
  BY <1>1 DEF MixedNext, Around, ContinueTxn, ExpireTxn, OtherTxn, WithSession, ContinueBare,
     OtherBare, BareWrite, mixedVars
<1>6. ASSUME BareWrite, \/ Bare!Crash
                        \/ \E r \in Requests : \/ Bare!Continue(r) \/ Bare!Lookup(r)
                                              \/ Bare!Take(r) \/ Bare!NotFound(r)
                                              \/ Bare!Refused(r)
      PROVE  IInv(others)'
  <2>1. transactions \subseteq transactions' /\ UNCHANGED active
    BY <1>6 DEF Bare!Crash, Bare!Continue, Bare!Check, Bare!Debit,
       Bare!Insufficient, Bare!Insert, Bare!Duplicate, Bare!Audit, Bare!Delete, Bare!Refund,
       Bare!Credit, Bare!AuditCancel, Bare!Reinsert, Bare!DebitBack, Bare!Lookup, Bare!Take,
       Bare!NotFound, Bare!Refused
  <2>2. UNCHANGED pc
    BY <1>6 DEF BareWrite
  <2> QED BY <1>2, <1>3, <1>5, <1>6, <2>1, <2>2, SeenAreCommitted, BareWriteStep
<1>7. ASSUME NEW r \in Requests, ContinueTxn(r) \/ ExpireTxn(r) \/ OtherTxn(r)
      PROVE  IInv(others)'
  <2>1. r \in Requests \ others
    BY <1>1, <1>7 DEF ContinueTxn, ExpireTxn, OtherTxn, WithSession
  <2> QED BY <1>2, <1>7, <2>1, LookupStep, TakeStep, ReadStep, DebitStep, InsertStep,
          CreditStep, CommitSubscribeStep, CommitCancelStep, ExpireStep, RefusedStep
          DEF ContinueTxn, ExpireTxn, OtherTxn, Continue
<1>8. ASSUME Crash PROVE IInv(others)'
  BY <1>2, <1>8, CrashStep
<1>9. ASSUME NEW f \in Funds, SoftDelete(f) PROVE IInv(others)'
  BY <1>2, <1>9, UnchangedStep DEF SoftDelete
<1>10. ASSUME UNCHANGED mixedVars PROVE IInv(others)'
  BY <1>2, <1>10, UnchangedStep DEF mixedVars, vars
<1>11. IInv(others)'
  BY <1>6, <1>7, <1>8, <1>9, <1>10 DEF MixedNext, Around, ContinueBare, OtherBare
<1> QED BY <1>3, <1>4, <1>5, <1>11 DEF MixedIInv

LEMMA MixedInitIInv == MixedInit => MixedIInv /\ Seen!Init
<1> SUFFICES ASSUME MixedInit PROVE MixedIInv /\ Seen!Init
  OBVIOUS
<1>1. IInv(unsupported)
  BY InitIInv DEF MixedInit
<1>2. Frame
  BY DEF MixedInit, Init, Bare!Init, Frame
<1>3. Seen!Init
  BY DEF MixedInit, Init, Bare!Init, Seen!Init, SeenPc, SeenDoc
<1>4. Seen!LogIsPast
  BY <1>3 DEF Seen!Init, Seen!LogIsPast
<1> QED BY <1>1, <1>2, <1>3, <1>4, SeenAssumptions, Seen!InitIInv DEF MixedIInv

LEMMA MixedInvariance == MixedSpec => []MixedIInv
BY MixedInitIInv, MixedStep, PTL DEF MixedSpec

LEMMA SeenSpec == MixedSpec => Seen!WideSpec
<1>1. MixedInit => Seen!Init
  BY MixedInitIInv
<1>2. MixedIInv /\ [MixedNext]_mixedVars => [Seen!WideNext]_(Seen!vars)
  BY SeenStep
<1> QED BY <1>1, <1>2, MixedInvariance, PTL DEF MixedSpec, Seen!WideSpec

(* What the fallback sees of the collections is what its actions work on.  *)
LEMMA SeenBooks ==
    ASSUME Frame
    PROVE  /\ \A L : L \subseteq Bare!Subscribing \cup Bare!Cancelling => Seen!At(L) = Bare!At(L)
           /\ Seen!InHand = Bare!InHand /\ Seen!BeingClosed = Bare!BeingClosed
           /\ Seen!OutOfWallet = Bare!OutOfWallet
<1>1. ASSUME NEW L, L \subseteq Bare!Subscribing \cup Bare!Cancelling
      PROVE  Seen!At(L) = Bare!At(L)
  <2>1. {q \in Requests : SeenPc[q] \in L} = {q \in Requests : barePc[q] \in L}
        /\ \A q \in Requests : barePc[q] \in L => SeenDoc[q] = bareDoc[q]
    BY <1>1 DEF SeenPc, SeenDoc, Frame, Bare!Subscribing, Bare!Cancelling
  <2> QED BY <2>1 DEF Seen!At, Bare!At
<1>2. Seen!InHand = Bare!InHand /\ Seen!BeingClosed = Bare!BeingClosed
  BY <1>1 DEF Seen!InHand, Bare!InHand, Seen!BeingClosed, Bare!BeingClosed,
     Bare!Subscribing, Bare!Cancelling
<1> QED BY <1>1, <1>2 DEF Seen!OutOfWallet, Bare!OutOfWallet

LEMMA SameSums ==
    \A f : Seen!SumFunction(f) = SumFunction(f) /\ Bare!SumFunction(f) = SumFunction(f)
BY DEF SumFunction, Seen!SumFunction,
   Bare!SumFunction, SumFunctionOnSet, Seen!SumFunctionOnSet, Bare!SumFunctionOnSet,
   FoldFunctionOnSet, Seen!FoldFunctionOnSet, Bare!FoldFunctionOnSet,
   MapThenFoldSet, Seen!MapThenFoldSet, Bare!MapThenFoldSet

LEMMA SameAmounts ==
    \A S, u : Seen!AmountOf(S, u) = AmountOf(S, u) /\ Bare!AmountOf(S, u) = AmountOf(S, u)
BY SameSums DEF AmountOf, Seen!AmountOf, Bare!AmountOf

----------------------------------------------------------------------------
(* The two modes together.                                                 *)

(* A transaction commits the balance it computed only if no other request, *)
(* of either mode, has changed it since its snapshot.                      *)
THEOREM MixedLosesNoUpdate == MixedSpec => []NoLostUpdate
<1>1. MixedIInv => NoLostUpdate
  BY DEF MixedIInv, IInv
<1> QED BY <1>1, MixedInvariance, PTL

(* A cancel answered with success, in either mode, is final in both: its   *)
(* subscription is not stored again, and no request of either mode still   *)
(* works on it but the compensation of a bare one that a fault hit.        *)
THEOREM MixedCancelStaysFinal == MixedSpec => []MixedCancelIsFinal
<1>1. MixedIInv => MixedCancelIsFinal
  <2> SUFFICES ASSUME MixedIInv PROVE MixedCancelIsFinal
    OBVIOUS
  <2>1. /\ Seen!CancelIsFinal /\ Frame
        /\ \A q \in Requests : pc[q] \in Deleted => doc[q] \in subscriptions
        /\ \A q \in Requests : pc[q] \in Opening => doc[q].id = q
        /\ \A q \in Requests : pc[q] = "idle" => doc[q] = None
    BY SeenAssumptions, Seen!FinalInv DEF MixedIInv, IInv, DocsInv
  <2>2. ASSUME NEW d \in Cancelled
        PROVE  \E q \in Requests : SeenPc[q] = "ok" /\ SeenDoc[q] = d /\ d.id # q
    BY <2>1, <2>2 DEF Cancelled, SeenPc, SeenDoc, Frame
  <2>3. ASSUME NEW d \in Cancelled
        PROVE  /\ d \notin subscriptions /\ d # None
               /\ SeenPc[d.id] # "idle"
               /\ \A q \in Requests : SeenDoc[q] = d =>
                    \/ SeenPc[q] \in Seen!Answers \cup {"audit"}
                    \/ q \in hit /\ SeenPc[q] \in {"delete", "refund", "debit_back"}
    <3>1. PICK q \in Requests : SeenPc[q] = "ok" /\ SeenDoc[q] = d /\ d.id # q
      BY <2>2
    <3>2. d \in Seen!Documents /\ Seen!Created(d)
      BY <3>1 DEF MixedIInv, Seen!IInv, Seen!DocsInv, Seen!CreatorsInv, Seen!Held
    <3>3. d # None
      BY <3>2, SeenAssumptions, Seen!DocumentFields
    <3>4. SeenPc[d.id] # "idle"
      BY <3>2 DEF Seen!Created, Seen!PastInsert
    <3> QED BY <2>1, <3>1, <3>3, <3>4 DEF Seen!CancelIsFinal, Seen!Answers
  <2>4. ASSUME NEW r \in Requests, doc[r] \in Cancelled PROVE pc[r] \in Answers
    <3>1. pc[r] \notin Deleted /\ pc[r] # "idle"
      BY <2>1, <2>3, <2>4
    <3>2. CASE pc[r] \in Opening
      <4>1. doc[r].id = r /\ SeenPc[r] # "idle" /\ r \notin unsupported
        BY <2>1, <2>3, <2>4, <3>2 DEF Frame, Opening
      <4> QED BY <3>2, <4>1 DEF SeenPc, Opening
    <3> QED BY <3>1, <3>2 DEF MixedIInv, IInv, TypeOK, WroteUser, Deleted, Opening
  <2>5. ASSUME NEW r \in Requests, bareDoc[r] \in Cancelled
        PROVE  \/ barePc[r] \in Bare!Answers \cup {"audit"}
               \/ r \in hit /\ barePc[r] \in {"delete", "refund", "debit_back"}
    <3>1. r \in unsupported
      BY <2>1, <2>3, <2>5 DEF Frame
    <3>2. SeenPc[r] = barePc[r] /\ SeenDoc[r] = bareDoc[r]
      BY <2>1, <3>1, SeenHere
    <3> QED BY <2>3, <2>5, <3>2 DEF Seen!Answers, Bare!Answers
  <2> QED BY <2>3, <2>4, <2>5 DEF MixedCancelIsFinal
<1> QED BY <1>1, MixedInvariance, PTL

(* Once no request without a session is in flight, the books of a user are *)
(* wrong by no more than those of them that faults hit account for,        *)
(* whatever transactions have committed meanwhile.                         *)
THEOREM MixedDamageIsBounded == MixedSpec => []MixedDamageBounded
<1>1. MixedIInv /\ Seen!DamageBounded => MixedDamageBounded
  <2> SUFFICES ASSUME MixedIInv, Seen!DamageBounded, Bare!Quiescent, NEW u \in Users
               PROVE  LET error == balance[u] + AmountOf(subscriptions, u) - InitialBalance
                      IN  -Bare!HitAmount(u) <= error /\ error <= Bare!HitAmount(u)
    BY SameAmounts DEF MixedDamageBounded, Bare!DamageBounded
  <2>1. Seen!Quiescent
    BY SeenInFlight DEF MixedIInv, Seen!Quiescent, Bare!Quiescent
  <2>2. Seen!HitAmount(u) = Bare!HitAmount(u)
    <3> DEFINE H == {q \in hit : bareDoc[q] # None /\ bareDoc[q].user = u}
    <3>1. \A q \in hit : SeenDoc[q] = bareDoc[q]
      BY DEF MixedIInv, Frame, SeenDoc
    <3>2. /\ {q \in hit : SeenDoc[q] # None /\ SeenDoc[q].user = u} = H
          /\ [q \in H |-> SeenDoc[q].amount] = [q \in H |-> bareDoc[q].amount]
      BY <3>1
    <3> HIDE DEF H
    <3> QED BY <3>2, SameSums DEF H, Seen!HitAmount, Bare!HitAmount
  <2> QED BY <2>1, <2>2, SameAmounts DEF Seen!DamageBounded
<1>2. Seen!WideSpec => []Seen!DamageBounded
  BY SeenAssumptions, Seen!WideDamage
<1> QED BY <1>1, <1>2, SeenSpec, MixedInvariance, PTL

(* The two modes on the same collections are one atomic ledger, until a    *)
(* fault hits a request without a session: crashes, aborts, conflicts and  *)
(* lost commit replies of transactions included.                           *)
THEOREM MixedRefinesLedger == MixedSpec => MixedImplementsLedger
<1> DEFINE Wallet == [u \in Users |-> balance[u] + AmountOf(Bare!InHand, u)]
           Rest == transactions \cup {Row("OPEN", d) : d \in Bare!At({"audit"})}
                                \cup {Row("CANCEL", d) : d \in Bare!BeingClosed}
<1>1. Frame => Seen!Wallet = Wallet /\ Seen!Journal = Rest
  <2> SUFFICES ASSUME Frame PROVE Seen!Wallet = Wallet /\ Seen!Journal = Rest
    OBVIOUS
  <2>1. Seen!At({"audit"}) = Bare!At({"audit"})
    BY SeenBooks DEF Bare!Subscribing
  <2> QED BY <2>1, SeenBooks, SameAmounts DEF Seen!Wallet, Seen!Journal, Seen!Row, Row
<1>2. MixedInit => MixedLedger!LedgerInit
  <2> SUFFICES ASSUME MixedInit PROVE MixedLedger!LedgerInit
    OBVIOUS
  <2>1. Frame /\ Seen!Init
    BY MixedInitIInv DEF MixedIInv
  <2>2. /\ Seen!Wallet = [u \in Users |-> InitialBalance]
        /\ subscriptions = {} /\ Seen!Journal = {}
    BY <2>1, SeenAssumptions, Seen!InitLedger
  <2> QED BY <1>1, <2>1, <2>2 DEF MixedLedger!LedgerInit, MixedLedger!Row, Row
<1>3. (Frame => Seen!Wallet = Wallet /\ Seen!Journal = Rest)'
  BY <1>1, PTL
<1>4. MixedIInv /\ MixedIInv' /\ Seen!Books /\ Seen!Books' /\ [Seen!WideNext]_(Seen!vars)
      => [hit' = {} => MixedLedger!LedgerNext]_(MixedLedger!ledgerVars)
  <2> SUFFICES ASSUME MixedIInv, MixedIInv', Seen!Books, Seen!Books',
                      [Seen!WideNext]_(Seen!vars), hit' = {}
               PROVE  MixedLedger!LedgerNext \/ UNCHANGED MixedLedger!ledgerVars
    OBVIOUS
  <2>0. Seen!Booked /\ Seen!Booked'
    BY SeenAssumptions, Seen!HitGrows DEF Seen!Books, Seen!Booked
  <2>1. \/ \E d \in Seen!Documents : Seen!Opens(d) \/ Seen!Closes(d)
        \/ UNCHANGED <<Seen!Wallet, subscriptions, Seen!Journal>>
    BY <2>0, SeenAssumptions, Seen!WideTransacts
  <2>2. /\ Seen!Wallet = Wallet /\ Seen!Journal = Rest
        /\ Seen!Wallet' = Wallet' /\ Seen!Journal' = Rest'
    BY <1>1, <1>3 DEF MixedIInv
  <2>3. ASSUME NEW d, Seen!Opens(d) PROVE MixedLedger!Open(d)
    BY <2>2, <2>3 DEF Seen!Opens, MixedLedger!Open, MixedLedger!Row, Row, Seen!Row
  <2>4. ASSUME NEW d, Seen!Closes(d) PROVE MixedLedger!Close(d)
    BY <2>2, <2>4 DEF Seen!Closes, MixedLedger!Close, MixedLedger!Row, Row, Seen!Row
  <2>5. ASSUME UNCHANGED <<Seen!Wallet, subscriptions, Seen!Journal>>
        PROVE  UNCHANGED MixedLedger!ledgerVars
    BY <2>2, <2>5 DEF MixedLedger!ledgerVars, MixedLedger!Row, Row
  <2> QED BY <2>1, <2>3, <2>4, <2>5 DEF MixedLedger!LedgerNext, MixedLedger!Documents,
          Seen!Documents, Documents
<1>5. Seen!WideSpec => []Seen!Books
  BY SeenAssumptions, Seen!WideBooks
<1> QED BY <1>2, <1>4, <1>5, SeenSpec, MixedInvariance, PTL
    DEF MixedSpec, Seen!WideSpec, MixedImplementsLedger, MixedLedger!LedgerSpec
=============================================================================
