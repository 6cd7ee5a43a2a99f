-------------------------- MODULE SubscriptionsTxn --------------------------
(***************************************************************************)
(* SubscriptionManager.subscribe and .cancel on a replica set, where       *)
(* atomic_session() yields a session with a multi-document transaction:    *)
(* the writes of a request stay invisible until it commits, a write that   *)
(* meets another transaction's write aborts the request (nothing in the    *)
(* code retries it), and an exception inside the block aborts.  pc[r]      *)
(* names the call request r makes next.                                    *)
(*                                                                         *)
(* MongoDB's part is modelled from how the code uses it: a transaction     *)
(* reads the snapshot of its first call, and the first of two transactions *)
(* to write a document wins.                                               *)
(*                                                                         *)
(* Faults: a call is refused, the reply of a commit is lost, the process   *)
(* dies.  The server then keeps the transaction, and what it has locked,   *)
(* until it expires.                                                       *)
(***************************************************************************)
EXTENDS SubscriptionData

CONSTANT MaxFaults   \* bound on the number of faults

ASSUME MaxFaultsAssumption == MaxFaults \in Nat

VARIABLES
    balance,         \* users collection, committed
    subscriptions,   \* subscriptions collection, committed
    transactions,    \* transactions collection, committed
    active,          \* funds collection: the funds with activo = true
    pc,              \* the call each request makes next, or its answer
    doc,             \* the document each request inserts, or deletes
    snap,            \* the user's balance in the snapshot of each request
    stale,           \* requests whose user document changed since their snapshot
    abandoned,       \* open transactions whose client has given up, or died
    faults           \* history: the number of faults so far

vars == <<balance, subscriptions, transactions, active, pc, doc, snap, stale,
          abandoned, faults>>

data == <<balance, subscriptions, transactions, active>>

(* Labels by what the request's transaction has already done.              *)
WroteUser == {"insert", "audit", "commit", "audit_cancel", "commit_cancel"}
Inserted  == {"audit", "commit"}
Deleted   == {"credit", "audit_cancel", "commit_cancel"}
Answers   == {"ok", "rejected", "aborted", "unknown"}

InTxn == {r \in Requests : pc[r] \in WroteUser \cup Deleted}

Init ==
    /\ balance = [u \in Users |-> InitialBalance]
    /\ subscriptions = {}
    /\ transactions = {}
    /\ active = Funds
    /\ pc = [r \in Requests |-> "idle"]
    /\ doc = [r \in Requests |-> None]
    /\ snap = [r \in Requests |-> 0]
    /\ stale = {}
    /\ abandoned = {}
    /\ faults = 0

Goto(r, label) == pc' = [pc EXCEPT ![r] = label]

----------------------------------------------------------------------------
(* MongoDB: which writes meet another open transaction.  A definition      *)
(* named Bug... is a plausible defect of the one after it and is not used  *)
(* by the specification.                                                   *)

(* Another open transaction has written the document of user u.            *)
UserLocked(u, r) ==
    \E q \in Requests \ {r} : pc[q] \in WroteUser /\ doc[q].user = u

(* Another open transaction has written the index key (user_id, fund_id).  *)
KeyLocked(d, r) ==
    \E q \in Requests \ {r} : /\ pc[q] \in Inserted \cup Deleted
                              /\ doc[q].user = d.user
                              /\ doc[q].fund = d.fund

(* Another open transaction has deleted d.                                 *)
DocLocked(d, r) == \E q \in Requests \ {r} : pc[q] \in Deleted /\ doc[q] = d

(* The unique index uniq_user_fund refuses d.                              *)
Taken(d) == \E e \in subscriptions : e.user = d.user /\ e.fund = d.fund

(* A commit that changes u's document outdates the transactions on u that  *)
(* have taken their snapshot and not written the document yet.             *)
Outdated(u) == {q \in Requests : pc[q] = "credit" /\ doc[q].user = u}

----------------------------------------------------------------------------
(* subscribe                                                               *)

(* get_fund_by_id and the checks on its result, outside the transaction.   *)
Lookup(r) ==
    /\ pc[r] = "idle"
    /\ \E u \in Users, f \in Funds, payload \in Amounts \cup {None} :
         LET a == EffectiveAmount(f, payload) IN
         \/ /\ f \in active /\ Acceptable(f, a)
            /\ doc' = [doc EXCEPT ![r] = Subscription(r, u, f, a)]
            /\ Goto(r, "check")
         \/ /\ f \notin active \/ ~Acceptable(f, a)
            /\ Goto(r, "rejected")
            /\ UNCHANGED doc
    /\ UNCHANGED <<data, snap, stale, abandoned, faults>>

(* _has_active_subscription reads what is committed.                       *)
Check(r) ==
    /\ pc[r] = "check"
    /\ Goto(r, IF Taken(doc[r]) THEN "rejected" ELSE "debit")
    /\ UNCHANGED <<data, doc, snap, stale, abandoned, faults>>

(* _debit_balance, the transaction's first call: no match, a conflict, or  *)
(* a write.                                                                *)
Debit(r) ==
    LET u == doc[r].user IN
    /\ pc[r] = "debit"
    /\ snap' = [snap EXCEPT ![r] = balance[u]]
    /\ Goto(r, IF balance[u] < doc[r].amount THEN "rejected"
               ELSE IF UserLocked(u, r) THEN "aborted" ELSE "insert")
    /\ UNCHANGED <<data, doc, stale, abandoned, faults>>

BugInsertWithoutSession(r) ==
    /\ pc[r] = "insert" /\ r \notin abandoned
    /\ subscriptions' = IF Taken(doc[r]) THEN subscriptions
                                         ELSE subscriptions \cup {doc[r]}
    /\ Goto(r, IF Taken(doc[r]) THEN "rejected" ELSE "audit")
    /\ UNCHANGED <<balance, transactions, active, doc, snap, stale, abandoned, faults>>

(* insert_one of the subscription; a duplicate key aborts as well.         *)
Insert(r) ==
    /\ pc[r] = "insert" /\ r \notin abandoned
    /\ Goto(r, IF KeyLocked(doc[r], r) THEN "aborted"
               ELSE IF Taken(doc[r]) THEN "rejected" ELSE "audit")
    /\ UNCHANGED <<data, doc, snap, stale, abandoned, faults>>

BugAuditWithoutSession(r) ==
    /\ pc[r] \in {"audit", "audit_cancel"} /\ r \notin abandoned
    /\ transactions' = transactions \cup
         {Row(IF pc[r] = "audit" THEN "OPEN" ELSE "CANCEL", doc[r])}
    /\ Goto(r, IF pc[r] = "audit" THEN "commit" ELSE "commit_cancel")
    /\ UNCHANGED <<balance, subscriptions, active, doc, snap, stale, abandoned, faults>>

(* Transaction.objects.create: a new _id meets no other write.             *)
Audit(r) ==
    /\ pc[r] \in {"audit", "audit_cancel"} /\ r \notin abandoned
    /\ Goto(r, IF pc[r] = "audit" THEN "commit" ELSE "commit_cancel")
    /\ UNCHANGED <<data, doc, snap, stale, abandoned, faults>>

----------------------------------------------------------------------------
(* cancel                                                                  *)

BugTakeWithoutSession(r) ==
    /\ pc[r] = "idle"
    /\ \E u \in Users, s \in Requests, d \in subscriptions :
         /\ d.id = s /\ d.user = u
         /\ doc' = [doc EXCEPT ![r] = d]
         /\ snap' = [snap EXCEPT ![r] = balance[u]]
         /\ subscriptions' = subscriptions \ {d}
    /\ Goto(r, "credit")
    /\ UNCHANGED <<balance, transactions, active, stale, abandoned, faults>>

(* find_one_and_delete, the transaction's first call.                      *)
Take(r) ==
    /\ pc[r] = "idle"
    /\ \E u \in Users, s \in Requests, d \in subscriptions :
         /\ d.id = s /\ d.user = u
         /\ doc' = [doc EXCEPT ![r] = d]
         /\ snap' = [snap EXCEPT ![r] = balance[u]]
         /\ Goto(r, IF DocLocked(d, r) THEN "aborted" ELSE "credit")
    /\ UNCHANGED <<data, stale, abandoned, faults>>

(* No committed document matches, or the id is malformed.                  *)
NotFound(r) ==
    /\ pc[r] = "idle"
    /\ \E u \in Users, s \in Requests :
         {d \in subscriptions : d.id = s /\ d.user = u} = {}
    /\ Goto(r, "rejected")
    /\ UNCHANGED <<data, doc, snap, stale, abandoned, faults>>

BugCreditStale(r) ==
    /\ pc[r] = "credit" /\ r \notin abandoned
    /\ Goto(r, IF UserLocked(doc[r].user, r) THEN "aborted" ELSE "audit_cancel")
    /\ UNCHANGED <<data, doc, snap, stale, abandoned, faults>>

BugCreditRetried(r) ==
    /\ pc[r] = "credit" /\ r \notin abandoned
    /\ Goto(r, IF UserLocked(doc[r].user, r) \/ r \in stale THEN "credit"
                                                    ELSE "audit_cancel")
    /\ UNCHANGED <<data, doc, snap, stale, abandoned, faults>>

(* _credit_balance.                                                        *)
Credit(r) ==
    /\ pc[r] = "credit" /\ r \notin abandoned
    /\ Goto(r, IF UserLocked(doc[r].user, r) \/ r \in stale THEN "aborted"
                                                    ELSE "audit_cancel")
    /\ UNCHANGED <<data, doc, snap, stale, abandoned, faults>>

----------------------------------------------------------------------------
(* The end of the transaction                                              *)

(* The client of a committed transaction is told, unless the reply is      *)
(* lost or the client gone.                                                *)
Told(r) ==
    \/ r \notin abandoned /\ Goto(r, "ok") /\ UNCHANGED faults
    \/ r \in abandoned /\ Goto(r, "unknown") /\ UNCHANGED faults
    \/ /\ r \notin abandoned /\ faults < MaxFaults
       /\ Goto(r, "unknown") /\ faults' = faults + 1

(* The transaction's writes become visible together; the balance is the    *)
(* one computed from the snapshot.                                         *)
CommitSubscribe(r) ==
    /\ pc[r] = "commit"
    /\ balance' = [balance EXCEPT ![doc[r].user] = snap[r] - doc[r].amount]
    /\ subscriptions' = subscriptions \cup {doc[r]}
    /\ transactions' = transactions \cup {Row("OPEN", doc[r])}
    /\ stale' = stale \cup Outdated(doc[r].user)
    /\ abandoned' = abandoned \ {r}
    /\ Told(r)
    /\ UNCHANGED <<active, doc, snap>>

CommitCancel(r) ==
    /\ pc[r] = "commit_cancel"
    /\ balance' = [balance EXCEPT ![doc[r].user] = snap[r] + doc[r].amount]
    /\ subscriptions' = subscriptions \ {doc[r]}
    /\ transactions' = transactions \cup {Row("CANCEL", doc[r])}
    /\ stale' = stale \cup Outdated(doc[r].user)
    /\ abandoned' = abandoned \ {r}
    /\ Told(r)
    /\ UNCHANGED <<active, doc, snap>>

(* The server aborts a transaction nobody ends.                            *)
Expire(r) ==
    /\ r \in abandoned
    /\ Goto(r, "aborted")
    /\ abandoned' = abandoned \ {r}
    /\ UNCHANGED <<data, doc, snap, stale, faults>>

(* A call raises without effect.  Inside the transaction, the abort that   *)
(* follows reaches the server, or does not.                                *)
Refused(r) ==
    /\ pc[r] \notin Answers /\ r \notin abandoned
    /\ faults < MaxFaults
    /\ faults' = faults + 1
    /\ \/ Goto(r, "aborted") /\ UNCHANGED abandoned
       \/ r \in InTxn /\ abandoned' = abandoned \cup {r} /\ UNCHANGED pc
    /\ UNCHANGED <<data, doc, snap, stale>>

(* The process dies: its transactions are left open.                       *)
Crash ==
    /\ \E r \in Requests : pc[r] \notin Answers \cup {"idle"} /\ r \notin abandoned
    /\ faults < MaxFaults
    /\ faults' = faults + 1
    /\ abandoned' = InTxn
    /\ pc' = [r \in Requests |->
                IF pc[r] \in {"check", "debit"} THEN "aborted" ELSE pc[r]]
    /\ UNCHANGED <<data, doc, snap, stale>>

(* soft_delete_fund by an administrator, between any two calls.            *)
SoftDelete(f) ==
    /\ f \in active
    /\ active' = active \ {f}
    /\ UNCHANGED <<balance, subscriptions, transactions, pc, doc, snap, stale,
                   abandoned, faults>>

----------------------------------------------------------------------------
Continue(r) ==
    \/ Check(r) \/ Debit(r) \/ Insert(r) \/ Audit(r) \/ Credit(r)
    \/ CommitSubscribe(r) \/ CommitCancel(r)

Next ==
    \/ \E r \in Requests :
         \/ Lookup(r) \/ Take(r) \/ NotFound(r)
         \/ Continue(r) \/ Expire(r) \/ Refused(r)
    \/ \E f \in Funds : SoftDelete(f)
    \/ Crash

Spec == Init /\ [][Next]_vars

(* The event loop resumes every handler, and the server ends what exceeds  *)
(* transactionLifetimeLimitSeconds.                                        *)
FairSpec ==
    Spec /\ \A r \in Requests : WF_vars(Continue(r)) /\ WF_vars(Expire(r))

----------------------------------------------------------------------------
(* Properties                                                              *)

TypeOK ==
    /\ balance \in [Users -> Int]
    /\ subscriptions \subseteq Documents
    /\ transactions \subseteq Rows
    /\ active \subseteq Funds
    /\ pc \in [Requests -> {"idle", "check", "debit"}
                             \cup WroteUser \cup Deleted \cup Answers]
    /\ doc \in [Requests -> Documents \cup {None}]
    /\ snap \in [Requests -> Int]
    /\ stale \subseteq Requests
    /\ abandoned \subseteq Requests
    /\ faults \in Nat

(* With transactions the equation of the class docstring does hold at      *)
(* every instant, whatever conflicts, aborts, lost commits and crashes do. *)
ConservedAtEveryInstant ==
    \A u \in Users : balance[u] + AmountOf(subscriptions, u) = InitialBalance

Opened == {row.doc : row \in {x \in transactions : x.type = "OPEN"}}
Closed == {row.doc : row \in {x \in transactions : x.type = "CANCEL"}}

(* Committed cancels: accepted, or never told.                             *)
CancelsDone ==
    {r \in Requests : pc[r] \in {"ok", "unknown"} /\ doc[r] # None /\ doc[r].id # r}

(* Answers tell what was done, but for a commit whose reply was lost.  A   *)
(* subscribe answered with an error has left neither a subscription nor a  *)
(* row, and one answered with success has its row.  Each CANCEL row is the *)
(* work of exactly one cancel, accepted or never told: one answered with   *)
(* an error logged nothing, and a retry or a second device never cancels   *)
(* the same subscription again.                                            *)
AnswersAreTrue ==
    /\ \A r \in Requests :
         (doc[r] # None /\ doc[r].id = r) =>
           /\ pc[r] \in {"rejected", "aborted"} =>
                doc[r] \notin subscriptions /\ Row("OPEN", doc[r]) \notin transactions
           /\ pc[r] = "ok" => Row("OPEN", doc[r]) \in transactions
    /\ Closed = {doc[r] : r \in CancelsDone}
    /\ \A r, q \in CancelsDone : doc[r] = doc[q] => r = q

(* A write made from a snapshot is never built on an outdated balance, and *)
(* at most one open transaction has written a user's document.             *)
NoLostUpdate ==
    \A r \in Requests : pc[r] \in WroteUser =>
      /\ snap[r] = balance[doc[r].user]
      /\ ~UserLocked(doc[r].user, r)

(* The audit log is the source of truth (README): at every instant its     *)
(* rows alone give every user's balance and the active subscriptions, with *)
(* no row missing, left over by an abort, or of a cancel that came before. *)
ReplayGivesState ==
    /\ Closed \subseteq Opened
    /\ subscriptions = Opened \ Closed
    /\ \A u \in Users :
         balance[u] = InitialBalance - AmountOf(Opened, u) + AmountOf(Closed, u)

(* Every transaction ends and frees what it has locked, those of a dead    *)
(* process included: conflicts abort, so nobody waits for anybody.         *)
TransactionsEnd == \A r \in Requests : r \in InTxn ~> r \notin InTxn

(* Both modes keep the promise of the abstract ledger; here the refinement *)
(* is the identity on the committed collections.                           *)
AtomicLedger == INSTANCE Ledger WITH
    wallet <- balance, holdings <- subscriptions, journal <- transactions

ImplementsLedger == AtomicLedger!LedgerSpec
=============================================================================
