------------------------ MODULE SubscriptionsFallback ------------------------
(***************************************************************************)
(* SubscriptionManager.subscribe and .cancel on a standalone mongod, where *)
(* atomic_session() yields None: every database call is atomic by itself,  *)
(* nothing spans two of them, and a failure is compensated by inverse      *)
(* calls.  One action per awaited call; pc[r] names the call request r     *)
(* makes next.  Requests interleave at every await.                        *)
(*                                                                         *)
(* Faults: a call is refused (no effect, the driver raises), its reply is  *)
(* lost (effect, the driver raises; the client is built with               *)
(* retryWrites=False), a compensating call is refused, the process dies.   *)
(***************************************************************************)
EXTENDS SubscriptionData

CONSTANTS
    FaultKinds,      \* subset of {"refused", "lost", "undo", "crash"}
    MaxHit           \* bound: how many requests faults may hit

ASSUME FaultAssumption ==
    FaultKinds \subseteq {"refused", "lost", "undo", "crash"} /\ MaxHit \in Nat

VARIABLES
    balance,         \* users collection: balance of each user
    subscriptions,   \* subscriptions collection
    transactions,    \* transactions collection, append-only
    active,          \* funds collection: the funds with activo = true
    pc,              \* the call each request makes next, or its answer
    doc,             \* the document each request inserts, or has deleted
    hit              \* history: the requests a fault has hit

vars == <<balance, subscriptions, transactions, active, pc, doc, hit>>

Subscribing   == {"check", "debit", "insert", "audit", "delete", "refund"}
Cancelling    == {"credit", "audit_cancel", "reinsert", "reinsert_debit",
                  "debit_back"}
Compensating  == {"delete", "refund", "reinsert", "reinsert_debit",
                  "debit_back"}

(* ok: success.  rejected: refused by a check, before anything is written. *)
(* failed: an exception out of a later call, whatever its HTTP status, the *)
(* 409 of a lost insert race included.  crashed: no answer.                *)
Answers       == {"ok", "rejected", "failed", "crashed"}

InFlight == {r \in Requests : pc[r] \in Subscribing \cup Cancelling}

At(labels) == {doc[r] : r \in {q \in Requests : pc[q] \in labels}}

Init ==
    /\ balance = [u \in Users |-> InitialBalance]
    /\ subscriptions = {}
    /\ transactions = {}
    /\ active = Funds
    /\ pc = [r \in Requests |-> "idle"]
    /\ doc = [r \in Requests |-> None]
    /\ hit = {}

----------------------------------------------------------------------------
(* How a call ends.                                                        *)

BugAuditErrorSwallowed(label) == IF label = "audit" THEN "ok" ELSE "failed"

(* Where the except clause, or the next line of the compensation, takes a  *)
(* request whose call raised.  The flags balance_decremented,              *)
(* subscription_inserted and balance_credited are set after the call       *)
(* returns, so a call that raised counts as not done.                      *)
AfterFailure(label) ==
    IF label \in {"insert", "delete"}  THEN "refund"
    ELSE IF label = "audit"           THEN "delete"
    ELSE IF label = "credit"          THEN "reinsert"
    ELSE IF label = "audit_cancel"    THEN "reinsert_debit"
    ELSE IF label = "reinsert_debit"  THEN "debit_back"
    ELSE "failed"

Goto(r, label) == pc' = [pc EXCEPT ![r] = label]

Fault(kind, r) ==
    /\ kind \in FaultKinds
    /\ Cardinality(hit \cup {r}) <= MaxHit
    /\ hit' = hit \cup {r}

(* The call took effect; its reply arrives, or is lost.                    *)
Returns(r, next) ==
    \/ Goto(r, next) /\ UNCHANGED hit
    \/ Goto(r, AfterFailure(pc[r])) /\ Fault("lost", r)

(* A call that raises without effect.                                      *)
Refused(r) ==
    /\ pc[r] \notin Answers
    /\ Fault(IF pc[r] \in Compensating THEN "undo" ELSE "refused", r)
    /\ Goto(r, AfterFailure(pc[r]))
    /\ UNCHANGED <<balance, subscriptions, transactions, active, doc>>

(* The process dies with every request in flight; no compensation runs.    *)
Crash ==
    /\ "crash" \in FaultKinds
    /\ InFlight # {}
    /\ Cardinality(hit \cup InFlight) <= MaxHit
    /\ hit' = hit \cup InFlight
    /\ pc' = [r \in Requests |-> IF r \in InFlight THEN "crashed" ELSE pc[r]]
    /\ UNCHANGED <<balance, subscriptions, transactions, active, doc>>

----------------------------------------------------------------------------
(* The calls.  A definition named Bug... is a plausible defect of the one   *)
(* after it; the specification does not use it, it serves to show that a   *)
(* property can fail.                                                      *)

Debited(u, a) == balance' = [balance EXCEPT ![u] = @ - a]

Credited(u, a) == balance' = [balance EXCEPT ![u] = @ + a]

BugDebitUnfiltered(u, a) == TRUE

(* The matcher of the debit: {_id, balance: {$gte: amount}}.               *)
CanDebit(u, a) == balance[u] >= a

BugNoCompoundIndex(d) == \A e \in subscriptions : e.id # d.id

(* The unique index uniq_user_fund lets d in.                              *)
CanInsert(d) ==
    \A e \in subscriptions : ~(e.user = d.user /\ e.fund = d.fund)

(* The matcher of find_one_and_delete: {_id, user_id}.                     *)
Matches(u, s) == {d \in subscriptions : d.id = s /\ d.user = u}

(* get_fund_by_id and the checks on its result; the first await.           *)
Lookup(r) ==
    /\ pc[r] = "idle"
    /\ \E u \in Users, f \in Funds, payload \in Amounts \cup {None} :
         LET a == EffectiveAmount(f, payload) IN
         \/ /\ f \in active /\ Acceptable(f, a)
            /\ doc' = [doc EXCEPT ![r] = Subscription(r, u, f, a)]
            /\ Goto(r, "check")
         \/ /\ f \notin active \/ ~Acceptable(f, a)
            /\ Goto(r, "rejected")
            /\ UNCHANGED doc
    /\ UNCHANGED <<balance, subscriptions, transactions, active, hit>>

(* _has_active_subscription, a plain read.                                 *)
Check(r) ==
    /\ pc[r] = "check"
    /\ Goto(r, IF CanInsert(doc[r]) THEN "debit" ELSE "rejected")
    /\ UNCHANGED <<balance, subscriptions, transactions, active, doc, hit>>

(* _debit_balance.  InsufficientBalanceError is raised with both flags     *)
(* still False, so nothing is compensated.                                 *)
Debit(r) ==
    /\ pc[r] = "debit"
    /\ CanDebit(doc[r].user, doc[r].amount)
    /\ Debited(doc[r].user, doc[r].amount)
    /\ Returns(r, "insert")
    /\ UNCHANGED <<subscriptions, transactions, active, doc>>

BugInsufficientRefunded(r) ==
    /\ pc[r] = "debit"
    /\ ~CanDebit(doc[r].user, doc[r].amount)
    /\ Goto(r, "refund")
    /\ UNCHANGED <<balance, subscriptions, transactions, active, doc, hit>>

Insufficient(r) ==
    /\ pc[r] = "debit"
    /\ ~CanDebit(doc[r].user, doc[r].amount)
    /\ Goto(r, "rejected")
    /\ UNCHANGED <<balance, subscriptions, transactions, active, doc, hit>>

(* insert_one of the subscription.                                         *)
Insert(r) ==
    /\ pc[r] = "insert"
    /\ CanInsert(doc[r])
    /\ subscriptions' = subscriptions \cup {doc[r]}
    /\ Returns(r, "audit")
    /\ UNCHANGED <<balance, transactions, active, doc>>

BugDuplicateNotRefunded(r) ==
    /\ pc[r] = "insert"
    /\ ~CanInsert(doc[r])
    /\ Goto(r, "failed")
    /\ UNCHANGED <<balance, subscriptions, transactions, active, doc, hit>>

BugDuplicateRetried(r) == pc[r] = "insert" /\ ~CanInsert(doc[r]) /\ UNCHANGED vars

(* DuplicateKeyError: the balance is restored, then AlreadySubscribedError *)
(* goes to the client.                                                     *)
Duplicate(r) ==
    /\ pc[r] = "insert"
    /\ ~CanInsert(doc[r])
    /\ Goto(r, "refund")
    /\ UNCHANGED <<balance, subscriptions, transactions, active, doc, hit>>

(* Transaction.objects.create of the OPEN row.                             *)
Audit(r) ==
    /\ pc[r] = "audit"
    /\ transactions' = transactions \cup {Row("OPEN", doc[r])}
    /\ Returns(r, "ok")
    /\ UNCHANGED <<balance, subscriptions, active, doc>>

(* _compensate_subscribe: delete_one by _id, whose result is not looked    *)
(* at, then the unconditional $inc of the balance.                         *)
Delete(r) ==
    /\ pc[r] = "delete"
    /\ subscriptions' = {d \in subscriptions : d.id # r}
    /\ Goto(r, "refund")
    /\ UNCHANGED <<balance, transactions, active, doc, hit>>

Refund(r) ==
    /\ pc[r] = "refund"
    /\ Credited(doc[r].user, doc[r].amount)
    /\ Goto(r, "failed")
    /\ UNCHANGED <<subscriptions, transactions, active, doc, hit>>

BugTakeOnlyReads(r) ==
    /\ pc[r] = "idle"
    /\ \E u \in Users, s \in Requests : \E d \in Matches(u, s) :
         doc' = [doc EXCEPT ![r] = d]
    /\ Returns(r, "credit")
    /\ UNCHANGED <<balance, subscriptions, transactions, active>>

(* find_one_and_delete, the first await of cancel.  It stands outside the  *)
(* try block: an exception here compensates nothing.                       *)
Take(r) ==
    /\ pc[r] = "idle"
    /\ \E u \in Users, s \in Requests : \E d \in Matches(u, s) :
         /\ subscriptions' = subscriptions \ {d}
         /\ doc' = [doc EXCEPT ![r] = d]
    /\ Returns(r, "credit")
    /\ UNCHANGED <<balance, transactions, active>>

(* SubscriptionNotFoundError, malformed ids included.                      *)
NotFound(r) ==
    /\ pc[r] = "idle"
    /\ \E u \in Users, s \in Requests : Matches(u, s) = {}
    /\ Goto(r, "rejected")
    /\ UNCHANGED <<balance, subscriptions, transactions, active, doc, hit>>

BugCreditMinimum(r) ==
    /\ pc[r] = "credit"
    /\ Credited(doc[r].user, Minimum[doc[r].fund])
    /\ Returns(r, "audit_cancel")
    /\ UNCHANGED <<subscriptions, transactions, active, doc>>

(* _credit_balance.                                                        *)
Credit(r) ==
    /\ pc[r] = "credit"
    /\ Credited(doc[r].user, doc[r].amount)
    /\ Returns(r, "audit_cancel")
    /\ UNCHANGED <<subscriptions, transactions, active, doc>>

(* Transaction.objects.create of the CANCEL row.                           *)
AuditCancel(r) ==
    /\ pc[r] = "audit_cancel"
    /\ transactions' = transactions \cup {Row("CANCEL", doc[r])}
    /\ Returns(r, "ok")
    /\ UNCHANGED <<balance, subscriptions, active, doc>>

(* _compensate_cancel: insert_one of the deleted document, a duplicate key *)
(* being swallowed like any other error, then, when the balance had been   *)
(* credited, the unconditional $inc that takes the money back.             *)
Reinsert(r) ==
    /\ pc[r] \in {"reinsert", "reinsert_debit"}
    /\ subscriptions' = IF CanInsert(doc[r]) THEN subscriptions \cup {doc[r]}
                                             ELSE subscriptions
    /\ Goto(r, IF pc[r] = "reinsert" THEN "failed" ELSE "debit_back")
    /\ UNCHANGED <<balance, transactions, active, doc, hit>>

DebitBack(r) ==
    /\ pc[r] = "debit_back"
    /\ Debited(doc[r].user, doc[r].amount)
    /\ Goto(r, "failed")
    /\ UNCHANGED <<subscriptions, transactions, active, doc, hit>>

(* soft_delete_fund by an administrator, between any two calls.            *)
SoftDelete(f) ==
    /\ f \in active
    /\ active' = active \ {f}
    /\ UNCHANGED <<balance, subscriptions, transactions, pc, doc, hit>>

----------------------------------------------------------------------------
(* A request that has begun goes on to its answer.                         *)
Continue(r) ==
    \/ Check(r) \/ Debit(r) \/ Insufficient(r) \/ Insert(r) \/ Duplicate(r)
    \/ Audit(r) \/ Delete(r) \/ Refund(r)
    \/ Credit(r) \/ AuditCancel(r) \/ Reinsert(r) \/ DebitBack(r)

Next ==
    \/ \E r \in Requests :
         Lookup(r) \/ Take(r) \/ NotFound(r) \/ Continue(r) \/ Refused(r)
    \/ \E f \in Funds : SoftDelete(f)
    \/ Crash

Spec == Init /\ [][Next]_vars

(* The event loop resumes every suspended handler, and the driver answers  *)
(* or raises.  Nothing obliges a client to send a request.                 *)
FairSpec == Spec /\ \A r \in Requests : WF_vars(Continue(r))

----------------------------------------------------------------------------
(* Properties                                                              *)

TypeOK ==
    /\ balance \in [Users -> Int]
    /\ subscriptions \subseteq Documents
    /\ transactions \subseteq Rows
    /\ active \subseteq Funds
    /\ pc \in [Requests -> {"idle"} \cup Subscribing \cup Cancelling \cup Answers]
    /\ doc \in [Requests -> Documents \cup {None}]
    /\ hit \subseteq Requests

(* Money a request has taken and not yet placed or returned.               *)
InHand == At({"insert", "refund", "credit"})

OutOfWallet == subscriptions \cup InHand

Opened == {row.doc : row \in {x \in transactions : x.type = "OPEN"}}
Closed == {row.doc : row \in {x \in transactions : x.type = "CANCEL"}}

(* Documents deleted by a cancel that has not logged it yet.               *)
BeingClosed == At({"credit", "audit_cancel"})

(* Until a fault hits, no peso is created or lost by any interleaving of   *)
(* subscribes, cancels and the compensation of a lost insert race: what is *)
(* not in the wallet is invested or in the hands of a request.             *)
MoneyAccounted ==
    hit = {} => \A u \in Users :
                  balance[u] + AmountOf(OutOfWallet, u) = InitialBalance

(* The same, step by step and without a sum: a user's balance moves only   *)
(* against one document of exactly that amount, leaving or entering the    *)
(* set of those that are paid for.                                         *)
Moved(u) ==
    LET out == {d \in OutOfWallet : d.user = u} IN
    \/ out' = out /\ balance'[u] = balance[u]
    \/ \E d \in out' \ out : /\ out' = out \cup {d}
                            /\ balance'[u] = balance[u] - d.amount
    \/ \E d \in out \ out' : /\ out' = out \ {d}
                            /\ balance'[u] = balance[u] + d.amount

DoubleEntry == [][hit' = {} => \A u \in Users : Moved(u)]_vars

(* Until a fault hits, replaying the audit log gives the subscriptions:    *)
(* every document ever inserted has, or is about to get, one OPEN row, and *)
(* is either still stored, logged as cancelled, or being cancelled by one  *)
(* request.  No subscription is cancelled twice.                           *)
AuditComplete ==
    hit = {} =>
      /\ Opened \cup At({"audit"}) = subscriptions \cup Closed \cup BeingClosed
      /\ subscriptions \cap (Closed \cup BeingClosed) = {}
      /\ Closed \cap BeingClosed = {}
      /\ \A r, q \in Requests :
           (/\ pc[r] \in {"credit", "audit_cancel"}
            /\ pc[q] \in {"credit", "audit_cancel"}
            /\ doc[r] = doc[q]) => r = q

(* No balance goes below zero unless a cancel of that user was hit by a    *)
(* fault: the only debit without a balance filter is the one that          *)
(* compensates a cancel.                                                   *)
NoOverdraft ==
    \A u \in Users :
      balance[u] < 0 =>
        \E r \in hit : doc[r] # None /\ doc[r].user = u /\ doc[r].id # r

(* With no fault and no cancellation pending, the docstring's equation     *)
(* becomes true and stays true: money in hand always lands somewhere.      *)
Conserved ==
    \A u \in Users : balance[u] + AmountOf(subscriptions, u) = InitialBalance

BooksEventuallyBalance == <>[]Conserved

(* The fault-free fallback behaves as the atomic ledger: seen with the     *)
(* money in hand counted as the user's and the rows about to be logged as  *)
(* logged, it opens and closes subscriptions in indivisible steps.         *)
AtomicLedger == INSTANCE Ledger WITH
    wallet   <- [u \in Users |-> balance[u] + AmountOf(InHand, u)],
    holdings <- subscriptions,
    journal  <- transactions
                  \cup {Row("OPEN", d) : d \in At({"audit"})}
                  \cup {Row("CANCEL", d) : d \in BeingClosed}

ImplementsLedger == AtomicLedger!LedgerSpec

(* Under every fault, no user ever holds two subscriptions to one fund,    *)
(* the reinsertions of compensated cancels included.                       *)
OneSubscriptionPerFund ==
    \A d, e \in subscriptions : (d.user = e.user /\ d.fund = e.fund) => d = e

(* Under every fault, a cancel answered with success is final: its         *)
(* subscription is never stored again, and no other cancel holds it or     *)
(* credits it.  Its creator and the earlier cancels of it have done        *)
(* moving its money, but for those a fault hit, whose compensation may     *)
(* still run: a subscribe that refunds it, and so pays it twice (see       *)
(* CompensationRestores), and a cancel that debits back its own credit.    *)
CancelIsFinal ==
    \A r \in Requests :
      (pc[r] = "ok" /\ doc[r].id # r) =>
        /\ doc[r] \notin subscriptions
        /\ \A q \in Requests \ {r} : doc[q] = doc[r] =>
             \/ pc[q] \in Answers \cup {"audit"}
             \/ q \in hit /\ pc[q] \in {"delete", "refund", "debit_back"}

(* Under every fault, a success answer is real: the audit row is there,    *)
(* and an opened subscription is stored unless some cancel took it.        *)
AcceptedIsReal ==
    \A r \in Requests : pc[r] = "ok" =>
      IF doc[r].id = r
      THEN /\ Row("OPEN", doc[r]) \in transactions
           /\ \/ doc[r] \in subscriptions
              \/ \E q \in Requests \ {r} : doc[q] = doc[r]
      ELSE Row("CANCEL", doc[r]) \in transactions

(* When nothing is in flight, the books of a user are wrong by no more     *)
(* than the amounts of the requests that faults hit; a user none of whose  *)
(* requests was hit has exact books.                                       *)
Quiescent == InFlight = {}

HitAmount(u) ==
    SumFunction([r \in {q \in hit : doc[q] # None /\ doc[q].user = u} |->
                   doc[r].amount])

DamageBounded ==
    Quiescent => \A u \in Users :
      LET error == balance[u] + AmountOf(subscriptions, u) - InitialBalance IN
      -HitAmount(u) <= error /\ error <= HitAmount(u)

(* The documented claims that the code does not keep.                      *)

(* Compensation is right unless a compensating call itself fails           *)
(* (docstrings of _compensate_subscribe and _compensate_cancel).  Checked  *)
(* where calls are refused but compensating calls never are.               *)
CompensationRestores == Quiescent => Conserved

(* The log is the source of truth, any divergence is reconcilable by       *)
(* replay (README).  The least that asks of the log: what it replays to    *)
(* when nothing is in flight is a state the platform accepts, no user with *)
(* two subscriptions to one fund or more invested than the initial         *)
(* balance.                                                                *)
Replayed == Opened \ Closed

ReplayReconciles ==
    Quiescent =>
      /\ \A u \in Users : AmountOf(Replayed, u) <= InitialBalance
      /\ \A d, e \in Replayed : (d.user = e.user /\ d.fund = e.fund) => d = e
=============================================================================
