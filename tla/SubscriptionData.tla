-------------------------- MODULE SubscriptionData --------------------------
(***************************************************************************)
(* What the specifications of the subscriptions module share: constants,   *)
(* the shape of a subscription document and of an audit row, and the       *)
(* checks subscribe makes on the amount before it touches the database.    *)
(***************************************************************************)
EXTENDS Integers, FiniteSets, Functions

CONSTANTS
    Users,           \* the registered users
    Funds,           \* the funds of the catalogue
    Requests,        \* HTTP requests that subscribe or cancel, each served once
    Amounts,         \* the amounts an investment may have
    Minimum,         \* monto_minimo of each fund
    InitialBalance,  \* what registration credits to every user
    None             \* no document, or no amount in the request's payload

ASSUME DataAssumption ==
    /\ Amounts \subseteq Nat \ {0}
    /\ Minimum \in [Funds -> Amounts]
    /\ InitialBalance \in Nat
    /\ IsFiniteSet(Requests)

(* A document of the subscriptions collection.  Its _id is allocated by    *)
(* the request that creates it, so a request stands for the id it mints.   *)
Documents == [id : Requests, user : Users, fund : Funds, amount : Amounts]

ASSUME NoneAssumption == None \notin Documents /\ None \notin Amounts

(* A plausible defect of the definition after it, used by mutation checks. *)
BugRowOfId(type, d) == [type |-> type, doc |-> d.id]

(* An audit row.  balance_before and balance_after are left out: they      *)
(* follow from the order of the balance updates and nothing reads them.    *)
Row(type, d) == [type |-> type, doc |-> d]

Rows == [type : {"OPEN", "CANCEL"}, doc : Documents]

EffectiveAmount(f, payload) == IF payload = None THEN Minimum[f] ELSE payload

(* The checks of the amount: positive, and at least the fund's minimum.    *)
Acceptable(f, a) == a > 0 /\ a >= Minimum[f]

Subscription(r, u, f, a) == [id |-> r, user |-> u, fund |-> f, amount |-> a]

(* The money of user u in a set of documents.                              *)
AmountOf(S, u) == SumFunction([d \in {e \in S : e.user = u} |-> d.amount])
=============================================================================
