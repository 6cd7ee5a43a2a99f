------------------------------- MODULE Ledger -------------------------------
(***************************************************************************)
(* What the subscriptions module promises its callers, with no database    *)
(* and no concurrency: a subscribe or a cancel that is accepted moves      *)
(* money, holding and audit row in one indivisible step, and anything else *)
(* changes nothing (subscription.py, class docstring and subscribe's       *)
(* docstring).  Both modes of the implementation are compared with it.     *)
(***************************************************************************)
EXTENDS SubscriptionData

VARIABLES
    wallet,     \* the money of each user that is not invested
    holdings,   \* the active subscriptions
    journal     \* the audit log, append-only

ledgerVars == <<wallet, holdings, journal>>

LedgerInit ==
    /\ wallet = [u \in Users |-> InitialBalance]
    /\ holdings = {}
    /\ journal = {}

(* An accepted subscribe: the money is there, the user does not hold the   *)
(* fund, the id is new, and the three effects happen together.             *)
Open(d) ==
    /\ wallet[d.user] >= d.amount
    /\ d.amount >= Minimum[d.fund]
    /\ \A e \in holdings : e.user = d.user => e.fund # d.fund
    /\ \A row \in journal : row.doc.id # d.id
    /\ wallet' = [wallet EXCEPT ![d.user] = @ - d.amount]
    /\ holdings' = holdings \cup {d}
    /\ journal' = journal \cup {Row("OPEN", d)}

(* An accepted cancel: exactly the amount invested comes back.             *)
Close(d) ==
    /\ d \in holdings
    /\ wallet' = [wallet EXCEPT ![d.user] = @ + d.amount]
    /\ holdings' = holdings \ {d}
    /\ journal' = journal \cup {Row("CANCEL", d)}

LedgerNext == \E d \in Documents : Open(d) \/ Close(d)

LedgerSpec == LedgerInit /\ [][LedgerNext]_ledgerVars
=============================================================================
