-------------------------- MODULE SubscriptionsMixed --------------------------
(***************************************************************************)
(* Both modes on the same collections: the cluster has transactions, but   *)
(* the probe of atomic_session() failed once in a worker, which caches     *)
(* False and compensates by hand for the rest of its life.  Two requests   *)
(* that probe at the same time may get different answers as well, so each  *)
(* request has a mode of its own.                                          *)
(*                                                                         *)
(* MongoDB's part is external: a write outside transactions that meets one *)
(* of an open transaction waits inside the server until that has ended;    *)
(* a transaction whose snapshot is older than the write will meet it.      *)
(***************************************************************************)
EXTENDS SubscriptionsTxn

CONSTANTS FaultKinds, MaxHit    \* the faults of the requests with no session

ASSUME MixedAssumption ==
    /\ FaultKinds \subseteq {"refused", "lost", "undo", "crash"} /\ MaxHit \in Nat
    /\ None \notin Requests

VARIABLES
    unsupported,           \* the requests that atomic_session() gives None
    barePc, bareDoc, hit   \* their calls, their documents, their faults

Bare == INSTANCE SubscriptionsFallback WITH pc <- barePc, doc <- bareDoc

bareVars == <<barePc, bareDoc, hit>>
mixedVars == <<vars, bareVars, unsupported>>

MixedInit ==
    /\ Init /\ Bare!Init
    /\ unsupported \in SUBSET Requests

----------------------------------------------------------------------------
(* What a bare write of this step meets.  No request is named None, so     *)
(* every open transaction counts.                                          *)
Repaid == {u \in Users : balance'[u] # balance[u]}

Moved == (subscriptions' \ subscriptions) \cup (subscriptions \ subscriptions')

BareWrite ==
    /\ \A u \in Repaid : ~UserLocked(u, None)
    /\ \A d \in Moved : ~KeyLocked(d, None)
    /\ stale' = stale \cup UNION {Outdated(u) : u \in Repaid}
    /\ UNCHANGED <<pc, doc, snap, abandoned, faults, unsupported>>

WithSession(r) == r \notin unsupported /\ UNCHANGED <<bareVars, unsupported>>

ContinueTxn(r) == WithSession(r) /\ Continue(r)

ExpireTxn(r) == WithSession(r) /\ Expire(r)

ContinueBare(r) == r \in unsupported /\ Bare!Continue(r) /\ BareWrite

(* A request arrives, or its call raises.                                  *)
OtherTxn(r) ==
    WithSession(r) /\ (Lookup(r) \/ Take(r) \/ NotFound(r) \/ Refused(r))

OtherBare(r) ==
    /\ r \in unsupported
    /\ Bare!Lookup(r) \/ Bare!Take(r) \/ Bare!NotFound(r) \/ Bare!Refused(r)
    /\ BareWrite

(* The workers of either mode die, or an administrator deactivates a fund. *)
Around ==
    \/ Crash /\ UNCHANGED <<bareVars, unsupported>>
    \/ Bare!Crash /\ BareWrite
    \/ \E f \in Funds : SoftDelete(f) /\ UNCHANGED <<bareVars, unsupported>>

MixedNext ==
    \/ \E r \in Requests :
         \/ ContinueTxn(r) \/ ExpireTxn(r) \/ OtherTxn(r)
         \/ ContinueBare(r) \/ OtherBare(r)
    \/ Around

MixedSpec == MixedInit /\ [][MixedNext]_mixedVars

(* As in each mode; a write that waits gets its turn, as transactions end. *)
MixedFairSpec ==
    /\ MixedSpec
    /\ \A r \in Requests : /\ WF_mixedVars(ContinueTxn(r)) /\ WF_mixedVars(ExpireTxn(r))
                           /\ WF_mixedVars(ContinueBare(r))

----------------------------------------------------------------------------
(* Properties, beside NoLostUpdate: no transaction commits a balance        *)
(* computed from one that a bare write has changed since.                  *)

(* Until a fault hits a request without a session, and whatever befalls    *)
(* those with one, the two modes together are still the atomic ledger,     *)
(* seen with the money in the hands of a bare request counted as the       *)
(* user's and the rows it is about to log as logged: a commit is one step  *)
(* of the ledger, and so is a bare insert or delete.                       *)
MixedLedger == INSTANCE Ledger WITH
    wallet   <- [u \in Users |-> balance[u] + AmountOf(Bare!InHand, u)],
    holdings <- subscriptions,
    journal  <- transactions
                  \cup {Row("OPEN", d) : d \in Bare!At({"audit"})}
                  \cup {Row("CANCEL", d) : d \in Bare!BeingClosed}

MixedImplementsLedger ==
    /\ MixedLedger!LedgerInit
    /\ [][hit' = {} => MixedLedger!LedgerNext]_(MixedLedger!ledgerVars)

(* Under every fault of either mode, a cancel answered with success is     *)
(* final: nobody, in either mode, stores its subscription again, and no    *)
(* request of either mode is still at work on it, but for a bare one that  *)
(* a fault hit and whose compensation is under way: the subscribe that     *)
(* created it, whose refund pays it a second time, or a cancel that debits *)
(* back its own credit.                                                    *)
Cancelled ==
    {doc[r] : r \in {q \in Requests : pc[q] = "ok" /\ doc[q].id # q}}
      \cup {bareDoc[r] : r \in {q \in Requests : barePc[q] = "ok" /\ bareDoc[q].id # q}}

MixedCancelIsFinal ==
    /\ Cancelled \cap subscriptions = {}
    /\ \A r \in Requests :
         /\ doc[r] \in Cancelled => pc[r] \in Answers
         /\ bareDoc[r] \in Cancelled =>
              \/ barePc[r] \in Bare!Answers \cup {"audit"}
              \/ r \in hit /\ barePc[r] \in {"delete", "refund", "debit_back"}

(* When no request without a session is in flight, the books of a user are *)
(* wrong by no more than the amounts of those requests that faults hit:    *)
(* what transactions commit in between, on books that are wrong, adds      *)
(* nothing to it.                                                          *)
MixedDamageBounded == Bare!DamageBounded

(* A request that has begun, in either mode, is answered, and no document  *)
(* stays locked: a bare write that waits for a transaction outlasts it.    *)
MixedRequestsEnd ==
    <>[](/\ InTxn = {}
         /\ \A r \in Requests : barePc[r] \notin Bare!Subscribing \cup Bare!Cancelling)
===============================================================================
