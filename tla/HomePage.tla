------------------------------- MODULE HomePage -------------------------------
(***************************************************************************)
(* The page where a user invests and cancels.  It loads the subscriptions, *)
(* their total and the balance once, and then keeps each of the three up   *)
(* to date from the replies to its own calls; calls overlap, fail after    *)
(* they took effect, outlive the page, and another device may act too.     *)
(* The API commits a subscription or a cancellation in one step here (its  *)
(* own steps are those of SubscriptionsTxn).                               *)
(***************************************************************************)
EXTENDS Naturals, FiniteSets, Functions

CONSTANTS
    Funds,
    Minimum,         \* monto_minimo of each fund
    Amounts,         \* the amounts the user may type
    InitialBalance,
    None,
    MaxCalls,        \* bound: calls that change something, from this page
    MaxIds           \* bound: subscriptions ever opened

ASSUME HomePageAssumption ==
    /\ IsFiniteSet(Funds) /\ Minimum \in [Funds -> Nat \ {0}]
    /\ Amounts \subseteq Nat
    /\ InitialBalance \in Nat /\ MaxCalls \in Nat /\ MaxIds \in Nat
    /\ None \notin Funds \cup Nat

(* What the API stores and answers, what a call asks for, and the GET.     *)
Subscriptions == [id : Nat, fund : Funds, amount : Nat]

Replies == [ok : BOOLEAN, subscription : Subscriptions \cup {None}, balance : Nat]

Asked == [kind : {"invest", "cancel"}, fund : Funds, amount : Amounts \cup {None},
          subscription : Subscriptions \cup {None}, here : BOOLEAN,
          reply : Replies \cup {None}]

Loads == [at : {"balance", "items", "total", "reply"}, balance : Nat,
          items : SUBSET Subscriptions, total : Nat]

ASSUME NoneAssumption ==
    None \notin Subscriptions /\ None \notin Replies /\ None \notin Asked
    /\ None \notin Loads

VARIABLES
    balance, open,   \* the API: users.balance, the user's subscriptions
    nextId,
    page,            \* is the page away, loading, ready, or failed to load?
    subscriptions, totalInvested, shownBalance,
    modal,           \* the fund the dialog is open for
    submitting,
    cancellingId,
    load,            \* the GET of the page that is loading
    sent,            \* how many calls were made
    call,            \* those under way
    torn,            \* history: this load's list and total are of two times
    crossed,         \* history: since this load, two calls were under way
                     \* together
    unsure           \* history: since this load, another device acted, a call
                     \* was given up, or one of a page left goes on

serverVars == <<balance, open, nextId>>
pageVars == <<page, subscriptions, totalInvested, shownBalance, modal,
              submitting, cancellingId>>
vars == <<serverVars, pageVars, load, sent, call, torn, crossed, unsure>>

Calls == 1..MaxCalls
Ids == 1..MaxIds
SumOf(subs) == SumFunction([s \in subs |-> s.amount])

UnderWay(k) == call[k] # None
Quiet == load = None /\ \A k \in Calls : ~UnderWay(k)

Get == [at |-> "balance", balance |-> 0, items |-> {}, total |-> 0]

(* The user comes with some funds, at their minimum, opened in some order. *)
Held == {s \in SUBSET {[id |-> i, fund |-> f, amount |-> Minimum[f]] :
                           i \in 1..Cardinality(Funds), f \in Funds} :
            /\ \A a, b \in s : a # b => a.id # b.id /\ a.fund # b.fund
            /\ \A a \in s : a.id <= Cardinality(s)}

Init ==
    /\ open \in Held /\ nextId = Cardinality(open) + 1
    /\ SumOf(open) <= InitialBalance /\ balance = InitialBalance - SumOf(open)
    /\ page = "loading" /\ load = Get
    /\ subscriptions = {} /\ totalInvested = 0 /\ shownBalance = balance
    /\ modal = None /\ submitting = FALSE /\ cancellingId = None
    /\ sent = 0 /\ call = [k \in Calls |-> None]
    /\ torn = FALSE /\ crossed = FALSE /\ unsure = FALSE

----------------------------------------------------------------------------
(* The API: subscribe and cancel, committed or refused.                    *)
Subscribable(f, amount) ==
    /\ \A s \in open : s.fund # f
    /\ Minimum[f] <= amount /\ amount <= balance

Opened(f, amount) == [id |-> nextId, fund |-> f, amount |-> amount]

Subscribe(f, amount) ==
    /\ nextId \in Ids
    /\ nextId' = nextId + 1
    /\ balance' = balance - amount
    /\ open' = open \cup {Opened(f, amount)}

Cancel(s) ==
    /\ balance' = balance + s.amount
    /\ open' = open \ {s}
    /\ UNCHANGED nextId

Refused == [ok |-> FALSE, subscription |-> None, balance |-> 0]
Done(s) == [ok |-> TRUE, subscription |-> s, balance |-> balance']

Tears == load # None /\ load.at = "total"

Serve(k) ==
    /\ UnderWay(k) /\ call[k].reply = None
    /\ LET c == call[k]
           amount == IF c.amount = None THEN Minimum[c.fund] ELSE c.amount
       IN \/ /\ c.kind = "invest" /\ Subscribable(c.fund, amount)
             /\ Subscribe(c.fund, amount)
             /\ call' = [call EXCEPT ![k].reply = Done(Opened(c.fund, amount))]
             /\ torn' = (torn \/ Tears)
          \/ /\ c.kind = "cancel" /\ c.subscription \in open
             /\ Cancel(c.subscription)
             /\ call' = [call EXCEPT ![k].reply = Done(c.subscription)]
             /\ torn' = (torn \/ Tears)
          \/ /\ IF c.kind = "invest" THEN ~Subscribable(c.fund, amount)
                                     ELSE c.subscription \notin open
             /\ call' = [call EXCEPT ![k].reply = Refused]
             /\ UNCHANGED <<serverVars, torn>>
    /\ UNCHANGED <<pageVars, load, sent, crossed, unsure>>

(* Another device of the user's, or a call this page has given up.         *)
OtherDevice ==
    /\ \/ \E f \in Funds : \E amount \in Amounts \cup {Minimum[f]} :
              Subscribable(f, amount) /\ Subscribe(f, amount)
       \/ \E s \in open : Cancel(s)
    /\ torn' = (torn \/ Tears)
    /\ unsure' = TRUE
    /\ UNCHANGED <<pageVars, load, sent, call, crossed>>

(* list_my_subscriptions: the balance is the one the request was           *)
(* authenticated with; the list and its total are read after it.           *)
ReadBalance ==
    /\ load # None /\ load.at = "balance"
    /\ load' = [load EXCEPT !.at = "items", !.balance = balance]
    /\ UNCHANGED <<serverVars, pageVars, sent, call, torn, crossed, unsure>>

ReadItems ==
    /\ load # None /\ load.at = "items"
    /\ load' = [load EXCEPT !.at = "total", !.items = open]
    /\ UNCHANGED <<serverVars, pageVars, sent, call, torn, crossed, unsure>>

ReadTotal ==
    /\ load # None /\ load.at = "total"
    /\ load' = [load EXCEPT !.at = "reply", !.total = SumOf(open)]
    /\ UNCHANGED <<serverVars, pageVars, sent, call, torn, crossed, unsure>>

----------------------------------------------------------------------------
(* The effect that loads the page.                                         *)
Loaded ==
    /\ load # None /\ load.at = "reply"
    /\ page' = "ready" /\ load' = None
    /\ subscriptions' = load.items
    /\ totalInvested' = load.total
    /\ shownBalance' = load.balance
    /\ UNCHANGED <<serverVars, modal, submitting, cancellingId, sent, call,
                   torn, crossed, unsure>>

LoadFails ==
    /\ load # None
    /\ page' = "failed" /\ load' = None
    /\ UNCHANGED <<serverVars, subscriptions, totalInvested, shownBalance, modal,
                   submitting, cancellingId, sent, call, torn, crossed, unsure>>

(* The calls under way go on; of the page they knew nothing is left.       *)
Leave ==
    /\ page # "away"
    /\ page' = "away" /\ load' = None
    /\ subscriptions' = {} /\ totalInvested' = 0
    /\ modal' = None /\ submitting' = FALSE /\ cancellingId' = None
    /\ call' = [k \in Calls |->
           IF call[k] = None THEN None ELSE [call[k] EXCEPT !.here = FALSE]]
    /\ unsure' = (unsure \/ \E k \in Calls : UnderWay(k))
    /\ UNCHANGED <<serverVars, shownBalance, sent, torn, crossed>>

(* A new load starts from what the API has; what happened before it counts *)
(* only as far as it still goes on.                                        *)
Return ==
    /\ page = "away"
    /\ page' = "loading" /\ load' = Get
    /\ torn' = FALSE /\ crossed' = FALSE
    /\ unsure' = (\E k \in Calls : UnderWay(k))
    /\ UNCHANGED <<serverVars, subscriptions, totalInvested, shownBalance, modal,
                   submitting, cancellingId, sent, call>>

----------------------------------------------------------------------------
Subscribed == {s.fund : s \in subscriptions}

(* A fund's card offers the dialog unless the user has the fund already or *)
(* too little money for it, as far as the page knows.                      *)
OpenInvest(f) ==
    /\ page = "ready" /\ modal = None
    /\ f \notin Subscribed /\ Minimum[f] <= shownBalance
    /\ modal' = f
    /\ UNCHANGED <<serverVars, page, subscriptions, totalInvested, shownBalance,
                   submitting, cancellingId, load, sent, call, torn, crossed, unsure>>

CloseInvest ==
    /\ modal # None /\ ~submitting
    /\ modal' = None
    /\ UNCHANGED <<serverVars, page, subscriptions, totalInvested, shownBalance,
                   submitting, cancellingId, load, sent, call, torn, crossed, unsure>>

Ask(c) ==
    /\ sent + 1 \in Calls
    /\ sent' = sent + 1
    /\ call' = [call EXCEPT ![sent + 1] = c]
    /\ crossed' = (crossed \/ \E k \in Calls : UnderWay(k))

(* validate: an empty field stands for the minimum, and is not compared    *)
(* with the balance.                                                       *)
Valid(amount) ==
    amount # None => Minimum[modal] <= amount /\ amount <= shownBalance

Submit(amount) ==
    /\ modal # None /\ ~submitting
    /\ Valid(amount)
    /\ submitting' = TRUE
    /\ Ask([kind |-> "invest", fund |-> modal, amount |-> amount,
            subscription |-> None, here |-> TRUE, reply |-> None])
    /\ UNCHANGED <<serverVars, page, subscriptions, totalInvested, shownBalance,
                   modal, cancellingId, load, torn, unsure>>

(* The card's second click; the page remembers one card that is cancelling.*)
HandleCancel(s) ==
    /\ page = "ready" /\ modal = None
    /\ s \in subscriptions /\ cancellingId # s.id
    /\ cancellingId' = s.id
    /\ Ask([kind |-> "cancel", fund |-> s.fund, amount |-> None,
            subscription |-> s, here |-> TRUE, reply |-> None])
    /\ UNCHANGED <<serverVars, page, subscriptions, totalInvested, shownBalance,
                   modal, submitting, load, torn, unsure>>

----------------------------------------------------------------------------
BugTypedAmount(c) ==
    /\ subscriptions' = subscriptions \cup {c.reply.subscription}
    /\ totalInvested' = totalInvested + (IF c.amount = None THEN 0 ELSE c.amount)
    /\ modal' = None /\ submitting' = FALSE
    /\ UNCHANGED <<page, cancellingId>>

InvestSuccess(c) ==
    /\ subscriptions' = subscriptions \cup {c.reply.subscription}
    /\ totalInvested' = totalInvested + c.reply.subscription.amount
    /\ modal' = None /\ submitting' = FALSE
    /\ UNCHANGED <<page, cancellingId>>

BugCardStays(c) ==
    /\ totalInvested' = IF c.subscription.amount <= totalInvested
                        THEN totalInvested - c.subscription.amount ELSE 0
    /\ cancellingId' = None
    /\ UNCHANGED <<page, subscriptions, modal, submitting>>

CancelSuccess(c) ==
    /\ subscriptions' = {s \in subscriptions : s.id # c.subscription.id}
    /\ totalInvested' = IF c.subscription.amount <= totalInvested
                        THEN totalInvested - c.subscription.amount ELSE 0
    /\ cancellingId' = None
    /\ UNCHANGED <<page, modal, submitting>>

(* An error is shown; the dialog stays open.                               *)
ActionError(c) ==
    /\ IF c.kind = "invest"
       THEN submitting' = FALSE /\ UNCHANGED cancellingId
       ELSE cancellingId' = None /\ UNCHANGED submitting
    /\ UNCHANGED <<page, subscriptions, totalInvested, modal>>

PageUnchanged ==
    UNCHANGED <<page, subscriptions, totalInvested, modal, submitting, cancellingId>>

(* updateBalance belongs to the context: it works though the page is left. *)
Reply(k) ==
    /\ UnderWay(k) /\ call[k].reply # None
    /\ call' = [call EXCEPT ![k] = None]
    /\ IF call[k].reply.ok
       THEN shownBalance' = call[k].reply.balance
       ELSE UNCHANGED shownBalance
    /\ IF ~call[k].here THEN PageUnchanged
       ELSE IF ~call[k].reply.ok THEN ActionError(call[k])
       ELSE IF call[k].kind = "invest" THEN InvestSuccess(call[k])
       ELSE CancelSuccess(call[k])
    /\ UNCHANGED <<serverVars, load, sent, torn, crossed, unsure>>

(* The call fails, or its time-out runs out before its reply; it may have  *)
(* been committed all the same, or be committed yet (OtherDevice).         *)
Fail(k) ==
    /\ UnderWay(k)
    /\ call' = [call EXCEPT ![k] = None]
    /\ IF call[k].here THEN ActionError(call[k]) ELSE PageUnchanged
    /\ unsure' = (unsure \/ (call[k].reply # None /\ call[k].reply.ok))
    /\ UNCHANGED <<serverVars, shownBalance, load, sent, torn, crossed>>

Next ==
    \/ OtherDevice
    \/ ReadBalance \/ ReadItems \/ ReadTotal \/ Loaded \/ LoadFails
    \/ Leave \/ Return \/ CloseInvest
    \/ \E f \in Funds : OpenInvest(f)
    \/ \E amount \in Amounts \cup {None} : Submit(amount)
    \/ \E s \in subscriptions : HandleCancel(s)
    \/ \E k \in Calls : Serve(k) \/ Reply(k) \/ Fail(k)

Spec == Init /\ [][Next]_vars

----------------------------------------------------------------------------
(* The total shown is that of the cards shown: it is kept apart from the   *)
(* list, one addition or subtraction for each card that comes or goes,     *)
(* through calls that overlap, fail after they took effect, or answer when *)
(* the page is gone.  One case is excepted: the API reads the list and its *)
(* total one after the other, and a commit in between, of another device   *)
(* or of a call whose page was left, gives a list and a total of two       *)
(* times, until the page is loaded again.                                  *)
ShownTotalIsSum ==
    ~torn => totalInvested = SumOf(subscriptions)

(* With nothing under way a page that loaded shows the subscriptions the   *)
(* API has, though its own calls overlapped and some were refused; and the *)
(* balance too if they did not overlap.  Only what the page could not see  *)
(* is excepted, and only until it is loaded again: since the load began,   *)
(* another device, a call given up, or one of a page left too early.       *)
ShownIsServer ==
    page = "ready" /\ Quiet /\ ~unsure =>
        /\ subscriptions = open
        /\ crossed \/ shownBalance = balance
===============================================================================
