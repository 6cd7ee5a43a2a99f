---------------------------- MODULE HomePageProofs ----------------------------
(***************************************************************************)
(* Theorems about the home page, for any funds and amounts, any number of  *)
(* calls and of subscriptions.                                             *)
(***************************************************************************)
EXTENDS HomePage, SumTheorems, TLAPS

Unique(subs) == \A a, b \in subs : a.id = b.id => a = b

Listed(subs) == subs \subseteq Subscriptions /\ IsFiniteSet(subs) /\ Unique(subs)

TypeOK ==
    /\ balance \in Nat /\ nextId \in Nat /\ Listed(open)
    /\ page \in {"away", "loading", "ready", "failed"}
    /\ Listed(subscriptions) /\ totalInvested \in Nat /\ shownBalance \in Nat
    /\ modal \in Funds \cup {None}
    /\ load \in Loads \cup {None} /\ (load # None => Listed(load.items))
    /\ sent \in Nat
    /\ call \in [Calls -> Asked \cup {None}]

(* The calls with an answer that says yes, and what each of them opened or *)
(* cancelled.                                                              *)
Accepted(k, kind) ==
    UnderWay(k) /\ call[k].kind = kind /\ call[k].reply # None /\ call[k].reply.ok

Won(k) == Accepted(k, "invest")
Lost(k) == Accepted(k, "cancel")

(* Ids grow: whatever the page or a call knows of was opened before.       *)
Old(s) == s.id < nextId

IdsInv ==
    /\ \A s \in open \cup subscriptions : Old(s)
    /\ load # None => \A s \in load.items : Old(s)
    /\ \A k \in Calls : UnderWay(k) =>
         /\ call[k].kind = "cancel" =>
              call[k].subscription \in Subscriptions /\ Old(call[k].subscription)
         /\ Won(k) => /\ call[k].reply.subscription \in Subscriptions
                      /\ Old(call[k].reply.subscription)

(* Cards, dialog and callbacks exist only while the page is ready.         *)
PageInv ==
    /\ \A k \in Calls : UnderWay(k) => k <= sent
    /\ load # None => page = "loading"
    /\ page # "ready" => /\ subscriptions = {} /\ totalInvested = 0 /\ modal = None
                         /\ \A k \in Calls : UnderWay(k) => ~call[k].here

Here(k) == UnderWay(k) /\ call[k].here

(* A yes the page has yet to hear of is news to it, and said only once.    *)
HereInv ==
    /\ \A k \in Calls : Here(k) /\ Won(k) =>
         \A s \in subscriptions : s.id # call[k].reply.subscription.id
    /\ \A k, q \in Calls : Here(k) /\ Won(k) /\ Here(q) /\ Won(q) /\ k # q =>
         call[k].reply.subscription.id # call[q].reply.subscription.id
    /\ \A k \in Calls : Here(k) /\ Lost(k) =>
         call[k].subscription \in subscriptions /\ call[k].subscription \notin open
    /\ \A k, q \in Calls : Here(k) /\ Lost(k) /\ Here(q) /\ Lost(q) /\ k # q =>
         call[k].subscription # call[q].subscription
    /\ \A k \in Calls : Here(k) /\ call[k].kind = "cancel" /\ call[k].reply = None =>
         call[k].subscription \in subscriptions \/ call[k].subscription \notin open

(* A list and its total are of one time unless the API changed in between. *)
TotalInv ==
    ~torn =>
      /\ totalInvested = SumOf(subscriptions)
      /\ load # None /\ load.at = "total" => load.items = open
      /\ load # None /\ load.at = "reply" => load.total = SumOf(load.items)

(* What the API has is what the page shows and what it will hear of.       *)
WonBy == {call[k].reply.subscription : k \in {q \in Calls : Won(q)}}
LostBy == {call[k].subscription : k \in {q \in Calls : Lost(q)}}

ServerInv ==
    ~unsure =>
      /\ \A k \in Calls : UnderWay(k) => call[k].here
      /\ load # None /\ load.at \in {"total", "reply"} => load.items = open
      /\ page = "ready" => open = (subscriptions \cup WonBy) \ LostBy

BalanceInv ==
    ~unsure /\ ~crossed =>
      /\ \A k, q \in Calls : UnderWay(k) /\ UnderWay(q) => k = q
      /\ load # None /\ load.at # "balance" => load.balance = balance
      /\ page = "ready" =>
           /\ \A k \in Calls : (Won(k) \/ Lost(k)) => call[k].reply.balance = balance
           /\ (\A k \in Calls : ~Won(k) /\ ~Lost(k)) => shownBalance = balance

IInv == TypeOK /\ IdsInv /\ PageInv /\ HereInv /\ TotalInv /\ ServerInv /\ BalanceInv

----------------------------------------------------------------------------
(* Facts about lists and calls.                                            *)

LEMMA ListedRemove ==
    ASSUME NEW S, Listed(S), NEW T, T \subseteq S
    PROVE  Listed(T)
BY FS_Subset DEF Listed, Unique

LEMMA ListedAdd ==
    ASSUME NEW S, Listed(S), NEW s \in Subscriptions, \A a \in S : a.id # s.id
    PROVE  Listed(S \cup {s}) /\ s \notin S
BY FS_AddElement DEF Listed, Unique

LEMMA AskedFields ==
    ASSUME TypeOK, NEW k \in Calls, UnderWay(k)
    PROVE  /\ call[k] \in Asked
           /\ call[k].kind \in {"invest", "cancel"} /\ call[k].here \in BOOLEAN
           /\ call[k].fund \in Funds /\ call[k].amount \in Amounts \cup {None}
           /\ call[k].subscription \in Subscriptions \cup {None}
           /\ call[k].reply \in Replies \cup {None}
           /\ call[k].reply # None => /\ call[k].reply.ok \in BOOLEAN
                                      /\ call[k].reply.balance \in Nat
<1>1. call[k] \in Asked
  BY DEF TypeOK, UnderWay
<1>2. call[k].reply \in Replies \cup {None}
  BY <1>1 DEF Asked
<1> QED BY <1>1, <1>2 DEF Asked, Replies

LEMMA LoadFields ==
    ASSUME TypeOK, load # None
    PROVE  /\ load \in Loads /\ load.at \in {"balance", "items", "total", "reply"}
           /\ load.balance \in Nat /\ load.total \in Nat /\ Listed(load.items)
BY DEF TypeOK, Loads

(* A call that a step leaves alone.                                        *)
LEMMA SameCall ==
    ASSUME NEW k, call'[k] = call[k]
    PROVE  /\ UnderWay(k)' = UnderWay(k) /\ Here(k)' = Here(k)
           /\ Won(k)' = Won(k) /\ Lost(k)' = Lost(k)
BY DEF UnderWay, Here, Won, Lost, Accepted

LEMMA WonMembers ==
    /\ \A s : s \in WonBy <=> \E k \in Calls : Won(k) /\ call[k].reply.subscription = s
    /\ \A s : s \in WonBy' <=>
                \E k \in Calls : Won(k)' /\ call'[k].reply.subscription = s
BY DEF WonBy

LEMMA LostMembers ==
    /\ \A s : s \in LostBy <=> \E k \in Calls : Lost(k) /\ call[k].subscription = s
    /\ \A s : s \in LostBy' <=> \E k \in Calls : Lost(k)' /\ call'[k].subscription = s
BY DEF LostBy

LEMMA SumType ==
    ASSUME NEW S, Listed(S)
    PROVE  SumOf(S) = Total(S) /\ SumOf(S) \in Nat
<1>1. SumOf(S) = Total(S)
  BY Zenon DEF SumOf, Total
<1>2. \A s \in S : s.amount \in Nat /\ s.amount \in Int
  BY DEF Listed, Subscriptions
<1>3. Total(S) \in Int
  BY <1>2, TotalInt DEF Listed
<1>4. Total(S) >= 0
  <2>1. CASE S = {}
    BY <2>1, TotalEmpty
  <2>2. ASSUME NEW s \in S PROVE Total(S) >= 0
    BY <1>2, <1>3, TotalMember DEF Listed
  <2> QED BY <2>1, <2>2
<1> QED BY <1>1, <1>3, <1>4

----------------------------------------------------------------------------
LEMMA InitListed ==
    ASSUME NEW S \in Held
    PROVE  /\ Listed(S) /\ Cardinality(S) \in Nat
           /\ \A s \in S : s.id < Cardinality(S) + 1
<1> DEFINE all == {[id |-> i, fund |-> f, amount |-> Minimum[f]] :
                     i \in 1..Cardinality(Funds), f \in Funds}
<1>1. /\ S \subseteq all
      /\ \A a, b \in S : a # b => a.id # b.id /\ a.fund # b.fund
      /\ \A a \in S : a.id <= Cardinality(S)
  BY DEF Held
<1>2. all \subseteq Subscriptions
  <2>1. \A f \in Funds : Minimum[f] \in Nat
    BY HomePageAssumption
  <2>2. Cardinality(Funds) \in Nat
    BY HomePageAssumption, FS_CardinalityType
  <2>3. \A i \in 1..Cardinality(Funds) : i \in Nat
    BY <2>2
  <2> QED BY <2>1, <2>3 DEF Subscriptions
<1> HIDE DEF all
<1>3. IsFiniteSet(S)
  <2> DEFINE g == [s \in S |-> s.fund]
  <2>1. g \in Injection(S, Funds)
    BY <1>1, <1>2 DEF Injection, IsInjective, Subscriptions
  <2> QED BY <2>1, FS_Injection, HomePageAssumption
<1>4. Cardinality(S) \in Nat
  BY <1>3, FS_CardinalityType
<1>5. \A s \in S : s.id \in Nat
  BY <1>1, <1>2 DEF Subscriptions
<1> QED BY <1>1, <1>2, <1>3, <1>4, <1>5 DEF Listed, Unique

LEMMA InitIInv == Init => IInv
<1> SUFFICES ASSUME Init PROVE IInv
  OBVIOUS
<1> USE NoneAssumption DEF Init
<1>1. /\ Listed(open) /\ Cardinality(open) \in Nat
      /\ \A s \in open : s.id < Cardinality(open) + 1
  BY InitListed
<1>2. Listed({}) /\ SumOf({}) = 0
  BY FS_EmptySet, SumType, TotalEmpty DEF Listed, Unique
<1>3. SumOf(open) \in Nat /\ balance \in Nat
  BY <1>1, SumType, HomePageAssumption
<1>4. load \in Loads /\ load # None /\ load.at = "balance" /\ load.items = {}
  BY DEF Loads, Get
<1>5. \A k \in Calls : ~UnderWay(k) /\ ~Here(k)
  BY DEF UnderWay, Here
<1>6. TypeOK
  BY <1>1, <1>2, <1>3, <1>4 DEF TypeOK
<1>7. IdsInv /\ PageInv /\ HereInv
  BY <1>1, <1>4, <1>5 DEF IdsInv, PageInv, HereInv, Old
<1>8. TotalInv
  BY <1>2, <1>4 DEF TotalInv
<1>9. ServerInv /\ BalanceInv
  BY <1>4, <1>5 DEF ServerInv, BalanceInv
<1> QED BY <1>6, <1>7, <1>8, <1>9 DEF IInv

----------------------------------------------------------------------------
(* Steps that touch no call: the dialog, the page's GET, leaving in peace. *)
CallsAlone == UNCHANGED <<serverVars, sent, call, crossed, unsure>>

LEMMA SameNews ==
    ASSUME UNCHANGED call
    PROVE  /\ \A k \in Calls : /\ UnderWay(k)' = UnderWay(k) /\ Here(k)' = Here(k)
                               /\ Won(k)' = Won(k) /\ Lost(k)' = Lost(k)
           /\ WonBy' = WonBy /\ LostBy' = LostBy
<1>1. \A k \in Calls : /\ UnderWay(k)' = UnderWay(k) /\ Here(k)' = Here(k)
                       /\ Won(k)' = Won(k) /\ Lost(k)' = Lost(k)
  BY SameCall
<1>2. WonBy' = WonBy /\ LostBy' = LostBy
  BY DEF WonBy, LostBy, Won, Lost, Accepted, UnderWay
<1> QED BY <1>1, <1>2

LEMMA DialogStep ==
    ASSUME IInv, CallsAlone, modal' \in Funds \cup {None},
           UNCHANGED <<page, subscriptions, totalInvested, shownBalance, load, torn>>,
           modal' = None \/ page = "ready"
    PROVE  IInv'
<1> USE DEF CallsAlone, serverVars
<1>1. TypeOK'
  BY DEF IInv, TypeOK
<1>2. IdsInv' /\ PageInv' /\ HereInv'
  BY SameNews DEF IInv, IdsInv, PageInv, HereInv, Old
<1>3. TotalInv'
  BY DEF IInv, TotalInv
<1>4. ServerInv' /\ BalanceInv'
  BY SameNews DEF IInv, ServerInv, BalanceInv
<1> QED BY <1>1, <1>2, <1>3, <1>4 DEF IInv

LEMMA OpenInvestStep ==
    ASSUME IInv, (\E f \in Funds : OpenInvest(f)) \/ CloseInvest
    PROVE  IInv'
BY DialogStep DEF OpenInvest, CloseInvest, CallsAlone

(* The three reads of the GET.                                             *)
LEMMA ReadStep ==
    ASSUME IInv, ReadBalance \/ ReadItems \/ ReadTotal
    PROVE  IInv'
<1>1. load # None /\ CallsAlone
      /\ UNCHANGED <<page, subscriptions, totalInvested, shownBalance, modal, torn>>
  BY DEF ReadBalance, ReadItems, ReadTotal, pageVars, CallsAlone
<1> USE DEF CallsAlone, serverVars
<1>2. /\ load \in Loads /\ load.balance \in Nat /\ load.total \in Nat
      /\ Listed(load.items) /\ Listed(open) /\ SumOf(open) \in Nat /\ balance \in Nat
      /\ open \subseteq Subscriptions
  BY <1>1, LoadFields, SumType DEF IInv, TypeOK, Listed
<1>3. /\ load' \in Loads /\ load' # None
      /\ \/ /\ load'.at = "items" /\ load'.items = load.items /\ load'.balance = balance
         \/ /\ load.at = "items" /\ load'.at = "total" /\ load'.items = open
            /\ load'.balance = load.balance
         \/ /\ load.at = "total" /\ load'.at = "reply" /\ load'.items = load.items
            /\ load'.total = SumOf(open) /\ load'.balance = load.balance
  <2>1. CASE ReadBalance
    <3>1. load' = [load EXCEPT !.at = "items", !.balance = balance]
      BY <2>1 DEF ReadBalance
    <3> QED BY <1>2, <3>1, NoneAssumption DEF Loads
  <2>2. CASE ReadItems
    <3>1. load.at = "items" /\ load' = [load EXCEPT !.at = "total", !.items = open]
      BY <2>2 DEF ReadItems
    <3> QED BY <1>2, <3>1, NoneAssumption DEF Loads
  <2>3. CASE ReadTotal
    <3>1. load.at = "total" /\ load' = [load EXCEPT !.at = "reply", !.total = SumOf(open)]
      BY <2>3 DEF ReadTotal
    <3> QED BY <1>2, <3>1, NoneAssumption DEF Loads
  <2> QED BY <2>1, <2>2, <2>3
<1>4. TypeOK'
  BY <1>1, <1>2, <1>3 DEF IInv, TypeOK
<1>5. IdsInv' /\ PageInv' /\ HereInv'
  BY <1>1, <1>3, SameNews DEF IInv, IdsInv, PageInv, HereInv, Old
<1>6. TotalInv'
  <2>1. load.at = "total" /\ ~torn => load.items = open
    BY <1>1 DEF IInv, TotalInv
  <2> QED BY <1>1, <1>3, <2>1 DEF IInv, TotalInv
<1>7. page # "ready"
  BY <1>1 DEF IInv, PageInv
<1>8. ServerInv'
  BY <1>1, <1>3, <1>7, SameNews DEF IInv, ServerInv
<1>9. BalanceInv'
  BY <1>1, <1>3, <1>7, SameNews DEF IInv, BalanceInv
<1> QED BY <1>4, <1>5, <1>6, <1>8, <1>9 DEF IInv

(* While a page loads none of its calls is under way.                      *)
LEMMA NoNews ==
    ASSUME IInv, page # "ready", ~unsure
    PROVE  /\ \A k \in Calls : ~UnderWay(k) /\ ~Won(k) /\ ~Lost(k)
           /\ WonBy = {} /\ LostBy = {}
<1>1. \A k \in Calls : ~UnderWay(k)
  BY DEF IInv, PageInv, ServerInv
<1> QED BY <1>1 DEF Won, Lost, Accepted, WonBy, LostBy

LEMMA LoadedStep ==
    ASSUME IInv, Loaded
    PROVE  IInv'
<1>1. /\ load # None /\ load.at = "reply" /\ load' = None /\ page' = "ready"
      /\ subscriptions' = load.items /\ totalInvested' = load.total
      /\ shownBalance' = load.balance
      /\ UNCHANGED <<balance, open, nextId, modal, sent, call, torn, crossed, unsure>>
  BY DEF Loaded, serverVars
<1>2. /\ load.balance \in Nat /\ load.total \in Nat /\ Listed(load.items)
      /\ page = "loading"
  BY <1>1, LoadFields DEF IInv, PageInv
<1>3. TypeOK'
  BY <1>1, <1>2 DEF IInv, TypeOK
<1>4. IdsInv' /\ PageInv'
  BY <1>1, SameNews DEF IInv, IdsInv, PageInv, Old
<1>5. HereInv'
  <2>1. \A k \in Calls : ~Here(k)'
    BY <1>1, <1>2, SameNews DEF IInv, PageInv, Here
  <2> QED BY <2>1 DEF HereInv
<1>6. TotalInv'
  BY <1>1 DEF IInv, TotalInv
<1>7. ServerInv'
  BY <1>1, <1>2, SameNews, NoNews DEF IInv, ServerInv
<1>8. BalanceInv'
  BY <1>1, <1>2, SameNews, NoNews DEF IInv, BalanceInv
<1> QED BY <1>3, <1>4, <1>5, <1>6, <1>7, <1>8 DEF IInv

LEMMA LoadFailsStep ==
    ASSUME IInv, LoadFails
    PROVE  IInv'
<1>1. /\ load # None /\ load' = None /\ page' = "failed"
      /\ UNCHANGED <<balance, open, nextId, subscriptions, totalInvested, shownBalance,
                     modal, sent, call, torn, crossed, unsure>>
  BY DEF LoadFails, serverVars
<1>2. page = "loading"
  BY <1>1 DEF IInv, PageInv
<1>3. TypeOK'
  BY <1>1 DEF IInv, TypeOK
<1>4. IdsInv' /\ PageInv' /\ HereInv'
  BY <1>1, <1>2, SameNews DEF IInv, IdsInv, PageInv, HereInv, Old
<1>5. TotalInv' /\ ServerInv' /\ BalanceInv'
  BY <1>1, SameNews DEF IInv, TotalInv, ServerInv, BalanceInv
<1> QED BY <1>3, <1>4, <1>5 DEF IInv

LEMMA ReturnStep ==
    ASSUME IInv, Return
    PROVE  IInv'
<1>1. /\ page = "away" /\ page' = "loading" /\ load' = Get /\ torn' = FALSE
      /\ unsure' = (\E k \in Calls : UnderWay(k))
      /\ UNCHANGED <<balance, open, nextId, subscriptions, totalInvested, shownBalance,
                     modal, sent, call>>
  BY DEF Return, serverVars
<1>2. /\ load' \in Loads /\ load' # None /\ load'.at = "balance" /\ load'.items = {}
  BY <1>1, NoneAssumption DEF Loads, Get
<1>3. Listed({}) /\ SumOf({}) = 0 /\ subscriptions = {} /\ totalInvested = 0
  BY <1>1, FS_EmptySet, SumType, TotalEmpty DEF Listed, Unique, IInv, PageInv
<1>4. TypeOK'
  BY <1>1, <1>2, <1>3 DEF IInv, TypeOK
<1>5. IdsInv' /\ PageInv' /\ HereInv'
  BY <1>1, <1>2, SameNews DEF IInv, IdsInv, PageInv, HereInv, Old
<1>6. TotalInv'
  BY <1>1, <1>2, <1>3 DEF TotalInv
<1>7. ServerInv' /\ BalanceInv'
  <2>1. ~unsure' => \A k \in Calls : ~UnderWay(k)'
    BY <1>1, SameNews
  <2> QED BY <1>1, <1>2, <2>1 DEF ServerInv, BalanceInv
<1> QED BY <1>4, <1>5, <1>6, <1>7 DEF IInv

(* Leaving: the calls under way are no longer the page's.                  *)
LEMMA LeaveStep ==
    ASSUME IInv, Leave
    PROVE  IInv'
<1>1. /\ page' = "away" /\ load' = None /\ subscriptions' = {} /\ totalInvested' = 0
      /\ modal' = None
      /\ call' = [k \in Calls |->
             IF call[k] = None THEN None ELSE [call[k] EXCEPT !.here = FALSE]]
      /\ unsure' = (unsure \/ \E k \in Calls : UnderWay(k))
      /\ UNCHANGED <<balance, open, nextId, shownBalance, sent, torn, crossed>>
  BY DEF Leave, serverVars
<1>2. ASSUME NEW k \in Calls
      PROVE  /\ call'[k] \in Asked \cup {None}
             /\ UnderWay(k)' = UnderWay(k) /\ ~Here(k)'
             /\ Won(k)' = Won(k) /\ Lost(k)' = Lost(k)
             /\ UnderWay(k) => /\ call'[k].kind = call[k].kind
                               /\ call'[k].subscription = call[k].subscription
                               /\ call'[k].reply = call[k].reply
                               /\ ~call'[k].here
  <2>1. CASE call[k] = None
    BY <1>1, <2>1 DEF UnderWay, Here, Won, Lost, Accepted
  <2>2. CASE call[k] # None
    <3>1. call[k] \in Asked /\ call'[k] = [call[k] EXCEPT !.here = FALSE]
      BY <1>1, <2>2 DEF IInv, TypeOK
    <3>2. /\ call'[k] \in Asked /\ call'[k] # None /\ ~call'[k].here
          /\ call'[k].kind = call[k].kind
          /\ call'[k].subscription = call[k].subscription
          /\ call'[k].reply = call[k].reply
      BY <3>1, NoneAssumption DEF Asked
    <3> QED BY <2>2, <3>2 DEF UnderWay, Here, Won, Lost, Accepted
  <2> QED BY <2>1, <2>2
<1>3. Listed({}) /\ SumOf({}) = 0
  BY FS_EmptySet, SumType, TotalEmpty DEF Listed, Unique
<1>4. TypeOK'
  <2>1. call' \in [Calls -> Asked \cup {None}]
    BY <1>1, <1>2
  <2> QED BY <1>1, <1>3, <2>1 DEF IInv, TypeOK
<1>5. IdsInv'
  BY <1>1, <1>2 DEF IInv, IdsInv, Old
<1>6. PageInv' /\ HereInv'
  BY <1>1, <1>2 DEF IInv, PageInv, HereInv
<1>7. TotalInv'
  BY <1>1, <1>3 DEF TotalInv
<1>8. ServerInv' /\ BalanceInv'
  BY <1>1, <1>2 DEF ServerInv, BalanceInv
<1> QED BY <1>4, <1>5, <1>6, <1>7, <1>8 DEF IInv

----------------------------------------------------------------------------
(* A new call, of the page that is ready.                                  *)
LEMMA AskStep ==
    ASSUME IInv, NEW c \in Asked, Ask(c), page = "ready", c.here, c.reply = None,
           c.kind = "cancel" => c.subscription \in subscriptions,
           UNCHANGED <<serverVars, page, subscriptions, totalInvested, shownBalance,
                       modal, load, torn, unsure>>
    PROVE  IInv'
<1>0. PICK n \in Calls : n = sent + 1
  BY DEF Ask
<1>1. /\ sent' = n /\ call' = [call EXCEPT ![n] = c]
      /\ crossed' = (crossed \/ \E k \in Calls : UnderWay(k))
      /\ UNCHANGED <<balance, open, nextId, page, subscriptions, totalInvested,
                     shownBalance, modal, load, torn, unsure>>
  BY <1>0 DEF Ask, serverVars
<1>2. sent \in Nat /\ n \in Nat /\ c # None
  BY <1>0, NoneAssumption DEF IInv, TypeOK
<1>3. /\ call'[n] = c /\ UnderWay(n)' /\ ~UnderWay(n)
      /\ ~Won(n)' /\ ~Lost(n)' /\ ~Won(n) /\ ~Lost(n)
      /\ \A k \in Calls \ {n} : call'[k] = call[k]
  <2>1. call'[n] = c /\ \A k \in Calls \ {n} : call'[k] = call[k]
    BY <1>1 DEF IInv, TypeOK
  <2>2. ~UnderWay(n)
    BY <1>0, <1>2 DEF IInv, PageInv
  <2> QED BY <1>2, <2>1, <2>2 DEF UnderWay, Won, Lost, Accepted
<1>4. \A k \in Calls \ {n} : /\ UnderWay(k)' = UnderWay(k) /\ Here(k)' = Here(k)
                             /\ Won(k)' = Won(k) /\ Lost(k)' = Lost(k)
  BY <1>3, SameCall
<1>5. \A k \in Calls : (Won(k)' <=> Won(k)) /\ (Lost(k)' <=> Lost(k))
  BY <1>3, <1>4
<1>6. WonBy' = WonBy /\ LostBy' = LostBy
  <2>1. \A s : s \in WonBy' <=> s \in WonBy
    BY <1>3, <1>5, WonMembers
  <2>2. \A s : s \in LostBy' <=> s \in LostBy
    BY <1>3, <1>5, LostMembers
  <2> QED BY <2>1, <2>2
<1>7. TypeOK'
  BY <1>1, <1>2 DEF IInv, TypeOK
<1>8. IdsInv'
  BY <1>1, <1>3, <1>4 DEF IInv, TypeOK, Listed, IdsInv, Old
<1>9. PageInv'
  <2>1. \A k \in Calls : UnderWay(k)' => k <= sent'
    <3>1. \A k \in Calls : k \in Nat
      BY DEF Calls
    <3> QED BY <1>0, <1>1, <1>2, <1>3, <1>4, <3>1 DEF IInv, PageInv
  <2> QED BY <1>1, <2>1 DEF IInv, PageInv
<1>10. HereInv'
  BY <1>1, <1>3, <1>4 DEF IInv, HereInv, Here
<1>11. TotalInv'
  BY <1>1 DEF IInv, TotalInv
<1>12. ServerInv'
  BY <1>1, <1>3, <1>4, <1>6 DEF IInv, ServerInv
<1>13. BalanceInv'
  <2>0. CASE unsure' \/ crossed'
    BY <2>0 DEF BalanceInv
  <2> SUFFICES ASSUME ~unsure', ~crossed' PROVE BalanceInv'
    BY <2>0
  <2>1. ~unsure /\ ~crossed /\ \A k \in Calls : ~UnderWay(k)
    <3>1. unsure' = unsure /\ crossed' = (crossed \/ \E k \in Calls : UnderWay(k))
      BY <1>1
    <3>2. ~unsure
      BY <3>1
    <3>3. ~(crossed \/ \E k \in Calls : UnderWay(k))
      BY <3>1
    <3> QED BY <3>2, <3>3, Zenon
  <2>2. \A k \in Calls : ~Won(k) /\ ~Lost(k) /\ ~Won(k)' /\ ~Lost(k)'
    BY <1>5, <2>1 DEF Won, Lost, Accepted
  <2>3. \A k, q \in Calls : UnderWay(k)' /\ UnderWay(q)' => k = q
    BY <1>4, <2>1
  <2>4. shownBalance = balance /\ load = None
    BY <2>1, <2>2 DEF IInv, BalanceInv, PageInv
  <2> QED BY <1>1, <2>2, <2>3, <2>4 DEF BalanceInv
<1> QED BY <1>7, <1>8, <1>9, <1>10, <1>11, <1>12, <1>13 DEF IInv

LEMMA SubmitStep ==
    ASSUME IInv, NEW amount \in Amounts \cup {None}, Submit(amount)
    PROVE  IInv'
<1>1. PICK c : c = [kind |-> "invest", fund |-> modal, amount |-> amount,
                    subscription |-> None, here |-> TRUE, reply |-> None]
  OBVIOUS
<1>2. modal # None /\ page = "ready" /\ modal \in Funds
  BY DEF Submit, IInv, PageInv, TypeOK
<1>3. c \in Asked /\ c.here /\ c.reply = None /\ c.kind = "invest"
  BY <1>1, <1>2 DEF Asked
<1>4. Ask(c) /\ UNCHANGED <<serverVars, page, subscriptions, totalInvested, shownBalance,
                            modal, load, torn, unsure>>
  BY <1>1 DEF Submit, Ask
<1> QED BY <1>2, <1>3, <1>4, AskStep

LEMMA HandleCancelStep ==
    ASSUME IInv, NEW s \in subscriptions, HandleCancel(s)
    PROVE  IInv'
<1>1. PICK c : c = [kind |-> "cancel", fund |-> s.fund, amount |-> None,
                    subscription |-> s, here |-> TRUE, reply |-> None]
  OBVIOUS
<1>2. page = "ready" /\ s \in Subscriptions /\ s.fund \in Funds
  BY DEF HandleCancel, IInv, TypeOK, Listed, Subscriptions
<1>3. c \in Asked /\ c.here /\ c.reply = None /\ c.subscription \in subscriptions
  BY <1>1, <1>2 DEF Asked
<1>4. Ask(c) /\ UNCHANGED <<serverVars, page, subscriptions, totalInvested, shownBalance,
                            modal, load, torn, unsure>>
  BY <1>1 DEF HandleCancel, Ask
<1> QED BY <1>2, <1>3, <1>4, AskStep

----------------------------------------------------------------------------
(* The API: what it opens has a new id, what it closes was open.           *)
Opens(s) ==
    /\ s \in Subscriptions /\ s.id = nextId
    /\ open' = open \cup {s} /\ nextId' = nextId + 1 /\ balance' \in Nat

Closes(s) ==
    s \in open /\ open' = open \ {s} /\ nextId' = nextId /\ balance' \in Nat

LEMMA SubscribeOpens ==
    ASSUME TypeOK, NEW f \in Funds, NEW amount \in Nat,
           Subscribable(f, amount), Subscribe(f, amount)
    PROVE  \E s \in Subscriptions : s = Opened(f, amount) /\ Opens(s)
<1>1. Opened(f, amount) \in Subscriptions /\ Opened(f, amount).id = nextId
  BY DEF Opened, Subscriptions, TypeOK
<1>2. balance - amount \in Nat
  BY DEF Subscribable, TypeOK
<1> QED BY <1>1, <1>2 DEF Subscribe, Opens

LEMMA CancelCloses ==
    ASSUME TypeOK, NEW s \in open, Cancel(s)
    PROVE  Closes(s)
<1>1. s.amount \in Nat
  BY DEF TypeOK, Listed, Subscriptions
<1>2. balance + s.amount \in Nat
  BY <1>1 DEF TypeOK
<1> QED BY <1>2 DEF Cancel, Closes

LEMMA ApiLists ==
    ASSUME IInv, NEW s, Opens(s) \/ Closes(s)
    PROVE  /\ Listed(open') /\ nextId' \in Nat /\ balance' \in Nat
           /\ nextId <= nextId'
           /\ \A a : a.id \in Nat /\ Old(a) => a.id < nextId'
           /\ \A a \in open' : a.id < nextId'
           /\ s \in Subscriptions /\ \A a \in open' : a \in open \/ (Opens(s) /\ a = s)
<1>1. Listed(open) /\ nextId \in Nat /\ \A a \in open : Old(a) /\ a.id \in Nat
  BY DEF IInv, TypeOK, IdsInv, Listed, Subscriptions
<1>2. CASE Opens(s)
  <2>1. \A a \in open : a.id # s.id
    BY <1>1, <1>2 DEF Opens, Old
  <2>2. Listed(open')
    BY <1>1, <1>2, <2>1, ListedAdd DEF Opens
  <2>3. nextId' \in Nat /\ nextId < nextId' /\ s.id < nextId'
    BY <1>1, <1>2 DEF Opens
  <2> QED BY <1>1, <1>2, <2>2, <2>3 DEF Opens, Old
<1>3. CASE Closes(s)
  <2>1. Listed(open') /\ s \in Subscriptions
    BY <1>1, <1>3, ListedRemove DEF Closes, Listed
  <2> QED BY <1>1, <1>3, <2>1 DEF Closes, Old
<1> QED BY <1>2, <1>3

(* What the page holds while the API moves: only TotalInv cares when.      *)
LEMMA ApiTotal ==
    ASSUME IInv, torn' = (torn \/ Tears),
           UNCHANGED <<subscriptions, totalInvested, load>>
    PROVE  TotalInv'
BY DEF IInv, TotalInv, Tears

LEMMA OtherDeviceStep ==
    ASSUME IInv, OtherDevice
    PROVE  IInv'
<1>1. /\ torn' = (torn \/ Tears) /\ unsure' = TRUE
      /\ UNCHANGED <<page, subscriptions, totalInvested, shownBalance, modal, load,
                     sent, call, crossed>>
  BY DEF OtherDevice, pageVars
<1>2. PICK s : Opens(s) \/ Closes(s)
  <2>1. CASE \E f \in Funds : \E amount \in Amounts \cup {Minimum[f]} :
               Subscribable(f, amount) /\ Subscribe(f, amount)
    <3>1. PICK f \in Funds, amount \in Nat :
            Subscribable(f, amount) /\ Subscribe(f, amount)
      BY <2>1, HomePageAssumption
    <3> QED BY <3>1, SubscribeOpens DEF IInv
  <2>2. CASE \E a \in open : Cancel(a)
    BY <2>2, CancelCloses DEF IInv
  <2> QED BY <2>1, <2>2 DEF OtherDevice
<1>3. TypeOK'
  BY <1>1, <1>2, ApiLists DEF IInv, TypeOK
<1>4. IdsInv'
  <2>1. \A a \in Subscriptions : a.id \in Nat
    BY DEF Subscriptions
  <2>2. \A a \in subscriptions : a \in Subscriptions /\ Old(a)
    BY DEF IInv, TypeOK, Listed, IdsInv
  <2>3. load # None => \A a \in load.items : a \in Subscriptions /\ Old(a)
    BY DEF IInv, TypeOK, Listed, IdsInv
  <2>4. \A a \in Subscriptions : Old(a) => a.id < nextId'
    BY <1>2, <2>1, ApiLists
  <2>5. \A k \in Calls : UnderWay(k) =>
         /\ call[k].kind = "cancel" =>
              call[k].subscription \in Subscriptions /\ Old(call[k].subscription)
         /\ Won(k) => /\ call[k].reply.subscription \in Subscriptions
                      /\ Old(call[k].reply.subscription)
    BY DEF IInv, IdsInv
  <2>6. \A a \in open' : a.id < nextId'
    BY <1>2, ApiLists
  <2> QED BY <1>1, <2>2, <2>3, <2>4, <2>5, <2>6, SameNews DEF IdsInv, Old
<1>5. PageInv'
  BY <1>1, SameNews DEF IInv, PageInv
<1>6. HereInv'
  <2>1. \A k \in Calls : Lost(k) => Old(call[k].subscription)
    BY DEF IInv, IdsInv, Lost, Accepted
  <2>2. \A k \in Calls : Here(k) /\ call[k].kind = "cancel" => Old(call[k].subscription)
    BY DEF IInv, IdsInv, Here
  <2>3. \A a : Old(a) /\ a \notin open => a \notin open'
    BY <1>2 DEF Opens, Closes, Old, IInv, TypeOK
  <2> QED BY <1>1, <2>1, <2>2, <2>3, SameNews DEF IInv, HereInv
<1>7. TotalInv'
  BY <1>1, ApiTotal
<1>8. ServerInv' /\ BalanceInv'
  BY <1>1 DEF ServerInv, BalanceInv
<1> QED BY <1>3, <1>4, <1>5, <1>6, <1>7, <1>8 DEF IInv

----------------------------------------------------------------------------
(* The API answers a call: yes, opening or closing, or no.                 *)
Answers(k, r) ==
    /\ UnderWay(k) /\ call[k].reply = None
    /\ call' = [call EXCEPT ![k].reply = r]

ServeAlone ==
    UNCHANGED <<page, subscriptions, totalInvested, shownBalance, modal, load, sent,
                crossed, unsure>>

LEMMA Answered ==
    ASSUME TypeOK, NEW k \in Calls, NEW r \in Replies, Answers(k, r)
    PROVE  /\ call' \in [Calls -> Asked \cup {None}] /\ r # None
           /\ \A q \in Calls \ {k} :
                /\ call'[q] = call[q]
                /\ UnderWay(q)' = UnderWay(q) /\ Here(q)' = Here(q)
                /\ Won(q)' = Won(q) /\ Lost(q)' = Lost(q)
           /\ UnderWay(k) /\ UnderWay(k)' /\ ~Won(k) /\ ~Lost(k)
           /\ Here(k)' = Here(k) /\ Here(k) = call[k].here
           /\ call'[k].kind = call[k].kind /\ call'[k].subscription = call[k].subscription
           /\ call'[k].here = call[k].here /\ call'[k].reply = r
           /\ Won(k)' <=> call[k].kind = "invest" /\ r.ok
           /\ Lost(k)' <=> call[k].kind = "cancel" /\ r.ok
<1>1. UnderWay(k) /\ call[k] \in Asked /\ call[k].reply = None /\ r # None
  BY AskedFields, NoneAssumption DEF Answers
<1>2. /\ call' = [call EXCEPT ![k].reply = r]
      /\ call'[k] = [call[k] EXCEPT !.reply = r]
      /\ \A q \in Calls \ {k} : call'[q] = call[q]
  BY DEF Answers, TypeOK
<1>3. /\ call'[k] \in Asked /\ call'[k].reply = r
      /\ call'[k].kind = call[k].kind /\ call'[k].subscription = call[k].subscription
      /\ call'[k].here = call[k].here
  BY <1>1, <1>2 DEF Asked
<1>4. UnderWay(k)' /\ call'[k] # None
  BY <1>3, NoneAssumption DEF UnderWay
<1>5. call' \in [Calls -> Asked \cup {None}]
  <2>1. call \in [Calls -> Asked \cup {None}]
    BY DEF TypeOK
  <2>2. call' = [q \in Calls |-> call'[q]]
    BY <1>2, <2>1
  <2> QED BY <1>2, <1>3, <2>1, <2>2
<1>6. Here(k)' = Here(k) /\ Here(k) = call[k].here
  <2>1. call[k].here \in BOOLEAN
    BY <1>1 DEF Asked
  <2> QED BY <1>1, <1>3, <1>4, <2>1 DEF Here
<1>7. ~Won(k) /\ ~Lost(k)
  BY <1>1 DEF Won, Lost, Accepted
<1>8. (Won(k)' <=> call[k].kind = "invest" /\ r.ok)
      /\ (Lost(k)' <=> call[k].kind = "cancel" /\ r.ok)
  BY <1>1, <1>3, <1>4 DEF Won, Lost, Accepted
<1> QED BY <1>1, <1>2, <1>3, <1>4, <1>5, <1>6, <1>7, <1>8, SameCall

LEMMA RefusedStep ==
    ASSUME IInv, NEW k \in Calls, NEW r \in Replies, Answers(k, r), ~r.ok, ServeAlone,
           UNCHANGED <<balance, open, nextId, torn>>
    PROVE  IInv'
<1>1. TypeOK
  BY DEF IInv
<1>2. /\ \A q \in Calls : /\ UnderWay(q)' <=> UnderWay(q)
                          /\ Here(q)' <=> Here(q)
                          /\ Won(q)' <=> Won(q)
                          /\ Lost(q)' <=> Lost(q)
      /\ UnderWay(k) /\ ~Won(k) /\ ~Lost(k) /\ ~Won(k)' /\ ~Lost(k)'
  <2>1. UnderWay(k) /\ UnderWay(k)' /\ ~Won(k) /\ ~Lost(k) /\ ~Won(k)' /\ ~Lost(k)'
    BY <1>1, Answered
  <2>2. Here(k)' <=> Here(k)
    BY <1>1, Answered
  <2>3. \A q \in Calls \ {k} :
          /\ call'[q] = call[q]
          /\ UnderWay(q)' <=> UnderWay(q)
          /\ Here(q)' <=> Here(q)
          /\ Won(q)' <=> Won(q)
          /\ Lost(q)' <=> Lost(q)
    BY <1>1, Answered
  <2>4. ASSUME NEW q \in Calls
        PROVE  /\ UnderWay(q)' <=> UnderWay(q)
               /\ Here(q)' <=> Here(q)
               /\ Won(q)' <=> Won(q)
               /\ Lost(q)' <=> Lost(q)
    BY <2>1, <2>2, <2>3, q = k \/ q \in Calls \ {k}
  <2> QED BY <2>1, <2>4
<1> USE DEF ServeAlone
<1>3. /\ \A q \in Calls \ {k} : call'[q] = call[q]
      /\ call'[k].kind = call[k].kind /\ call'[k].subscription = call[k].subscription
      /\ call'[k].here = call[k].here /\ call'[k].reply # None
  BY <1>1, Answered
<1>4. TypeOK'
  BY <1>1, Answered DEF TypeOK
<1>5. IdsInv'
  BY <1>2, <1>3 DEF IInv, IdsInv, Old
<1>6. PageInv'
  BY <1>2, <1>3 DEF IInv, PageInv
<1>7. HereInv'
  BY <1>2, <1>3 DEF IInv, HereInv
<1>8. TotalInv'
  BY DEF IInv, TotalInv
<1>9. WonBy' = WonBy /\ LostBy' = LostBy
  <2>1. \A s : s \in WonBy' <=> s \in WonBy
    BY <1>2, <1>3, WonMembers
  <2>2. \A s : s \in LostBy' <=> s \in LostBy
    BY <1>2, <1>3, LostMembers
  <2> QED BY <2>1, <2>2
<1>10. ServerInv'
  BY <1>2, <1>3, <1>9 DEF IInv, ServerInv
<1>11. BalanceInv'
  BY <1>2, <1>3 DEF IInv, BalanceInv
<1> QED BY <1>4, <1>5, <1>6, <1>7, <1>8, <1>10, <1>11 DEF IInv

LEMMA GrantedStep ==
    ASSUME IInv, NEW k \in Calls, NEW r \in Replies, Answers(k, r), r.ok, ServeAlone,
           NEW s, r.subscription = s, r.balance = balance', torn' = (torn \/ Tears),
           \/ Opens(s) /\ call[k].kind = "invest"
           \/ Closes(s) /\ call[k].kind = "cancel" /\ call[k].subscription = s
    PROVE  IInv'
<1>1. TypeOK /\ (Opens(s) \/ Closes(s))
  BY DEF IInv
<1>2. \A q \in Calls \ {k} :
        /\ call'[q] = call[q]
        /\ UnderWay(q)' <=> UnderWay(q)
        /\ Here(q)' <=> Here(q)
        /\ Won(q)' <=> Won(q)
        /\ Lost(q)' <=> Lost(q)
  BY <1>1, Answered
<1>3. /\ UnderWay(k) /\ UnderWay(k)' /\ ~Won(k) /\ ~Lost(k)
      /\ Here(k)' <=> Here(k)
      /\ call'[k].kind = call[k].kind /\ call'[k].subscription = call[k].subscription
      /\ call'[k].here = call[k].here /\ call'[k].reply = r /\ r # None
      /\ Won(k)' <=> call[k].kind = "invest"
      /\ Lost(k)' <=> call[k].kind = "cancel"
  BY <1>1, Answered
<1>4. /\ Listed(open') /\ nextId \in Nat /\ nextId' \in Nat /\ balance' \in Nat
      /\ s \in Subscriptions /\ s.id < nextId'
      /\ \A a \in Subscriptions : Old(a) => a.id < nextId'
      /\ \A a \in open' : a.id < nextId'
  <2>1. \A a \in Subscriptions : a.id \in Nat
    BY DEF Subscriptions
  <2>2. nextId \in Nat /\ (s \in open => Old(s))
    BY DEF IInv, TypeOK, IdsInv
  <2>3. s \in Subscriptions /\ \A a \in Subscriptions : Old(a) => a.id < nextId'
    BY <1>1, <2>1, ApiLists
  <2>4. s.id < nextId'
    BY <1>1, <2>2, <2>3 DEF Opens, Closes
  <2> QED BY <1>1, <2>2, <2>3, <2>4, ApiLists
<1>5. \A a : Old(a) => (Opens(s) => a # s /\ a.id # s.id)
                       /\ (a \notin open => a \notin open')
  BY <1>1, <1>4 DEF Old, Opens, Closes
(* What each of the calls stands for was opened before.                    *)
<1>6. /\ \A q \in Calls : UnderWay(q) /\ call[q].kind = "cancel" =>
           call[q].subscription \in Subscriptions /\ Old(call[q].subscription)
      /\ \A q \in Calls : Won(q) => /\ call[q].reply.subscription \in Subscriptions
                                    /\ Old(call[q].reply.subscription)
      /\ \A q \in Calls : Lost(q) => UnderWay(q) /\ call[q].kind = "cancel"
      /\ \A q \in Calls : Won(q) => UnderWay(q)
  BY DEF IInv, IdsInv, Won, Lost, Accepted
<1>7. /\ \A a \in subscriptions : a \in Subscriptions /\ Old(a)
      /\ load # None => \A a \in load.items : a \in Subscriptions /\ Old(a)
  BY DEF IInv, TypeOK, Listed, IdsInv
<1>8. TypeOK'
  BY <1>1, <1>4, Answered DEF TypeOK, ServeAlone
<1>9. IdsInv'
  <2>1. \A q \in Calls : UnderWay(q)' =>
          /\ call'[q].kind = "cancel" =>
               call'[q].subscription \in Subscriptions /\ call'[q].subscription.id < nextId'
          /\ Won(q)' => /\ call'[q].reply.subscription \in Subscriptions
                        /\ call'[q].reply.subscription.id < nextId'
    BY <1>2, <1>3, <1>4, <1>6
  <2> QED BY <1>4, <1>7, <2>1 DEF IdsInv, Old, ServeAlone
<1>10. PageInv'
  BY <1>2, <1>3 DEF IInv, PageInv, ServeAlone
<1>11. HereInv'
  <2>1. \A q \in Calls : Here(q)' /\ Won(q)' =>
          \A a \in subscriptions' : a.id # call'[q].reply.subscription.id
    BY <1>2, <1>3, <1>5, <1>7 DEF IInv, HereInv, ServeAlone, Opens, Closes
  <2>2. \A p, q \in Calls : Here(p)' /\ Won(p)' /\ Here(q)' /\ Won(q)' /\ p # q =>
          call'[p].reply.subscription.id # call'[q].reply.subscription.id
    BY <1>2, <1>3, <1>5, <1>6 DEF IInv, HereInv
  <2>3. \A q \in Calls : Here(q)' /\ Lost(q)' =>
          call'[q].subscription \in subscriptions' /\ call'[q].subscription \notin open'
    BY <1>2, <1>3, <1>5, <1>6 DEF IInv, HereInv, ServeAlone, Answers, Closes
  <2>4. \A p, q \in Calls : Here(p)' /\ Lost(p)' /\ Here(q)' /\ Lost(q)' /\ p # q =>
          call'[p].subscription # call'[q].subscription
    BY <1>2, <1>3 DEF IInv, HereInv, Closes
  <2>5. \A q \in Calls : Here(q)' /\ call'[q].kind = "cancel" /\ call'[q].reply = None =>
          call'[q].subscription \in subscriptions' \/ call'[q].subscription \notin open'
    BY <1>2, <1>3, <1>5, <1>6 DEF IInv, HereInv, ServeAlone, Here
  <2> QED BY <2>1, <2>2, <2>3, <2>4, <2>5 DEF HereInv
<1>12. TotalInv'
  BY ApiTotal DEF ServeAlone
(* A call under way that the page made and never lost: the page is ready.  *)
<1>13. ~unsure => page = "ready" /\ load = None
  BY <1>3, NoNews DEF IInv, PageInv
<1>14. ServerInv'
  <2>1. CASE Opens(s) /\ call[k].kind = "invest"
    <3>1. \A a : a \in WonBy' <=> a \in WonBy \/ a = s
      BY <1>2, <1>3, <2>1, WonMembers
    <3>2. \A a : a \in LostBy' <=> a \in LostBy
      BY <1>2, <1>3, <2>1, LostMembers
    <3>3. s \notin LostBy
      BY <1>5, <1>6, <2>1, LostMembers
    <3>4. WonBy' = WonBy \cup {s} /\ LostBy' = LostBy /\ open' = open \cup {s}
      BY <2>1, <3>1, <3>2 DEF Opens
    <3>5. open = (subscriptions \cup WonBy) \ LostBy =>
            open' = (subscriptions \cup WonBy') \ LostBy'
      BY <3>3, <3>4
    <3> QED BY <1>2, <1>3, <1>13, <3>5 DEF IInv, ServerInv, ServeAlone
  <2>2. CASE Closes(s) /\ call[k].kind = "cancel" /\ call[k].subscription = s
    <3>1. \A a : a \in WonBy' <=> a \in WonBy
      BY <1>2, <1>3, <2>2, WonMembers
    <3>2. \A a : a \in LostBy' <=> a \in LostBy \/ a = s
      BY <1>2, <1>3, <2>2, LostMembers
    <3>3. WonBy' = WonBy /\ LostBy' = LostBy \cup {s} /\ open' = open \ {s}
      BY <2>2, <3>1, <3>2 DEF Closes
    <3>4. open = (subscriptions \cup WonBy) \ LostBy =>
            open' = (subscriptions \cup WonBy') \ LostBy'
      BY <3>3
    <3> QED BY <1>2, <1>3, <1>13, <3>4 DEF IInv, ServerInv, ServeAlone
  <2> QED BY <2>1, <2>2
<1>15. BalanceInv'
  <2>0. CASE unsure' \/ crossed'
    BY <2>0 DEF BalanceInv
  <2> SUFFICES ASSUME ~unsure', ~crossed' PROVE BalanceInv'
    BY <2>0
  <2>1. /\ \A p, q \in Calls : UnderWay(p) /\ UnderWay(q) => p = q
        /\ load' = None
    BY <1>13 DEF IInv, BalanceInv, ServeAlone
  <2>2. \A q \in Calls : UnderWay(q)' => q = k
    BY <1>2, <1>3, <2>1
  <2>3. Won(k)' \/ Lost(k)'
    BY <1>3
  <2>4. \A q \in Calls : Won(q)' \/ Lost(q)' => q = k
    BY <2>2 DEF Won, Lost, Accepted
  <2> QED BY <1>3, <2>1, <2>2, <2>3, <2>4 DEF BalanceInv
<1> QED BY <1>8, <1>9, <1>10, <1>11, <1>12, <1>14, <1>15 DEF IInv

LEMMA ServeStep ==
    ASSUME IInv, NEW k \in Calls, Serve(k)
    PROVE  IInv'
<1>1. PICK amount : amount = IF call[k].amount = None THEN Minimum[call[k].fund]
                             ELSE call[k].amount
  OBVIOUS
<1>2. TypeOK /\ UnderWay(k) /\ call[k].reply = None /\ ServeAlone
  BY DEF Serve, IInv, pageVars, ServeAlone
<1>3. call[k].fund \in Funds /\ call[k].kind \in {"invest", "cancel"} /\ amount \in Nat
  BY <1>1, <1>2, AskedFields, HomePageAssumption
<1>4. CASE /\ call[k].kind = "invest" /\ Subscribable(call[k].fund, amount)
           /\ Subscribe(call[k].fund, amount)
           /\ call' = [call EXCEPT ![k].reply = Done(Opened(call[k].fund, amount))]
           /\ torn' = (torn \/ Tears)
  <2>1. PICK s \in Subscriptions : s = Opened(call[k].fund, amount) /\ Opens(s)
    BY <1>2, <1>3, <1>4, SubscribeOpens
  <2>2. PICK r : r = [ok |-> TRUE, subscription |-> s, balance |-> balance']
    OBVIOUS
  <2>3. r \in Replies /\ r.ok /\ r.subscription = s /\ r.balance = balance'
    BY <2>1, <2>2 DEF Replies, Opens
  <2>4. Answers(k, r)
    BY <1>2, <1>4, <2>1, <2>2 DEF Answers, Done
  <2> QED BY <1>2, <1>4, <2>1, <2>3, <2>4, GrantedStep
<1>5. CASE /\ call[k].kind = "cancel" /\ call[k].subscription \in open
           /\ Cancel(call[k].subscription)
           /\ call' = [call EXCEPT ![k].reply = Done(call[k].subscription)]
           /\ torn' = (torn \/ Tears)
  <2>1. PICK s \in open : s = call[k].subscription /\ Cancel(s)
    BY <1>5
  <2>2. PICK r : r = [ok |-> TRUE, subscription |-> s, balance |-> balance']
    OBVIOUS
  <2>3. Closes(s) /\ s \in Subscriptions
    BY <1>2, <2>1, CancelCloses DEF TypeOK, Listed
  <2>4. r \in Replies /\ r.ok /\ r.subscription = s /\ r.balance = balance'
    BY <2>2, <2>3 DEF Replies, Closes
  <2>5. Answers(k, r)
    BY <1>2, <1>5, <2>1, <2>2 DEF Answers, Done
  <2> QED BY <1>2, <1>5, <2>1, <2>3, <2>4, <2>5, GrantedStep
<1>6. CASE call' = [call EXCEPT ![k].reply = Refused] /\ UNCHANGED <<serverVars, torn>>
  <2>1. PICK r : r = Refused
    OBVIOUS
  <2>2. r \in Replies /\ ~r.ok
    BY <2>1 DEF Refused, Replies
  <2>3. Answers(k, r)
    BY <1>2, <1>6, <2>1 DEF Answers
  <2>4. UNCHANGED <<balance, open, nextId, torn>>
    BY <1>6 DEF serverVars
  <2> QED BY <1>2, <2>2, <2>3, <2>4, RefusedStep
<1> QED BY <1>1, <1>4, <1>5, <1>6 DEF Serve

----------------------------------------------------------------------------
(* A call ends: the page hears the answer, or never will.                  *)
Ends(k) == UnderWay(k) /\ call' = [call EXCEPT ![k] = None]

EndAlone == UNCHANGED <<balance, open, nextId, page, load, sent, torn, crossed>>

LEMMA Ended ==
    ASSUME TypeOK, NEW k \in Calls, Ends(k)
    PROVE  /\ call' \in [Calls -> Asked \cup {None}]
           /\ \A q \in Calls : UnderWay(q)' \/ Here(q)' \/ Won(q)' \/ Lost(q)' =>
                q # k /\ call'[q] = call[q]
           /\ \A q \in Calls : /\ UnderWay(q)' <=> UnderWay(q) /\ q # k
                               /\ Here(q)' <=> Here(q) /\ q # k
                               /\ Won(q)' <=> Won(q) /\ q # k
                               /\ Lost(q)' <=> Lost(q) /\ q # k
<1>1. call' \in [Calls -> Asked \cup {None}] /\ call'[k] = None
      /\ \A q \in Calls \ {k} : call'[q] = call[q]
  BY DEF Ends, TypeOK
<1>2. ~UnderWay(k)' /\ ~Here(k)' /\ ~Won(k)' /\ ~Lost(k)'
  BY <1>1 DEF UnderWay, Here, Won, Lost, Accepted
<1>3. \A q \in Calls \ {k} : /\ UnderWay(q)' <=> UnderWay(q)
                             /\ Here(q)' <=> Here(q)
                             /\ Won(q)' <=> Won(q)
                             /\ Lost(q)' <=> Lost(q)
  BY <1>1 DEF UnderWay, Here, Won, Lost, Accepted
<1>4. ASSUME NEW q \in Calls
      PROVE  /\ UnderWay(q)' \/ Here(q)' \/ Won(q)' \/ Lost(q)' =>
                  q # k /\ call'[q] = call[q]
             /\ UnderWay(q)' <=> UnderWay(q) /\ q # k
             /\ Here(q)' <=> Here(q) /\ q # k
             /\ Won(q)' <=> Won(q) /\ q # k
             /\ Lost(q)' <=> Lost(q) /\ q # k
  BY <1>1, <1>2, <1>3, q = k \/ q \in Calls \ {k}
<1> QED BY <1>1, <1>4

(* The page takes nothing from it, or nothing that the server's state      *)
(* still depends on.                                                       *)
LEMMA DropStep ==
    ASSUME IInv, NEW k \in Calls, Ends(k), EndAlone,
           UNCHANGED <<subscriptions, totalInvested, modal>>, shownBalance' \in Nat,
           ~unsure' => ~unsure /\ ~Won(k) /\ ~Lost(k) /\ shownBalance' = shownBalance
    PROVE  IInv'
<1>1. /\ \A q \in Calls : UnderWay(q)' \/ Here(q)' \/ Won(q)' \/ Lost(q)' =>
           q # k /\ call'[q] = call[q]
      /\ \A q \in Calls : /\ UnderWay(q)' <=> UnderWay(q) /\ q # k
                          /\ Here(q)' <=> Here(q) /\ q # k
                          /\ Won(q)' <=> Won(q) /\ q # k
                          /\ Lost(q)' <=> Lost(q) /\ q # k
  BY Ended DEF IInv
<1> USE DEF EndAlone
<1>2. TypeOK'
  BY Ended DEF IInv, TypeOK
<1>3. IdsInv' /\ PageInv'
  BY <1>1 DEF IInv, IdsInv, PageInv, Old
<1>4. HereInv'
  BY <1>1 DEF IInv, HereInv
<1>5. TotalInv'
  BY DEF IInv, TotalInv
<1>6. ServerInv'
  <2>1. CASE unsure'
    BY <2>1 DEF ServerInv
  <2>2. CASE ~unsure'
    <3>1. ~unsure /\ ~Won(k) /\ ~Lost(k)
      BY <2>2
    <3>2. \A a : a \in WonBy' <=> a \in WonBy
      BY <1>1, <3>1, WonMembers
    <3>3. \A a : a \in LostBy' <=> a \in LostBy
      BY <1>1, <3>1, LostMembers
    <3>4. WonBy' = WonBy /\ LostBy' = LostBy
      BY <3>2, <3>3
    <3> QED BY <1>1, <3>1, <3>4 DEF IInv, ServerInv
  <2> QED BY <2>1, <2>2
<1>7. BalanceInv'
  <2>1. CASE unsure'
    BY <2>1 DEF BalanceInv
  <2>2. CASE ~unsure'
    BY <1>1, <2>2 DEF IInv, BalanceInv
  <2> QED BY <2>1, <2>2
<1> QED BY <1>2, <1>3, <1>4, <1>5, <1>6, <1>7 DEF IInv

LEMMA FailStep ==
    ASSUME IInv, NEW k \in Calls, Fail(k)
    PROVE  IInv'
<1>1. Ends(k) /\ EndAlone /\ UNCHANGED <<subscriptions, totalInvested, modal>>
  BY DEF Fail, Ends, EndAlone, ActionError, PageUnchanged, serverVars
<1>2. shownBalance' = shownBalance /\ shownBalance \in Nat
  BY DEF Fail, IInv, TypeOK
<1>3. ~unsure' => ~unsure /\ ~Won(k) /\ ~Lost(k)
  BY DEF Fail, Won, Lost, Accepted
<1> QED BY <1>1, <1>2, <1>3, DropStep

(* What an accepted call means to the page that hears of it.               *)
Hears(k) ==
    /\ Ends(k) /\ EndAlone /\ UNCHANGED unsure
    /\ Here(k) /\ call[k].reply # None /\ call[k].reply.ok
    /\ shownBalance' = call[k].reply.balance

LEMMA Heard ==
    ASSUME IInv, NEW k \in Calls, Hears(k)
    PROVE  /\ page = "ready" /\ load = None /\ shownBalance' \in Nat
           /\ Won(k) <=> call[k].kind = "invest"
           /\ Lost(k) <=> call[k].kind = "cancel"
           /\ BalanceInv'
<1>1. TypeOK /\ UnderWay(k) /\ Ends(k)
  BY DEF IInv, Hears, Ends
<1>2. page = "ready" /\ load = None
  BY DEF Hears, IInv, PageInv, Here
<1>3. shownBalance' \in Nat
  BY <1>1, AskedFields DEF Hears
<1>4. /\ Won(k) <=> call[k].kind = "invest"
      /\ Lost(k) <=> call[k].kind = "cancel"
      /\ Won(k) \/ Lost(k)
  BY <1>1, AskedFields DEF Won, Lost, Accepted, Hears
<1>5. BalanceInv'
  <2>1. CASE unsure \/ crossed
    BY <2>1 DEF BalanceInv, Hears, EndAlone
  <2>2. CASE ~unsure /\ ~crossed
    <3>1. /\ \A p, q \in Calls : UnderWay(p) /\ UnderWay(q) => p = q
          /\ call[k].reply.balance = balance
      BY <1>2, <1>4, <2>2 DEF IInv, BalanceInv
    <3>2. \A q \in Calls : ~UnderWay(q)'
      BY <1>1, <3>1, Ended
    <3>3. \A q \in Calls : ~UnderWay(q)' /\ ~Won(q)' /\ ~Lost(q)'
      BY <3>2 DEF Won, Lost, Accepted
    <3> QED BY <1>2, <3>1, <3>3 DEF BalanceInv, Hears, EndAlone
  <2> QED BY <2>1, <2>2
<1> QED BY <1>2, <1>3, <1>4, <1>5

LEMMA InvestHeardStep ==
    ASSUME IInv, NEW k \in Calls, Hears(k), call[k].kind = "invest",
           InvestSuccess(call[k])
    PROVE  IInv'
<1>1. PICK s : s = call[k].reply.subscription
  OBVIOUS
<1>2. /\ subscriptions' = subscriptions \cup {s} /\ modal' = None
      /\ totalInvested' = totalInvested + s.amount
  BY <1>1 DEF InvestSuccess
<1>3. Won(k) /\ ~Lost(k) /\ Here(k) /\ page = "ready" /\ load = None
      /\ shownBalance' \in Nat
  BY Heard DEF Hears
<1>4. s \in Subscriptions /\ Old(s) /\ s.amount \in Nat
  BY <1>1, <1>3 DEF IInv, IdsInv, Won, Accepted, Subscriptions
<1>5. Listed(subscriptions) /\ \A a \in subscriptions : a.id # s.id
  BY <1>1, <1>3 DEF IInv, TypeOK, HereInv
<1>6. Listed(subscriptions') /\ s \notin subscriptions
  BY <1>2, <1>4, <1>5, ListedAdd
<1>7. /\ \A q \in Calls : UnderWay(q)' \/ Here(q)' \/ Won(q)' \/ Lost(q)' =>
           q # k /\ call'[q] = call[q]
      /\ \A q \in Calls : /\ UnderWay(q)' <=> UnderWay(q) /\ q # k
                          /\ Here(q)' <=> Here(q) /\ q # k
                          /\ Won(q)' <=> Won(q) /\ q # k
                          /\ Lost(q)' <=> Lost(q) /\ q # k
      /\ call' \in [Calls -> Asked \cup {None}]
  BY Ended DEF IInv, Hears
<1>8. UNCHANGED <<balance, open, nextId, page, load, sent, torn, crossed, unsure>>
  BY DEF Hears, EndAlone
<1>9. TypeOK'
  BY <1>2, <1>3, <1>4, <1>6, <1>7, <1>8 DEF IInv, TypeOK
<1>10. IdsInv'
  BY <1>2, <1>4, <1>7, <1>8 DEF IInv, IdsInv, Old
<1>11. PageInv'
  BY <1>3, <1>7, <1>8 DEF IInv, PageInv
<1>12. HereInv'
  <2>1. \A q \in Calls : Here(q)' /\ Won(q)' =>
          \A a \in subscriptions' : a.id # call'[q].reply.subscription.id
    BY <1>1, <1>2, <1>3, <1>7 DEF IInv, HereInv
  <2>2. \A p, q \in Calls : Here(p)' /\ Won(p)' /\ Here(q)' /\ Won(q)' /\ p # q =>
          call'[p].reply.subscription.id # call'[q].reply.subscription.id
    BY <1>7 DEF IInv, HereInv
  <2>3. \A q \in Calls : Here(q)' /\ Lost(q)' =>
          call'[q].subscription \in subscriptions' /\ call'[q].subscription \notin open'
    BY <1>2, <1>7, <1>8 DEF IInv, HereInv
  <2>4. \A p, q \in Calls : Here(p)' /\ Lost(p)' /\ Here(q)' /\ Lost(q)' /\ p # q =>
          call'[p].subscription # call'[q].subscription
    BY <1>7 DEF IInv, HereInv
  <2>5. \A q \in Calls : Here(q)' /\ call'[q].kind = "cancel" /\ call'[q].reply = None =>
          call'[q].subscription \in subscriptions' \/ call'[q].subscription \notin open'
    BY <1>2, <1>7, <1>8 DEF IInv, HereInv
  <2> QED BY <2>1, <2>2, <2>3, <2>4, <2>5 DEF HereInv
<1>13. TotalInv'
  <2>1. SumOf(subscriptions') = SumOf(subscriptions) + s.amount
    <3>1. \A a \in subscriptions \cup {s} : a.amount \in Int
      BY <1>4, <1>5 DEF Listed, Subscriptions
    <3>2. Total(subscriptions \cup {s}) = Total(subscriptions) + s.amount
      BY <1>5, <1>6, <3>1, TotalAdd DEF Listed
    <3> QED BY <1>2, <1>5, <1>6, <3>2, SumType
  <2> QED BY <1>2, <1>3, <1>8, <2>1 DEF IInv, TotalInv
<1>14. ServerInv'
  <2>1. \A a : a \in WonBy <=> a \in WonBy' \/ a = s
    BY <1>1, <1>3, <1>7, WonMembers
  <2>2. \A a : a \in LostBy' <=> a \in LostBy
    BY <1>3, <1>7, LostMembers
  <2>3. subscriptions' \cup WonBy' = subscriptions \cup WonBy /\ LostBy' = LostBy
    BY <1>2, <2>1, <2>2
  <2> QED BY <1>3, <1>7, <1>8, <2>3 DEF IInv, ServerInv
<1> QED BY <1>9, <1>10, <1>11, <1>12, <1>13, <1>14, Heard DEF IInv

LEMMA CancelHeardStep ==
    ASSUME IInv, NEW k \in Calls, Hears(k), call[k].kind = "cancel",
           CancelSuccess(call[k])
    PROVE  IInv'
<1>1. PICK s : s = call[k].subscription
  OBVIOUS
<1>2. Lost(k) /\ ~Won(k) /\ Here(k) /\ page = "ready" /\ load = None
      /\ shownBalance' \in Nat
  BY Heard DEF Hears
<1>3. Listed(subscriptions) /\ s \in subscriptions /\ s \notin open
      /\ s.amount \in Nat /\ totalInvested \in Nat
  BY <1>1, <1>2 DEF IInv, TypeOK, HereInv, Listed, Subscriptions
<1>4. /\ subscriptions' = subscriptions \ {s} /\ modal' = modal
      /\ totalInvested' = IF s.amount <= totalInvested THEN totalInvested - s.amount ELSE 0
  <2>1. {a \in subscriptions : a.id # s.id} = subscriptions \ {s}
    BY <1>3 DEF Listed, Unique
  <2> QED BY <1>1, <2>1 DEF CancelSuccess
<1>5. Listed(subscriptions')
  BY <1>3, <1>4, ListedRemove
<1>6. totalInvested' \in Nat
  BY <1>3, <1>4
<1>7. /\ \A q \in Calls : UnderWay(q)' \/ Here(q)' \/ Won(q)' \/ Lost(q)' =>
           q # k /\ call'[q] = call[q]
      /\ \A q \in Calls : /\ UnderWay(q)' <=> UnderWay(q) /\ q # k
                          /\ Here(q)' <=> Here(q) /\ q # k
                          /\ Won(q)' <=> Won(q) /\ q # k
                          /\ Lost(q)' <=> Lost(q) /\ q # k
      /\ call' \in [Calls -> Asked \cup {None}]
  BY Ended DEF IInv, Hears
<1>8. UNCHANGED <<balance, open, nextId, page, load, sent, torn, crossed, unsure>>
  BY DEF Hears, EndAlone
<1>9. TypeOK'
  BY <1>2, <1>4, <1>5, <1>6, <1>7, <1>8 DEF IInv, TypeOK
<1>10. IdsInv'
  BY <1>4, <1>7, <1>8 DEF IInv, IdsInv, Old
<1>11. PageInv'
  BY <1>2, <1>7, <1>8 DEF IInv, PageInv
<1>12. HereInv'
  <2>1. \A q \in Calls : Here(q)' /\ Won(q)' =>
          \A a \in subscriptions' : a.id # call'[q].reply.subscription.id
    BY <1>4, <1>7 DEF IInv, HereInv
  <2>2. \A p, q \in Calls : Here(p)' /\ Won(p)' /\ Here(q)' /\ Won(q)' /\ p # q =>
          call'[p].reply.subscription.id # call'[q].reply.subscription.id
    BY <1>7 DEF IInv, HereInv
  <2>3. \A q \in Calls : Here(q)' /\ Lost(q)' =>
          call'[q].subscription \in subscriptions' /\ call'[q].subscription \notin open'
    BY <1>1, <1>2, <1>4, <1>7, <1>8 DEF IInv, HereInv
  <2>4. \A p, q \in Calls : Here(p)' /\ Lost(p)' /\ Here(q)' /\ Lost(q)' /\ p # q =>
          call'[p].subscription # call'[q].subscription
    BY <1>7 DEF IInv, HereInv
  <2>5. \A q \in Calls : Here(q)' /\ call'[q].kind = "cancel" /\ call'[q].reply = None =>
          call'[q].subscription \in subscriptions' \/ call'[q].subscription \notin open'
    BY <1>3, <1>4, <1>7, <1>8 DEF IInv, HereInv
  <2> QED BY <2>1, <2>2, <2>3, <2>4, <2>5 DEF HereInv
<1>13. TotalInv'
  <2>1. \A a \in subscriptions : a.amount \in Int /\ a.amount \in Nat
    BY <1>3 DEF Listed, Subscriptions
  <2>2. Total(subscriptions \ {s}) = Total(subscriptions) - s.amount
    BY <1>3, <2>1, TotalRemove DEF Listed
  <2>3. s.amount <= Total(subscriptions)
    BY <1>3, <2>1, TotalMember DEF Listed
  <2>4. /\ SumOf(subscriptions') = SumOf(subscriptions) - s.amount
        /\ s.amount <= SumOf(subscriptions)
    BY <1>3, <1>4, <1>5, <2>2, <2>3, SumType
  <2> QED BY <1>2, <1>4, <1>8, <2>4 DEF IInv, TotalInv
<1>14. ServerInv'
  <2>1. CASE unsure
    BY <1>8, <2>1 DEF ServerInv
  <2>2. CASE ~unsure
    <3>1. \A a : a \in WonBy' <=> a \in WonBy
      BY <1>2, <1>7, WonMembers
    <3>2. \A a : a \in LostBy <=> a \in LostBy' \/ a = s
      BY <1>1, <1>2, <1>7, LostMembers
    <3>3. \A q \in Calls : Won(q) => Here(q)
      BY <2>2 DEF IInv, ServerInv, Won, Accepted, Here
    <3>4. s \notin WonBy
      BY <1>3, <3>3, WonMembers DEF IInv, HereInv
    <3>5. (subscriptions' \cup WonBy') \ LostBy' = (subscriptions \cup WonBy) \ LostBy
      BY <1>4, <3>1, <3>2, <3>4
    <3> QED BY <1>2, <1>7, <1>8, <2>2, <3>5 DEF IInv, ServerInv
  <2> QED BY <2>1, <2>2
<1> QED BY <1>9, <1>10, <1>11, <1>12, <1>13, <1>14, Heard DEF IInv

LEMMA ReplyStep ==
    ASSUME IInv, NEW k \in Calls, Reply(k)
    PROVE  IInv'
<1>1. /\ TypeOK /\ Ends(k) /\ UnderWay(k) /\ call[k].reply # None
      /\ UNCHANGED <<balance, open, nextId, load, sent, torn, crossed, unsure>>
  BY DEF Reply, IInv, Ends, serverVars
<1>2. /\ call[k].kind \in {"invest", "cancel"} /\ call[k].here \in BOOLEAN
      /\ call[k].reply.ok \in BOOLEAN /\ call[k].reply.balance \in Nat
      /\ shownBalance \in Nat
  BY <1>1, AskedFields DEF TypeOK
<1>3. CASE ~call[k].reply.ok
  <2>1. /\ UNCHANGED <<page, subscriptions, totalInvested, modal>>
        /\ shownBalance' = shownBalance
    BY <1>3 DEF Reply, PageUnchanged, ActionError
  <2>2. ~Won(k) /\ ~Lost(k)
    BY <1>3 DEF Won, Lost, Accepted
  <2> QED BY <1>1, <1>2, <2>1, <2>2, DropStep DEF EndAlone
<1>4. CASE call[k].reply.ok /\ ~call[k].here
  <2>1. /\ UNCHANGED <<page, subscriptions, totalInvested, modal>>
        /\ shownBalance' = call[k].reply.balance
    BY <1>4 DEF Reply, PageUnchanged
  <2>2. unsure
    BY <1>1, <1>4 DEF IInv, ServerInv
  <2> QED BY <1>1, <1>2, <2>1, <2>2, DropStep DEF EndAlone
<1>5. CASE call[k].reply.ok /\ call[k].here
  <2>1. /\ call[k].kind = "invest" => InvestSuccess(call[k])
        /\ call[k].kind = "cancel" => CancelSuccess(call[k])
        /\ shownBalance' = call[k].reply.balance
    BY <1>5 DEF Reply
  <2>2. page' = page
    BY <1>2, <2>1 DEF InvestSuccess, CancelSuccess
  <2>3. Hears(k)
    BY <1>1, <1>5, <2>1, <2>2 DEF Hears, EndAlone, Here
  <2> QED BY <1>2, <2>1, <2>3, InvestHeardStep, CancelHeardStep
<1> QED BY <1>2, <1>3, <1>4, <1>5

----------------------------------------------------------------------------
LEMMA NextIInv == IInv /\ [Next]_vars => IInv'
<1> SUFFICES ASSUME IInv, [Next]_vars PROVE IInv'
  OBVIOUS
<1>1. CASE OtherDevice
  BY <1>1, OtherDeviceStep
<1>2. CASE ReadBalance \/ ReadItems \/ ReadTotal
  BY <1>2, ReadStep
<1>3. CASE Loaded
  BY <1>3, LoadedStep
<1>4. CASE LoadFails
  BY <1>4, LoadFailsStep
<1>5. CASE Leave
  BY <1>5, LeaveStep
<1>6. CASE Return
  BY <1>6, ReturnStep
<1>7. CASE CloseInvest \/ \E f \in Funds : OpenInvest(f)
  BY <1>7, OpenInvestStep
<1>8. CASE \E amount \in Amounts \cup {None} : Submit(amount)
  BY <1>8, SubmitStep
<1>9. CASE \E s \in subscriptions : HandleCancel(s)
  BY <1>9, HandleCancelStep
<1>10. CASE \E k \in Calls : Serve(k)
  BY <1>10, ServeStep
<1>11. CASE \E k \in Calls : Reply(k)
  BY <1>11, ReplyStep
<1>12. CASE \E k \in Calls : Fail(k)
  BY <1>12, FailStep
<1>13. CASE UNCHANGED vars
  <2>1. CallsAlone
        /\ UNCHANGED <<page, subscriptions, totalInvested, shownBalance, modal, load, torn>>
    BY <1>13 DEF vars, serverVars, pageVars, CallsAlone
  <2>2. modal \in Funds \cup {None} /\ (modal # None => page = "ready")
    BY DEF IInv, TypeOK, PageInv
  <2> QED BY <2>1, <2>2, DialogStep
<1> QED
  BY <1>1, <1>2, <1>3, <1>4, <1>5, <1>6, <1>7, <1>8, <1>9, <1>10, <1>11, <1>12, <1>13
  DEF Next

LEMMA Invariance == Spec => []IInv
<1> QED BY InitIInv, NextIInv, PTL DEF Spec

(* Every variable keeps its type, and no two cards have the same id.       *)
THEOREM TypeCorrect == Spec => []TypeOK
<1>1. IInv => TypeOK
  BY DEF IInv
<1> QED BY <1>1, Invariance, PTL

(* The total the page keeps beside its list, added to and subtracted from  *)
(* by onInvestSuccess and onCancelSuccess, is the sum of the list, for any *)
(* number of calls that overlap, fail or answer after the page was left,   *)
(* unless one of a page left, or another device, commits between the two   *)
(* reads of the load.                                                      *)
THEOREM ShownTotal == Spec => []ShownTotalIsSum
<1>1. IInv => ShownTotalIsSum
  BY DEF IInv, TotalInv, ShownTotalIsSum
<1> QED BY <1>1, Invariance, PTL

(* When its calls are over, the page shows the subscriptions the API has,  *)
(* and the balance too unless two calls crossed: what setSubscriptions and *)
(* updateBalance were told in any order adds up to the server's state.     *)
(* What went wrong before a load is forgotten with it.                     *)
THEOREM ShownServer == Spec => []ShownIsServer
<1>1. IInv => ShownIsServer
  <2> SUFFICES ASSUME IInv, page = "ready", Quiet, ~unsure
               PROVE  subscriptions = open /\ (crossed \/ shownBalance = balance)
    BY DEF ShownIsServer
  <2>1. \A k \in Calls : ~Won(k) /\ ~Lost(k)
    BY DEF Quiet, Won, Lost, Accepted
  <2>2. WonBy = {} /\ LostBy = {}
    BY <2>1 DEF WonBy, LostBy
  <2>3. subscriptions = open
    BY <2>2 DEF IInv, ServerInv
  <2>4. ~crossed => shownBalance = balance
    BY <2>1 DEF IInv, BalanceInv
  <2> QED BY <2>3, <2>4
<1> QED BY <1>1, Invariance, PTL
===============================================================================
