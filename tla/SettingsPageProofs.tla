------------------------- MODULE SettingsPageProofs --------------------------
(***************************************************************************)
(* Theorems about preferences and dispatches, for any number of dispatches *)
(* and any number of uses of the two switches.                             *)
(***************************************************************************)
EXTENDS SettingsPage, TLAPS

(* What a dispatch has done so far, next to what its user allowed.         *)
Before(d) == pc[d] \in {"uncommitted", "queued"}

DispatchInv ==
    \A d \in Dispatches :
        /\ Before(d) => Attempted(d) = {}
        /\ Running(d) => always[d] \subseteq AllowedNow /\ AllowedNow \subseteq ever[d]
        /\ Attempted(d) \subseteq ever[d]
        /\ \A c \in Channels : pc[d] = Sending(c) => c \in ever[d]
        /\ pc[d] \in {"can_receive_sms", "send_sms", "done"} /\ "email" \in always[d]
             => "email" \in Attempted(d)
        /\ pc[d] = "done" /\ "sms" \in always[d] =>
             "sms" \in Attempted(d) \/ outcome[d]["sms"] = "invalid_phone"

(* Every PUT under way belongs to an earlier use; one whose page is gone   *)
(* left something unsure.                                                  *)
CallsInv ==
    \A k \in Uses : UnderWay(k) =>
        /\ k <= toggles
        /\ call[k].here \/ unsure

(* With one PUT per switch, what it saved stays until the page hears of    *)
(* it, and what the page heard of last stays until the next one is saved.  *)
Open(k, c) == UnderWay(k) /\ call[k].channel = c

TogglesInv ==
    ~doubled /\ ~unsure =>
        \A c \in Channels :
            /\ \A k, j \in Uses : Open(k, c) /\ Open(j, c) => k = j
            /\ \A k \in Uses : Open(k, c) /\ call[k].reply # None =>
                   Allowed(c) = call[k].value
            /\ (\A k \in Uses : Open(k, c) => call[k].reply = None) =>
                   confirmed[c] \in {None, Allowed(c)}

(* With one PUT in all, the page falls back on what is stored.             *)
ScreenInv ==
    ~crossed /\ ~unsure =>
        /\ \A k, j \in Uses : UnderWay(k) /\ UnderWay(j) => k = j
        /\ \A k \in Uses : UnderWay(k) =>
               /\ call[k].reply = None => call[k].previous = Settings
               /\ call[k].reply # None => call[k].reply = Settings
        /\ Quiet => screen = Settings

PageInv == CallsInv /\ TogglesInv /\ ScreenInv

IInv == TypeOK /\ DispatchInv /\ PageInv

----------------------------------------------------------------------------
(* The dispatches.                                                         *)

LEMMA AllowedType ==
    ASSUME NotificationsTypeOK
    PROVE  /\ \A c \in Channels : Allowed(c) \in BOOLEAN
           /\ Settings \in [Channels -> BOOLEAN]
BY DEF NotificationsTypeOK, Allowed, Default, Settings

LEMMA InitIInv == Init => IInv
<1> SUFFICES ASSUME Init PROVE IInv
  OBVIOUS
<1> USE DEF Init, NotificationsInit
<1>1. NotificationsTypeOK
  BY DEF NotificationsTypeOK
<1>2. TypeOK
  <2>1. 0 \in 0..MaxToggles
    BY SettingsPageAssumption
  <2> QED BY <1>1, <2>1, AllowedType DEF TypeOK
<1>3. DispatchInv
  <2>1. \A d \in Dispatches : pc[d] = "uncommitted" /\ Attempted(d) = {}
    <3>1. \A d \in Dispatches, c \in Channels : outcome[d][c] = None
      OBVIOUS
    <3> QED BY <3>1, NotificationsAssumption DEF Attempted, Outcomes
  <2> QED BY <2>1 DEF DispatchInv, Before, Running, Calls, Sending
<1>4. PageInv
  BY DEF PageInv, CallsInv, TogglesInv, ScreenInv, UnderWay, Open, Quiet
<1> QED BY <1>2, <1>3, <1>4 DEF IInv

(* A dispatch steps by itself: everything of the page stays.               *)
LEMMA PageStays ==
    ASSUME PageInv, UNCHANGED webVars, UNCHANGED stored
    PROVE  PageInv'
BY DEF PageInv, CallsInv, TogglesInv, ScreenInv, UnderWay, Open, Quiet, webVars,
       Settings, Allowed

LEMMA WebTypeStays ==
    ASSUME TypeOK, NotificationsTypeOK', UNCHANGED webVars
    PROVE  TypeOK'
BY DEF TypeOK, webVars

LEMMA DispatchStep ==
    ASSUME NotificationsTypeOK, DispatchInv, NEW d \in Dispatches,
           \/ Commit(d) \/ Notify(d) \/ GetProfile(d) \/ Swallow(d)
           \/ \E c \in Channels : CanReceive(d, c) \/ Send(d, c)
    PROVE  NotificationsTypeOK' /\ DispatchInv' /\ UNCHANGED stored
<1> USE DEF NotificationsTypeOK, DispatchInv, Goto, Log
<1>1. CASE Commit(d)
  BY <1>1 DEF Commit, Before, Running, Attempted, Calls, Sending, Channels, AllowedNow, Allowed
<1>2. CASE Notify(d)
  BY <1>2 DEF Notify, Before, Running, Attempted, Calls, Sending, Channels, AllowedNow, Allowed
<1>3. CASE GetProfile(d)
  BY <1>3 DEF GetProfile, Before, Running, Attempted, Calls, Sending, Channels, AllowedNow, Allowed
<1>4. CASE Swallow(d)
  BY <1>4 DEF Swallow, Before, Running, Attempted, Calls, Sending, Channels, AllowedNow, Allowed
<1>5. ASSUME NEW c \in Channels, CanReceive(d, c)
      PROVE  NotificationsTypeOK' /\ DispatchInv' /\ UNCHANGED stored
  <2>1. NotificationsTypeOK' /\ UNCHANGED stored
    <3>1. pc' \in [Dispatches -> Calls \cup
                     {"uncommitted", "queued", "skipped", "done", "swallowed", "lost"}]
      BY <1>5 DEF CanReceive, Calls, Sending, After
    <3>2. outcome' \in [Dispatches -> [Channels -> Outcomes \cup {None}]]
      <4>1. outcome' = outcome \/ outcome' = [outcome EXCEPT ![d][c] = "disabled"]
        BY <1>5 DEF CanReceive
      <4>2. outcome \in [Dispatches -> [Channels -> Outcomes \cup {None}]]
        BY DEF NotificationsTypeOK
      <4> HIDE DEF NotificationsTypeOK, DispatchInv
      <4> QED BY <4>1, <4>2 DEF Outcomes
    <3> QED BY <1>5, <3>1, <3>2 DEF CanReceive
  <2>2. /\ UNCHANGED <<stored, ever, always>>
        /\ \A e \in Dispatches \ {d} : pc'[e] = pc[e] /\ outcome'[e] = outcome[e]
    BY <1>5 DEF CanReceive
  <2>3. pc[d] = Asking(c) /\ Running(d)
    BY <1>5 DEF CanReceive, Asking, Running, Calls
  <2>4. /\ Attempted(d)' \subseteq Attempted(d)
        /\ \A e \in Channels \ {c} : e \in Attempted(d)' <=> e \in Attempted(d)
    <3>1. outcome' = outcome \/ outcome' = [outcome EXCEPT ![d][c] = "disabled"]
      BY <1>5 DEF CanReceive
    <3> QED BY <3>1 DEF Attempted
  <2>5. CASE Allowed(c)
    <3>1. pc'[d] = Sending(c) /\ outcome' = outcome
      BY <1>5, <2>5 DEF CanReceive
    <3> QED BY <2>1, <2>2, <2>3, <2>5, <3>1 DEF Before, Running, Attempted, Calls,
               Sending, Asking, Channels, AllowedNow, Allowed
  <2>6. CASE ~Allowed(c)
    <3>1. pc'[d] = After(c)
      BY <1>5, <2>6 DEF CanReceive
    <3>2. c \notin always[d]
      BY <2>3, <2>6 DEF AllowedNow
    <3> QED BY <2>1, <2>2, <2>3, <2>4, <3>1, <3>2 DEF Before, Running, Attempted, Calls,
               Sending, Asking, After, Channels, AllowedNow, Allowed
  <2> QED BY <2>5, <2>6
<1>6. ASSUME NEW c \in Channels, Send(d, c)
      PROVE  NotificationsTypeOK' /\ DispatchInv' /\ UNCHANGED stored
  <2>1. PICK what \in {"invalid_phone", "sent", "failed", "unexpected"} :
          /\ outcome' = [outcome EXCEPT ![d][c] = what]
          /\ what = "invalid_phone" => c = "sms"
    BY <1>6 DEF Send, Sender, LoggingSend, SesSend, SnsSend
  <2>2. NotificationsTypeOK' /\ UNCHANGED <<stored, ever, always>>
    BY <1>6, <2>1 DEF Send, Calls, After, Outcomes
  <2>3. /\ pc[d] = Sending(c) /\ pc'[d] = After(c) /\ Running(d)
        /\ \A e \in Dispatches \ {d} : pc'[e] = pc[e] /\ outcome'[e] = outcome[e]
    BY <1>6, <2>1 DEF Send, Sending, Running, Calls
  <2>4. /\ outcome'[d][c] = what
        /\ \A e \in Channels \ {c} : outcome'[d][e] = outcome[d][e]
    BY <2>1
  <2>5. \A e \in Channels \ {c} : e \in Attempted(d)' <=> e \in Attempted(d)
    BY <2>4 DEF Attempted
  <2>6. what # "invalid_phone" => c \in Attempted(d)'
    BY <2>4 DEF Attempted
  <2> QED BY <2>1, <2>2, <2>3, <2>4, <2>5, <2>6 DEF Before, Running, Attempted, Calls,
             Sending, After, Channels, AllowedNow, Allowed
<1> QED BY <1>1, <1>2, <1>3, <1>4, <1>5, <1>6

LEMMA CrashStep ==
    ASSUME NotificationsTypeOK, DispatchInv, Crash
    PROVE  NotificationsTypeOK' /\ DispatchInv' /\ UNCHANGED stored
<1>1. /\ UNCHANGED <<enabled, phone, stored, outcome, ever, always>>
      /\ \A d \in Dispatches : pc'[d] = pc[d] \/ pc'[d] = "lost"
  BY DEF Crash
<1>2. NotificationsTypeOK'
  BY DEF Crash, NotificationsTypeOK
<1>3. DispatchInv'
  BY <1>1 DEF DispatchInv, Before, Running, Attempted, Calls, Sending, AllowedNow, Allowed
<1> QED BY <1>1, <1>2, <1>3

LEMMA SetSettingStep ==
    ASSUME NotificationsTypeOK, DispatchInv, NEW c \in Channels, NEW v \in BOOLEAN,
           SetSetting(c, v)
    PROVE  /\ NotificationsTypeOK' /\ DispatchInv'
           /\ Allowed(c)' = v
           /\ \A e \in Channels \ {c} : Allowed(e)' = Allowed(e)
<1>1. stored' = [stored EXCEPT ![c] = v]
  BY DEF SetSetting
<1>2. NotificationsTypeOK'
  BY <1>1 DEF SetSetting, NotificationsTypeOK
<1>3. Allowed(c)' = v /\ \A e \in Channels \ {c} : Allowed(e)' = Allowed(e)
  BY <1>1, NotificationsAssumption DEF Allowed, NotificationsTypeOK, Default
<1>4. DispatchInv'
  <2> SUFFICES ASSUME NEW d \in Dispatches
               PROVE  /\ Before(d)' => Attempted(d)' = {}
                      /\ Running(d)' => always'[d] \subseteq AllowedNow' /\ AllowedNow' \subseteq ever'[d]
                      /\ Attempted(d)' \subseteq ever'[d]
                      /\ \A e \in Channels : pc'[d] = Sending(e) => e \in ever'[d]
                      /\ pc'[d] \in {"can_receive_sms", "send_sms", "done"} /\ "email" \in always'[d]
                           => "email" \in Attempted(d)'
                      /\ pc'[d] = "done" /\ "sms" \in always'[d] =>
                           "sms" \in Attempted(d)' \/ outcome'[d]["sms"] = "invalid_phone"
    BY DEF DispatchInv, Before, Running, Attempted, Sending
  <2>1. pc' = pc /\ outcome' = outcome /\ Attempted(d)' = Attempted(d) /\ Running(d)' = Running(d)
    BY DEF SetSetting, Attempted, Running
  <2>2. AllowedNow' = {e \in Channels : Allowed(e)'}
    BY DEF AllowedNow
  <2>3. /\ ever[d] \subseteq ever'[d] /\ always'[d] \subseteq always[d]
        /\ Running(d) => always'[d] \subseteq AllowedNow' /\ AllowedNow' \subseteq ever'[d]
    BY <2>2 DEF SetSetting, NotificationsTypeOK
  <2> QED BY <2>1, <2>3 DEF DispatchInv, Before
<1> QED BY <1>2, <1>3, <1>4

----------------------------------------------------------------------------
(* The page.                                                               *)

LEMMA DispatchStays ==
    ASSUME NotificationsTypeOK, DispatchInv, UNCHANGED dispatchVars
    PROVE  /\ NotificationsTypeOK' /\ DispatchInv'
           /\ Settings' = Settings /\ \A c \in Channels : Allowed(c)' = Allowed(c)
BY DEF NotificationsTypeOK, DispatchInv, dispatchVars, Before, Running, Attempted,
       Sending, AllowedNow, Allowed, Settings

LEMMA ToggleStep ==
    ASSUME IInv, NEW c \in Channels, Toggle(c)
    PROVE  IInv'
<1> DEFINE n == toggles + 1
           put == [channel |-> c, value |-> ~screen[c], previous |-> screen,
                   here |-> TRUE, reply |-> None]
<1> USE DEF IInv
<1>1. /\ UNCHANGED <<dispatchVars, mounted, timer, stray, confirmed, unsure>>
      /\ n \in Uses /\ toggles' = n
      /\ screen' = [screen EXCEPT ![c] = ~screen[c]]
      /\ saveState' = [saveState EXCEPT ![c] = "saving"]
      /\ call' = [call EXCEPT ![n] = put]
      /\ crossed' = (crossed \/ ~Quiet)
      /\ doubled' = (doubled \/ \E k \in Uses : Open(k, c))
  BY DEF Toggle, Open
<1>2. /\ NotificationsTypeOK' /\ DispatchInv'
      /\ Settings' = Settings /\ \A e \in Channels : Allowed(e)' = Allowed(e)
  BY <1>1, DispatchStays DEF TypeOK
<1>3. screen' \in [Channels -> BOOLEAN] /\ put \in Puts /\ put # None
  <2>1. (~screen[c]) \in BOOLEAN
    OBVIOUS
  <2>2. screen' \in [Channels -> BOOLEAN]
    BY <1>1, <2>1 DEF TypeOK
  <2>3. put \in Puts
    BY <2>1 DEF Puts, TypeOK
  <2> QED BY <2>2, <2>3, SettingsPageAssumption
<1>4. /\ ~UnderWay(n)
      /\ call'[n] = put /\ \A k \in Uses \ {n} : call'[k] = call[k]
      /\ call' \in [Uses -> Puts \cup {None}]
  <2>1. ~(n <= toggles)
    BY SettingsPageAssumption DEF TypeOK
  <2> QED BY <1>1, <1>3, <2>1 DEF PageInv, CallsInv, TypeOK
<1>5. TypeOK'
  <2>1. toggles' \in 0..MaxToggles
    BY <1>1, SettingsPageAssumption DEF Uses, TypeOK
  <2>2. crossed' \in BOOLEAN /\ doubled' \in BOOLEAN
    BY <1>1
  <2> QED BY <1>1, <1>2, <1>3, <1>4, <2>1, <2>2 DEF TypeOK
<1>6. CallsInv'
  <2>1. toggles <= toggles' /\ n <= toggles'
    BY <1>1, SettingsPageAssumption DEF TypeOK
  <2>2. \A k \in Uses : k <= toggles => k <= toggles'
    BY <1>1, <2>1, SettingsPageAssumption DEF TypeOK, Uses
  <2> QED BY <1>1, <1>4, <2>1, <2>2 DEF PageInv, CallsInv, UnderWay
<1>7. TogglesInv'
  <2> SUFFICES ASSUME ~doubled', ~unsure', NEW e \in Channels
               PROVE  /\ \A k, j \in Uses : Open(k, e)' /\ Open(j, e)' => k = j
                      /\ \A k \in Uses : Open(k, e)' /\ call'[k].reply # None =>
                             Allowed(e)' = call'[k].value
                      /\ (\A k \in Uses : Open(k, e)' => call'[k].reply = None) =>
                             confirmed'[e] \in {None, Allowed(e)'}
    BY DEF TogglesInv, Open, UnderWay
  <2>1. ~doubled /\ ~unsure /\ \A k \in Uses : ~Open(k, c)
    BY <1>1
  <2>2. CASE e = c
    BY <1>1, <1>2, <1>3, <1>4, <2>1, <2>2 DEF PageInv, TogglesInv, Open, UnderWay
  <2>3. CASE e # c
    <3>1. \A k \in Uses : Open(k, e)' = Open(k, e)
      BY <1>4, <2>3 DEF Open, UnderWay
    <3> QED BY <1>1, <1>2, <1>4, <2>1, <2>3, <3>1 DEF PageInv, TogglesInv, Open
  <2> QED BY <2>2, <2>3
<1>8. ScreenInv'
  <2> SUFFICES ASSUME ~crossed', ~unsure' PROVE ScreenInv'
    BY DEF ScreenInv
  <2>1. Quiet /\ screen = Settings
    BY <1>1 DEF PageInv, ScreenInv
  <2> QED BY <1>1, <1>2, <1>3, <1>4, <2>1 DEF ScreenInv, Quiet, UnderWay
<1> QED BY <1>2, <1>5, <1>6, <1>7, <1>8 DEF PageInv

(* The API answers the PUT of one use.                                     *)
LEMMA ApplyStep ==
    ASSUME IInv, NEW k \in Uses, Apply(k)
    PROVE  IInv'
<1> DEFINE c == call[k].channel
           v == call[k].value
<1> USE DEF IInv
<1>1. /\ UnderWay(k) /\ call[k].reply = None /\ call[k] \in Puts
      /\ SetSetting(c, v)
      /\ call' = [call EXCEPT ![k].reply = Settings']
      /\ UNCHANGED <<screen, mounted, saveState, timer, toggles, stray, confirmed,
                     crossed, doubled, unsure>>
  BY DEF Apply, UnderWay, TypeOK
<1>2. c \in Channels /\ v \in BOOLEAN
  BY <1>1 DEF Puts
<1>3. /\ NotificationsTypeOK' /\ DispatchInv'
      /\ Allowed(c)' = v
      /\ \A e \in Channels \ {c} : Allowed(e)' = Allowed(e)
  BY <1>1, <1>2, SetSettingStep DEF TypeOK
<1>4. Settings' \in [Channels -> BOOLEAN] /\ Settings' # None
  <2>1. Settings' \in [Channels -> BOOLEAN]
    BY <1>3, AllowedType DEF Allowed, Settings, NotificationsTypeOK, Default
  <2> QED BY <2>1, SettingsPageAssumption
<1>5. /\ call'[k] \in Puts /\ call'[k].channel = c /\ call'[k].value = v
      /\ call'[k].here = call[k].here /\ call'[k].reply = Settings'
      /\ \A j \in Uses \ {k} : call'[j] = call[j]
      /\ call' \in [Uses -> Puts \cup {None}]
  <2>1. call'[k] = [call[k] EXCEPT !.reply = Settings']
    BY <1>1 DEF TypeOK
  <2>2. call'[k] \in Puts
    BY <1>1, <1>4, <2>1 DEF Puts
  <2> QED BY <1>1, <2>1, <2>2 DEF TypeOK, Puts
<1>6. \A j \in Uses : UnderWay(j)' = UnderWay(j)
  BY <1>1, <1>5, SettingsPageAssumption DEF UnderWay
<1>7. TypeOK'
  BY <1>1, <1>3, <1>5 DEF TypeOK
<1>8. CallsInv'
  BY <1>1, <1>5, <1>6 DEF PageInv, CallsInv
<1>9. TogglesInv'
  <2> SUFFICES ASSUME ~doubled, ~unsure, NEW e \in Channels
               PROVE  /\ \A i, j \in Uses : Open(i, e)' /\ Open(j, e)' => i = j
                      /\ \A j \in Uses : Open(j, e)' /\ call'[j].reply # None =>
                             Allowed(e)' = call'[j].value
                      /\ (\A j \in Uses : Open(j, e)' => call'[j].reply = None) =>
                             confirmed'[e] \in {None, Allowed(e)'}
    BY <1>1 DEF TogglesInv, Open, UnderWay
  <2>1. \A j \in Uses : Open(j, e)' = Open(j, e)
    BY <1>5, <1>6 DEF Open, UnderWay
  <2>2. CASE e = c
    BY <1>1, <1>3, <1>4, <1>5, <2>1, <2>2 DEF PageInv, TogglesInv, Open
  <2>3. CASE e # c
    BY <1>1, <1>3, <1>5, <2>1, <2>3 DEF PageInv, TogglesInv, Open
  <2> QED BY <2>2, <2>3
<1>10. ScreenInv'
  BY <1>1, <1>4, <1>5, <1>6 DEF PageInv, ScreenInv, Quiet
<1> QED BY <1>3, <1>7, <1>8, <1>9, <1>10 DEF PageInv

LEMMA StrayStep ==
    ASSUME IInv, NEW c \in Channels, NEW v \in BOOLEAN, ApplyStray(c, v)
    PROVE  IInv'
<1> USE DEF IInv
<1>1. NotificationsTypeOK' /\ DispatchInv'
  BY SetSettingStep DEF ApplyStray, TypeOK
<1>2. TypeOK'
  BY <1>1 DEF ApplyStray, TypeOK
<1>3. PageInv'
  BY DEF ApplyStray, PageInv, CallsInv, TogglesInv, ScreenInv, UnderWay
<1> QED BY <1>1, <1>2, <1>3

(* The use k is over, one way or another.                                  *)
LEMMA OneLess ==
    ASSUME TypeOK, NEW k \in Uses, UnderWay(k), call' = [call EXCEPT ![k] = None]
    PROVE  /\ call' \in [Uses -> Puts \cup {None}]
           /\ ~UnderWay(k)'
           /\ \A j \in Uses \ {k} : call'[j] = call[j] /\ UnderWay(j)' = UnderWay(j)
           /\ call[k] \in Puts
BY DEF TypeOK, UnderWay

LEMMA SavedStep ==
    ASSUME IInv, NEW k \in Uses, Saved(k)
    PROVE  IInv'
<1> DEFINE c == call[k].channel
<1> USE DEF IInv
<1>1. /\ UnderWay(k) /\ call[k].reply # None
      /\ call' = [call EXCEPT ![k] = None]
      /\ UNCHANGED <<dispatchVars, mounted, toggles, stray, crossed, doubled, unsure>>
  BY DEF Saved
<1>2. /\ call' \in [Uses -> Puts \cup {None}]
      /\ ~UnderWay(k)'
      /\ \A j \in Uses \ {k} : call'[j] = call[j] /\ UnderWay(j)' = UnderWay(j)
      /\ call[k] \in Puts
  BY <1>1, OneLess
<1>3. /\ c \in Channels /\ call[k].value \in BOOLEAN
      /\ call[k].reply \in [Channels -> BOOLEAN]
  BY <1>1, <1>2 DEF Puts
<1>4. /\ NotificationsTypeOK' /\ DispatchInv'
      /\ Settings' = Settings /\ \A e \in Channels : Allowed(e)' = Allowed(e)
  BY <1>1, DispatchStays DEF TypeOK
<1>5. CASE call[k].here
  <2>1. /\ screen' = call[k].reply
        /\ saveState' = [saveState EXCEPT ![c] = "success"]
        /\ timer' = [timer EXCEPT ![c] = TRUE]
        /\ confirmed' = [confirmed EXCEPT ![c] = call[k].value]
    BY <1>5 DEF Saved
  <2>2. TypeOK'
    BY <1>1, <1>2, <1>3, <1>4, <2>1 DEF TypeOK
  <2>3. CallsInv'
    BY <1>1, <1>2 DEF PageInv, CallsInv
  <2>4. TogglesInv'
    <3> SUFFICES ASSUME ~doubled, ~unsure, NEW e \in Channels
                 PROVE  /\ \A i, j \in Uses : Open(i, e)' /\ Open(j, e)' => i = j
                        /\ \A j \in Uses : Open(j, e)' /\ call'[j].reply # None =>
                               Allowed(e)' = call'[j].value
                        /\ (\A j \in Uses : Open(j, e)' => call'[j].reply = None) =>
                               confirmed'[e] \in {None, Allowed(e)'}
      BY <1>1 DEF TogglesInv, Open, UnderWay
    <3>1. /\ ~Open(k, e)'
          /\ \A j \in Uses \ {k} : Open(j, e)' = Open(j, e)
      BY <1>2 DEF Open
    <3>2. CASE e = c
      <4>1. Open(k, e) /\ Allowed(e) = call[k].value
        BY <1>1, <3>2 DEF Open, PageInv, TogglesInv
      <4>2. confirmed'[e] = Allowed(e)'
        BY <1>3, <1>4, <2>1, <3>2, <4>1 DEF TypeOK
      <4> QED BY <1>2, <1>4, <3>1, <4>2 DEF PageInv, TogglesInv
    <3>3. CASE e # c
      <4>1. Open(k, e)' = Open(k, e)
        BY <3>1, <3>3 DEF Open
      <4>2. confirmed'[e] = confirmed[e]
        BY <2>1, <3>3 DEF TypeOK
      <4> QED BY <1>2, <1>4, <3>1, <4>1, <4>2 DEF PageInv, TogglesInv
    <3> QED BY <3>2, <3>3
  <2>5. ScreenInv'
    BY <1>1, <1>2, <1>4, <2>1 DEF PageInv, ScreenInv, Quiet
  <2> QED BY <1>4, <2>2, <2>3, <2>4, <2>5 DEF PageInv
<1>6. CASE ~call[k].here
  <2>1. UNCHANGED <<screen, saveState, timer, confirmed>> /\ unsure
    BY <1>1, <1>6 DEF Saved, PageInv, CallsInv
  <2>2. TypeOK'
    BY <1>1, <1>2, <1>4, <2>1 DEF TypeOK
  <2>3. PageInv'
    BY <1>1, <1>2, <2>1 DEF PageInv, CallsInv, TogglesInv, ScreenInv
  <2> QED BY <1>4, <2>2, <2>3
<1> QED BY <1>5, <1>6

(* Of a PUT that failed for the page nothing more comes, or its reply was  *)
(* lost, and something is unsure.                                          *)
LEMMA FailedStep ==
    ASSUME IInv, NEW k \in Uses, Failed(k)
    PROVE  IInv'
<1> DEFINE c == call[k].channel
<1> USE DEF IInv
<1>1. /\ UnderWay(k)
      /\ call' = [call EXCEPT ![k] = None]
      /\ UNCHANGED <<dispatchVars, mounted, timer, toggles, confirmed, crossed, doubled>>
      /\ GivenUp(call[k])
  BY DEF Failed
<1>2. /\ call' \in [Uses -> Puts \cup {None}]
      /\ ~UnderWay(k)'
      /\ \A j \in Uses \ {k} : call'[j] = call[j] /\ UnderWay(j)' = UnderWay(j)
      /\ call[k] \in Puts
  BY <1>1, OneLess
<1>3. /\ c \in Channels /\ call[k].value \in BOOLEAN
      /\ call[k].previous \in [Channels -> BOOLEAN]
  BY <1>2 DEF Puts
<1>4. /\ NotificationsTypeOK' /\ DispatchInv'
      /\ Settings' = Settings /\ \A e \in Channels : Allowed(e)' = Allowed(e)
  BY <1>1, DispatchStays DEF TypeOK
<1>5. /\ stray' \subseteq Channels \X BOOLEAN
      /\ unsure' \in BOOLEAN
      /\ unsure => unsure'
      /\ ~unsure' => call[k].reply = None
  <2>1. <<c, call[k].value>> \in Channels \X BOOLEAN
    BY <1>3
  <2>2. CASE stray' = stray /\ unsure' = (unsure \/ call[k].reply # None)
    BY <2>2 DEF TypeOK
  <2>3. CASE /\ call[k].reply = None
             /\ stray' = stray \cup {<<c, call[k].value>>}
             /\ UNCHANGED unsure
    BY <2>1, <2>3 DEF TypeOK
  <2> QED BY <1>1, <2>2, <2>3 DEF GivenUp
<1>6. /\ screen' \in [Channels -> BOOLEAN]
      /\ saveState' \in [Channels -> {"idle", "saving", "success", "error"}]
      /\ ~unsure' => screen' = call[k].previous
  BY <1>1, <1>3, <1>5 DEF Failed, TypeOK, PageInv, CallsInv
<1>7. TypeOK'
  BY <1>1, <1>2, <1>4, <1>5, <1>6 DEF TypeOK
<1>8. CallsInv'
  BY <1>1, <1>2, <1>5 DEF PageInv, CallsInv
<1>9. TogglesInv'
  <2> SUFFICES ASSUME ~doubled', ~unsure', NEW e \in Channels
               PROVE  /\ \A i, j \in Uses : Open(i, e)' /\ Open(j, e)' => i = j
                      /\ \A j \in Uses : Open(j, e)' /\ call'[j].reply # None =>
                             Allowed(e)' = call'[j].value
                      /\ (\A j \in Uses : Open(j, e)' => call'[j].reply = None) =>
                             confirmed'[e] \in {None, Allowed(e)'}
    BY DEF TogglesInv, Open, UnderWay
  <2>1. /\ ~Open(k, e)'
        /\ \A j \in Uses \ {k} : Open(j, e)' = Open(j, e)
    BY <1>2 DEF Open
  <2>2. ~doubled /\ ~unsure /\ call[k].reply = None
    BY <1>1, <1>5
  <2> QED BY <1>1, <1>2, <1>4, <2>1, <2>2 DEF PageInv, TogglesInv
<1>10. ScreenInv'
  BY <1>1, <1>2, <1>4, <1>5, <1>6 DEF PageInv, ScreenInv, Quiet
<1> QED BY <1>4, <1>7, <1>8, <1>9, <1>10 DEF PageInv

LEMMA LeaveStep ==
    ASSUME IInv, Leave
    PROVE  IInv'
<1> USE DEF IInv
<1>1. /\ UNCHANGED <<dispatchVars, screen, saveState, toggles, stray, confirmed,
                     crossed, doubled>>
      /\ mounted' = FALSE /\ timer' = [c \in Channels |-> FALSE]
      /\ call' = [k \in Uses |->
             IF call[k] = None THEN None ELSE [call[k] EXCEPT !.here = FALSE]]
      /\ unsure' = (unsure \/ ~Quiet)
  BY DEF Leave
<1>2. /\ NotificationsTypeOK' /\ DispatchInv'
      /\ Settings' = Settings /\ \A e \in Channels : Allowed(e)' = Allowed(e)
  BY <1>1, DispatchStays DEF TypeOK
<1>3. /\ call' \in [Uses -> Puts \cup {None}]
      /\ \A k \in Uses : call[k] = None => call'[k] = None
  BY <1>1 DEF TypeOK, Puts
<1>4. TypeOK'
  BY <1>1, <1>2, <1>3 DEF TypeOK
<1>5. CASE Quiet
  <2>1. \A k \in Uses : ~UnderWay(k) /\ ~UnderWay(k)'
    BY <1>3, <1>5 DEF Quiet, UnderWay
  <2>2. CallsInv' /\ ScreenInv'
    BY <1>1, <1>2, <1>5, <2>1 DEF PageInv, CallsInv, ScreenInv, Quiet
  <2>3. \A k \in Uses, c \in Channels : ~Open(k, c) /\ ~Open(k, c)'
    BY <2>1 DEF Open
  <2>4. TogglesInv'
    BY <1>1, <1>2, <1>5, <2>3 DEF PageInv, TogglesInv
  <2> QED BY <1>2, <1>4, <2>2, <2>4 DEF PageInv
<1>6. CASE ~Quiet
  <2>1. unsure'
    BY <1>1, <1>6
  <2>2. \A k \in Uses : UnderWay(k)' => UnderWay(k)
    BY <1>3 DEF UnderWay
  <2> QED BY <1>1, <1>2, <1>4, <2>1, <2>2 DEF PageInv, CallsInv, TogglesInv, ScreenInv
<1> QED BY <1>2, <1>4, <1>5, <1>6

LEMMA TimerStep ==
    ASSUME IInv, (\E c \in Channels : TimerFires(c)) \/ Return
    PROVE  IInv'
<1> USE DEF IInv
<1>1. UNCHANGED <<dispatchVars, screen, toggles, call, stray, confirmed, crossed,
                  doubled, unsure>>
  BY DEF TimerFires, Return
<1>2. /\ NotificationsTypeOK' /\ DispatchInv'
      /\ Settings' = Settings /\ \A e \in Channels : Allowed(e)' = Allowed(e)
  BY <1>1, DispatchStays DEF TypeOK
<1>3. /\ mounted' \in BOOLEAN /\ timer' \in [Channels -> BOOLEAN]
      /\ saveState' \in [Channels -> {"idle", "saving", "success", "error"}]
  BY DEF TimerFires, Return, TypeOK
<1>4. TypeOK'
  BY <1>1, <1>2, <1>3 DEF TypeOK
<1>5. PageInv'
  BY <1>1, <1>2 DEF PageInv, CallsInv, TogglesInv, ScreenInv, Quiet, UnderWay, Open
<1> QED BY <1>2, <1>4, <1>5

LEMMA NextIInv == IInv /\ [Next]_vars => IInv'
<1> SUFFICES ASSUME IInv, [Next]_vars PROVE IInv'
  OBVIOUS
<1>1. CASE DispatchNext /\ UNCHANGED webVars
  <2>1. NotificationsTypeOK' /\ DispatchInv' /\ UNCHANGED stored
    BY <1>1, DispatchStep, CrashStep DEF DispatchNext, IInv, TypeOK
  <2>2. PageInv'
    BY <1>1, <2>1, PageStays DEF IInv
  <2>3. TypeOK'
    BY <1>1, <2>1, WebTypeStays DEF IInv
  <2> QED BY <2>1, <2>2, <2>3 DEF IInv
<1>2. CASE WebNext
  BY <1>2, ToggleStep, ApplyStep, StrayStep, SavedStep, FailedStep, LeaveStep, TimerStep
     DEF WebNext
<1>3. CASE UNCHANGED vars
  <2>1. UNCHANGED dispatchVars /\ UNCHANGED webVars /\ UNCHANGED stored
    BY <1>3 DEF vars, dispatchVars
  <2>2. PageInv'
    BY <2>1, PageStays DEF IInv
  <2>3. NotificationsTypeOK' /\ DispatchInv'
    BY <2>1, DispatchStays DEF IInv, TypeOK
  <2>4. TypeOK'
    BY <2>1, <2>3, WebTypeStays DEF IInv
  <2> QED BY <2>2, <2>3, <2>4 DEF IInv
<1> QED BY <1>1, <1>2, <1>3 DEF Next

LEMMA Invariance == Spec => []IInv
BY InitIInv, NextIInv, PTL DEF Spec

----------------------------------------------------------------------------
(* The variables of dispatches and page keep the shapes the model gives    *)
(* them.                                                                   *)
THEOREM TypeCorrect == Spec => []TypeOK
BY Invariance, PTL DEF IInv

(* A channel that was off from the start of a dispatch to its end gets no  *)
(* message.                                                                *)
THEOREM OptOutIsRespected == Spec => []OptOutRespected
<1>1. IInv => OptOutRespected
  BY DEF IInv, DispatchInv, OptOutRespected
<1> QED BY <1>1, Invariance, PTL

(* A dispatch tries every channel that was on all the while, whatever the  *)
(* provider does to the other one.                                         *)
THEOREM ChannelsAreIsolated == Spec => []ChannelIsolation
<1>1. IInv => ChannelIsolation
  BY DEF IInv, DispatchInv, ChannelIsolation, TypeOK, NotificationsTypeOK, Channels
<1> QED BY <1>1, Invariance, PTL

(* What the page was told is saved stays saved, however the uses of the    *)
(* two switches cross.                                                     *)
THEOREM SwitchesAreIndependent == Spec => []TogglesIndependent
<1>1. IInv => TogglesIndependent
  BY DEF IInv, PageInv, TogglesInv, TogglesIndependent, Open
<1> QED BY <1>1, Invariance, PTL

(* Once nothing is under way the switches show what is stored.             *)
THEOREM ScreenSettles == Spec => []SettledScreen
BY Invariance, PTL DEF IInv, PageInv, ScreenInv, SettledScreen
=============================================================================
