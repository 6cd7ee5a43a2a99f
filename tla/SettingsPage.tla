----------------------------- MODULE SettingsPage -----------------------------
(***************************************************************************)
(* The page where the user sets the preferences of module Notifications:   *)
(* two switches, drawn optimistically from the context's user, each with   *)
(* a request under way and a timer.  Requests and replies of the two       *)
(* switches overtake each other; the user may leave the page and return.   *)
(***************************************************************************)
EXTENDS Notifications

CONSTANT MaxToggles  \* bound: how many times a switch is used

(* A PUT under way: what it sets, what the screen showed before, whether   *)
(* the page is still there for the reply, and the reply.                   *)
Puts == [channel : Channels, value : BOOLEAN, previous : [Channels -> BOOLEAN],
         here : BOOLEAN, reply : {None} \cup [Channels -> BOOLEAN]]

ASSUME SettingsPageAssumption ==
    /\ MaxToggles \in Nat
    /\ None \notin Puts \cup [Channels -> BOOLEAN]

VARIABLES
    screen,          \* user.settings in the context
    mounted,         \* is the page open?
    saveState,       \* per switch
    timer,           \* per switch: the timer that ends "success" is running
    toggles,         \* how many times a switch was used
    call,            \* the PUT of each use, until the page sees its end
    stray,           \* PUTs given up that may still arrive
    confirmed,       \* history: the last value the page was told is saved
    crossed,         \* history: a switch was used with some PUT under way
    doubled,         \* history: ... with a PUT of the same switch under way
    unsure           \* history: a reply was lost or nobody was there for it

webVars == <<screen, mounted, saveState, timer, toggles, call,
             stray, confirmed, crossed, doubled, unsure>>
vars == <<dispatchVars, webVars>>

Uses == 1..MaxToggles
UnderWay(k) == call[k] # None
Quiet == \A k \in Uses : ~UnderWay(k)

Init ==
    /\ NotificationsInit
    /\ screen = Settings
    /\ mounted = TRUE
    /\ saveState = [c \in Channels |-> "idle"]
    /\ timer = [c \in Channels |-> FALSE]
    /\ toggles = 0
    /\ call = [k \in Uses |-> None]
    /\ stray = {}
    /\ confirmed = [c \in Channels |-> None]
    /\ crossed = FALSE /\ doubled = FALSE /\ unsure = FALSE

----------------------------------------------------------------------------
(* handleToggle, up to its await.                                          *)
Toggle(c) ==
    /\ mounted /\ saveState[c] # "saving"
    /\ toggles + 1 \in Uses
    /\ toggles' = toggles + 1
    /\ screen' = [screen EXCEPT ![c] = ~screen[c]]
    /\ saveState' = [saveState EXCEPT ![c] = "saving"]
    /\ call' = [call EXCEPT ![toggles + 1] =
           [channel |-> c, value |-> ~screen[c], previous |-> screen,
            here |-> TRUE, reply |-> None]]
    /\ crossed' = (crossed \/ ~Quiet)
    /\ doubled' = (doubled \/ \E k \in Uses : UnderWay(k) /\ call[k].channel = c)
    /\ UNCHANGED <<dispatchVars, mounted, timer, stray, confirmed, unsure>>

(* The API saves the setting and answers with both of them.                *)
Apply(k) ==
    /\ UnderWay(k) /\ call[k].reply = None
    /\ SetSetting(call[k].channel, call[k].value)
    /\ call' = [call EXCEPT ![k].reply = Settings']
    /\ UNCHANGED <<screen, mounted, saveState, timer, toggles, stray, confirmed,
                   crossed, doubled, unsure>>

ApplyStray(c, v) ==
    /\ <<c, v>> \in stray
    /\ SetSetting(c, v)
    /\ stray' = stray \ {<<c, v>>}
    /\ unsure' = TRUE
    /\ UNCHANGED <<screen, mounted, saveState, timer, toggles, call, confirmed,
                   crossed, doubled>>

(* The rest of handleToggle: a page that was left changes nothing.         *)
Saved(k) ==
    /\ UnderWay(k) /\ call[k].reply # None
    /\ call' = [call EXCEPT ![k] = None]
    /\ IF call[k].here
       THEN LET c == call[k].channel
            IN /\ screen' = call[k].reply
               /\ saveState' = [saveState EXCEPT ![c] = "success"]
               /\ timer' = [timer EXCEPT ![c] = TRUE]
               /\ confirmed' = [confirmed EXCEPT ![c] = call[k].value]
       ELSE UNCHANGED <<screen, saveState, timer, confirmed>>
    /\ UNCHANGED <<dispatchVars, mounted, toggles, stray, crossed, doubled,
                   unsure>>

(* A PUT that fails with no reply may have been saved, or be saved yet.    *)
GivenUp(put) ==
    \/ stray' = stray /\ unsure' = (unsure \/ put.reply # None)
    \/ /\ put.reply = None
       /\ stray' = stray \cup {<<put.channel, put.value>>}
       /\ UNCHANGED unsure

BugNoRollback(k) ==
    /\ UnderWay(k)
    /\ call' = [call EXCEPT ![k] = None]
    /\ GivenUp(call[k])
    /\ IF call[k].here
       THEN saveState' = [saveState EXCEPT ![call[k].channel] = "error"]
       ELSE UNCHANGED saveState
    /\ UNCHANGED <<dispatchVars, screen, mounted, timer, toggles, confirmed,
                   crossed, doubled>>

(* The call fails: refused, or its reply lost, or given up.                *)
Failed(k) ==
    /\ UnderWay(k)
    /\ call' = [call EXCEPT ![k] = None]
    /\ GivenUp(call[k])
    /\ IF call[k].here
       THEN /\ screen' = call[k].previous
            /\ saveState' = [saveState EXCEPT ![call[k].channel] = "error"]
       ELSE UNCHANGED <<screen, saveState>>
    /\ UNCHANGED <<dispatchVars, mounted, timer, toggles, confirmed, crossed,
                   doubled>>

(* scheduleIdle: the timer makes the switch idle, and usable, even while   *)
(* a later PUT of that switch is under way.                                *)
TimerFires(c) ==
    /\ timer[c]
    /\ timer' = [timer EXCEPT ![c] = FALSE]
    /\ saveState' = [saveState EXCEPT ![c] = "idle"]
    /\ UNCHANGED <<dispatchVars, screen, mounted, toggles, call, stray,
                   confirmed, crossed, doubled, unsure>>

Leave ==
    /\ mounted
    /\ mounted' = FALSE
    /\ timer' = [c \in Channels |-> FALSE]
    /\ call' = [k \in Uses |->
           IF call[k] = None THEN None ELSE [call[k] EXCEPT !.here = FALSE]]
    /\ unsure' = (unsure \/ ~Quiet)
    /\ UNCHANGED <<dispatchVars, screen, saveState, toggles, stray, confirmed,
                   crossed, doubled>>

(* The page again, with its own state, on the context it left behind.      *)
Return ==
    /\ ~mounted
    /\ mounted' = TRUE
    /\ saveState' = [c \in Channels |-> "idle"]
    /\ UNCHANGED <<dispatchVars, screen, timer, toggles, call, stray,
                   confirmed, crossed, doubled, unsure>>

WebNext ==
    \/ Leave \/ Return
    \/ \E c \in Channels :
           Toggle(c) \/ TimerFires(c) \/ \E v \in BOOLEAN : ApplyStray(c, v)
    \/ \E k \in Uses : Apply(k) \/ Saved(k) \/ Failed(k)

Next == (DispatchNext /\ UNCHANGED webVars) \/ WebNext

Spec == Init /\ [][Next]_vars

----------------------------------------------------------------------------
(* Once nothing is under way the switches show what is stored, though some *)
(* uses failed and were rolled back: unless two uses crossed, a reply was  *)
(* lost, or the page was left too early (handleToggle puts back the whole  *)
(* settings it saw, and takes over the whole settings of each reply).      *)
SettledScreen ==
    Quiet /\ ~crossed /\ ~unsure => screen = Settings

(* What the page was told is saved stays saved, however the uses of the    *)
(* two switches cross and whatever fails, short of a PUT nobody saw the    *)
(* end of or two at once of one switch ("a concurrent SMS-toggle and       *)
(* email-toggle never overwrite each other").                              *)
TogglesIndependent ==
    ~doubled /\ ~unsure =>
        \A c \in Channels :
            \/ confirmed[c] = None
            \/ Allowed(c) = confirmed[c]
            \/ \E k \in Uses : UnderWay(k) /\ call[k].channel = c

TypeOK ==
    /\ NotificationsTypeOK
    /\ screen \in [Channels -> BOOLEAN]
    /\ mounted \in BOOLEAN
    /\ saveState \in [Channels -> {"idle", "saving", "success", "error"}]
    /\ timer \in [Channels -> BOOLEAN]
    /\ toggles \in 0..MaxToggles
    /\ call \in [Uses -> Puts \cup {None}]
    /\ stray \subseteq Channels \X BOOLEAN
    /\ confirmed \in [Channels -> BOOLEAN \cup {None}]
    /\ crossed \in BOOLEAN /\ doubled \in BOOLEAN /\ unsure \in BOOLEAN
=============================================================================
