---------------------------- MODULE Notifications -----------------------------
(***************************************************************************)
(* What follows a committed subscription or cancellation of one user: the  *)
(* background task, the service's dispatch over the two channels, and the  *)
(* stored preferences it asks for before each of them.  The preferences    *)
(* may change, and the process may die, between any two steps.             *)
(***************************************************************************)
EXTENDS Naturals

CONSTANTS
    Dispatches,      \* the committed operations that notify the user
    Provider,        \* NOTIFICATIONS_PROVIDER
    None

Channels == {"email", "sms"}
Outcomes == {"disabled", "invalid_phone", "sent", "failed", "unexpected"}

ASSUME NotificationsAssumption ==
    /\ Provider \in {"log", "aws"}
    /\ None \notin BOOLEAN /\ None \notin Outcomes

VARIABLES
    enabled,         \* NOTIFICATIONS_ENABLED
    phone,           \* does the profile's number normalise to E.164?
    stored,          \* users.settings: a legacy document may lack a key
    pc,              \* the call each dispatch makes next, or how it ended
    outcome,         \* what each dispatch logs of each channel
    ever, always     \* history: channels allowed at some time, and at every
                     \* time, since the dispatch began

dispatchVars == <<enabled, phone, stored, pc, outcome, ever, always>>

Calls == {"get_profile", "can_receive_email", "send_email",
          "can_receive_sms", "send_sms"}

(* _settings_from_doc: a missing key counts as its default.                *)
Default(c) == c = "email"

Allowed(c) == IF stored[c] = None THEN Default(c) ELSE stored[c]
Settings == [c \in Channels |-> Allowed(c)]
AllowedNow == {c \in Channels : Allowed(c)}

Running(d) == pc[d] \in Calls

NotificationsInit ==
    /\ enabled \in BOOLEAN
    /\ phone \in BOOLEAN
    /\ \/ stored \in [Channels -> BOOLEAN]
       \/ stored = [c \in Channels |-> None]
    /\ pc = [d \in Dispatches |-> "uncommitted"]
    /\ outcome = [d \in Dispatches |-> [c \in Channels |-> None]]
    /\ ever = [d \in Dispatches |-> {}]
    /\ always = [d \in Dispatches |-> {}]

----------------------------------------------------------------------------
(* The whole sub-document is set: the other key is gone.                  *)
BugWholeDocument(c, v) ==
    /\ stored' = [e \in Channels |-> IF e = c THEN v ELSE None]
    /\ UNCHANGED <<enabled, phone, pc, outcome, ever, always>>

(* _set_setting: one find_one_and_update that sets one nested key.         *)
SetSetting(c, v) ==
    /\ stored' = [stored EXCEPT ![c] = v]
    /\ ever' = [d \in Dispatches |->
           IF Running(d) THEN ever[d] \cup {e \in Channels : Allowed(e)'}
                         ELSE ever[d]]
    /\ always' = [d \in Dispatches |->
           IF Running(d) THEN always[d] \cap {e \in Channels : Allowed(e)'}
                         ELSE always[d]]
    /\ UNCHANGED <<enabled, phone, pc, outcome>>

----------------------------------------------------------------------------
Goto(d, label) == pc' = [pc EXCEPT ![d] = label]

Log(d, c, what) == outcome' = [outcome EXCEPT ![d][c] = what]

Asking(c)  == IF c = "email" THEN "can_receive_email" ELSE "can_receive_sms"
Sending(c) == IF c = "email" THEN "send_email" ELSE "send_sms"
After(c)   == IF c = "email" THEN "can_receive_sms" ELSE "done"

(* The route answers after the commit and leaves the dispatch to a task.   *)
Commit(d) ==
    /\ pc[d] = "uncommitted"
    /\ Goto(d, "queued")
    /\ UNCHANGED <<enabled, phone, stored, outcome, ever, always>>

(* The task begins: with the master switch off it ends at once.            *)
Notify(d) ==
    /\ pc[d] = "queued"
    /\ Goto(d, IF enabled THEN "get_profile" ELSE "skipped")
    /\ ever' = [ever EXCEPT ![d] = AllowedNow]
    /\ always' = [always EXCEPT ![d] = AllowedNow]
    /\ UNCHANGED <<enabled, phone, stored, outcome>>

GetProfile(d) ==
    /\ pc[d] = "get_profile"
    /\ Goto(d, "can_receive_email")
    /\ UNCHANGED <<enabled, phone, stored, outcome, ever, always>>

BugNoCheck(d, c) ==
    /\ pc[d] = Asking(c)
    /\ Goto(d, Sending(c))
    /\ UNCHANGED <<enabled, phone, stored, outcome, ever, always>>

(* can_receive_email, can_receive_sms: read when the channel's turn comes. *)
CanReceive(d, c) ==
    /\ pc[d] = Asking(c)
    /\ IF Allowed(c)
       THEN Goto(d, Sending(c)) /\ UNCHANGED outcome
       ELSE Goto(d, After(c)) /\ Log(d, c, "disabled")
    /\ UNCHANGED <<enabled, phone, stored, ever, always>>

(* What becomes of a message handed to an adapter: the logging one never   *)
(* raises; SES and SNS may refuse it or be out of reach, which their       *)
(* adapters turn into a NotificationDeliveryError, or raise what nobody    *)
(* expects.                                                                *)
LoggingSend == {"sent"}
SesSend     == {"sent", "failed", "unexpected"}
SnsSend     == {"sent", "failed", "unexpected"}

(* get_email_sender, get_sms_sender.                                       *)
Sender(c) ==
    IF Provider = "log" THEN LoggingSend
    ELSE IF c = "email" THEN SesSend ELSE SnsSend

(* One try block around both channels: what nobody expects ends it all.    *)
BugOneTryBlock(d, c) ==
    /\ pc[d] = Sending(c)
    /\ \E what \in Sender(c) :
           /\ Log(d, c, what)
           /\ Goto(d, IF what = "unexpected" THEN "done" ELSE After(c))
    /\ UNCHANGED <<enabled, phone, stored, ever, always>>

(* Whatever becomes of the message is logged, and the dispatch goes on.    *)
Send(d, c) ==
    /\ pc[d] = Sending(c)
    /\ IF c = "sms" /\ ~phone
       THEN Log(d, c, "invalid_phone")
       ELSE \E what \in Sender(c) : Log(d, c, what)
    /\ Goto(d, After(c))
    /\ UNCHANGED <<enabled, phone, stored, ever, always>>

(* A read of the database fails: only the bridge catches it.               *)
Swallow(d) ==
    /\ pc[d] \in {"get_profile", "can_receive_email", "can_receive_sms"}
    /\ Goto(d, "swallowed")
    /\ UNCHANGED <<enabled, phone, stored, outcome, ever, always>>

(* The process dies: nothing remembers the tasks it had.                   *)
Crash ==
    /\ \E d \in Dispatches : pc[d] = "queued" \/ Running(d)
    /\ pc' = [d \in Dispatches |->
                 IF pc[d] = "queued" \/ Running(d) THEN "lost" ELSE pc[d]]
    /\ UNCHANGED <<enabled, phone, stored, outcome, ever, always>>

DispatchNext ==
    \/ Crash
    \/ \E d \in Dispatches :
           \/ Commit(d) \/ Notify(d) \/ GetProfile(d) \/ Swallow(d)
           \/ \E c \in Channels : CanReceive(d, c) \/ Send(d, c)

----------------------------------------------------------------------------
Attempted(d) == {c \in Channels : outcome[d][c] \in {"sent", "failed", "unexpected"}}

(* A provider's failure on one channel is no business of the other: a      *)
(* dispatch that the service returns from has tried every channel its user *)
(* allowed all the while, whatever became of the other one; but for a      *)
(* number that is no phone number (_dispatch: "a SMS failure never blocks  *)
(* an email send and vice versa").  A dispatch that a database error in    *)
(* get_profile or a preference check ends (Swallow) is excepted: the error *)
(* of one channel's check drops the other channel too, and is caught only  *)
(* by the caller, contrary to the module docstring (service.py).           *)
ChannelIsolation ==
    \A d \in Dispatches : pc[d] = "done" =>
        \A c \in always[d] :
            c \in Attempted(d) \/ (c = "sms" /\ outcome[d][c] = "invalid_phone")

(* No message goes out on a channel that was off from the start of the     *)
(* dispatch to its end, with preferences written meanwhile on either.      *)
OptOutRespected ==
    \A d \in Dispatches : Attempted(d) \subseteq ever[d]

NotificationsTypeOK ==
    /\ enabled \in BOOLEAN /\ phone \in BOOLEAN
    /\ stored \in [Channels -> BOOLEAN \cup {None}]
    /\ pc \in [Dispatches -> Calls \cup
                   {"uncommitted", "queued", "skipped", "done", "swallowed", "lost"}]
    /\ outcome \in [Dispatches -> [Channels -> Outcomes \cup {None}]]
    /\ ever \in [Dispatches -> SUBSET Channels]
    /\ always \in [Dispatches -> SUBSET Channels]
=============================================================================
