---------------------------- MODULE UniqueRegister ----------------------------
(***************************************************************************)
(* What a collection with several unique keys promises its callers.  Each  *)
(* caller asks for one document to be stored and may ask again.  A caller  *)
(* is told "created" at most once and only if the document is there, is    *)
(* refused only by naming a key that is really taken, or never learns what *)
(* became of its request.  Stored documents stay and no two of them share  *)
(* a key.  Fund creation and user registration implement this module.      *)
(***************************************************************************)
CONSTANTS
    Callers,
    Docs,         \* the documents that may be asked for: records over Keys
    Keys,         \* the unique fields
    None

VARIABLES
    stored,       \* the collection
    asked,        \* the document each caller asks for, or None
    answer        \* the last answer of each caller, or None

vars == <<stored, asked, answer>>

Clash(d, e) == \E k \in Keys : d[k] = e[k]

Fits(d) == \A e \in stored : ~Clash(d, e)

Told(c, a) == answer' = [answer EXCEPT ![c] = a]

Init ==
    /\ stored = {}
    /\ asked \in [Callers -> Docs \cup {None}]
    /\ answer = [c \in Callers |-> None]

Ask(c) ==
    /\ asked[c] = None
    /\ \E d \in Docs : asked' = [asked EXCEPT ![c] = d]
    /\ UNCHANGED <<stored, answer>>

Add(c) ==
    /\ asked[c] # None
    /\ Fits(asked[c])
    /\ stored' = stored \cup {asked[c]}
    /\ Told(c, "created") \/ Told(c, "unknown")
    /\ UNCHANGED asked

Refuse(c) ==
    /\ asked[c] # None
    /\ \E k \in Keys : (\E e \in stored : e[k] = asked[c][k]) /\ Told(c, k)
    /\ UNCHANGED <<stored, asked>>

Abandon(lost) ==
    /\ answer' = [c \in Callers |-> IF c \in lost THEN "unknown" ELSE answer[c]]
    /\ UNCHANGED <<stored, asked>>

Next ==
    \/ \E c \in Callers : Ask(c) \/ Add(c) \/ Refuse(c)
    \/ \E lost \in SUBSET Callers : Abandon(lost)

Spec == Init /\ [][Next]_vars
=============================================================================
