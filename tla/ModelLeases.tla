---------------------------- MODULE ModelLeases ----------------------------
(***************************************************************************)
(* What the server promises about the memory of a loaded model, with the   *)
(* counting, the locking and the waiting left out (internal/server/        *)
(* server.go, the comments on lease and on Server.cur): a model is handed  *)
(* to requests only while it is the resident one, nobody but its last user *)
(* frees it, and its memory is freed at the very moment it is neither      *)
(* resident nor used - not before, and not later.                          *)
(***************************************************************************)
CONSTANTS
    Reqs,       \* requests
    Engines,    \* loaded copies of a model
    NoEngine    \* no copy

VARIABLES
    resident,   \* the copy handed to new requests, or NoEngine
    users,      \* who generates on each copy
    open        \* the copies that occupy memory

lvars == <<resident, users, open>>

Init ==
    /\ resident = NoEngine
    /\ users = [e \in Engines |-> {}]
    /\ open = {}

\* t loads a copy and is its first user; nothing else is resident.
Load(t, e) ==
    /\ resident = NoEngine
    /\ e \notin open
    /\ resident' = e
    /\ users' = [users EXCEPT ![e] = {t}]
    /\ open' = open \cup {e}

\* t is handed the resident copy.
Join(t, e) ==
    /\ resident = e
    /\ e \in Engines
    /\ users' = [users EXCEPT ![e] = @ \cup {t}]
    /\ UNCHANGED <<resident, open>>

\* t is done with its copy; the last user of a copy no longer resident frees it.
Leave(t, e) ==
    /\ t \in users[e]
    /\ users' = [users EXCEPT ![e] = @ \ {t}]
    /\ open' = IF resident # e /\ users[e] = {t} THEN open \ {e} ELSE open
    /\ UNCHANGED resident

\* The resident copy is let go of; with no user its memory is free at once.
Retire(e) ==
    /\ resident = e
    /\ e \in Engines
    /\ resident' = NoEngine
    /\ open' = IF users[e] = {} THEN open \ {e} ELSE open
    /\ UNCHANGED users

Next ==
    \E e \in Engines :
        \/ Retire(e)
        \/ \E t \in Reqs : Load(t, e) \/ Join(t, e) \/ Leave(t, e)

Spec == Init /\ [][Next]_lvars
=============================================================================
