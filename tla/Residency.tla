----------------------------- MODULE Residency -----------------------------
(***************************************************************************)
(* Who may free a loaded model, and when: the server's one resident model, *)
(* its reference count, the swap to another model, the unload a client     *)
(* asks for, the idle clock, and the reload of a model whose backend       *)
(* failed (internal/server: server.go, keepalive.go, retry.go).            *)
(*                                                                         *)
(* Each request is a goroutine of its own; a critical section of           *)
(* Server.mu is one action.  Cond.Wait gives the mutex up in the middle of *)
(* a section, so a section that waits is two actions: the part before      *)
(* puts the request in `asleep`, every Broadcast empties `asleep`, and the *)
(* request then tries its condition again.                                 *)
(***************************************************************************)
EXTENDS Naturals, FiniteSets

CONSTANTS
    Reqs,            \* requests, one goroutine each
    Engines,         \* identities of loaded copies; reused once forgotten
    Paths,           \* model files
    NoEngine,        \* a nil lease
    Kinds,           \* what requests ask: subset of chat, load, unload, close, embed
    Wishes,          \* the keep_alive values they carry
    DefaultForever,  \* the server runs with -keepalive 0
    MayBreak         \* the backend may fail fatally

ASSUME ReqsFinite == IsFiniteSet(Reqs)
ASSUME NoEngineAssumption == NoEngine \notin Engines
ASSUME ModesAssumption ==
    /\ Kinds \subseteq {"chat", "load", "unload", "close", "embed"}
    /\ Wishes \subseteq {"silent", "none", "forever", "brief"}
    /\ DefaultForever \in BOOLEAN
    /\ MayBreak \in BOOLEAN

\* How many replacement models one request loads (retry.go).
maxReloads == 2

(***************************************************************************)
(* A request carries a wish for the idle clock: "forever" (negative),      *)
(* "brief" (a duration), "none" (its dialect has keep_alive and it named   *)
(* nothing), or "silent" (its dialect has no keep_alive, and the handler   *)
(* records nothing).  One for the embedding model is here for its lock:    *)
(* which model it names and what becomes of it is Embedding's.             *)
(***************************************************************************)
Request ==
    [kind : Kinds \cap {"chat"}, path : Paths, wish : Wishes]
        \cup [kind : Kinds \cap {"load"}, path : Paths, wish : Wishes \ {"silent"}]
        \cup [kind : Kinds \cap {"unload", "close"}, path : Paths, wish : {"none"}]
        \cup [kind : Kinds \cap {"embed"}, path : {CHOOSE p \in Paths : TRUE}, wish : {"none"}]

ASSUME RequestAssumption == Paths # {} /\ Request # {}

VARIABLES
    \* Server, all guarded by Server.mu
    cur,        \* the resident copy
    swapping,   \* a load or an unload is under way
    idle,       \* the copy whose unload countdown runs, or NoEngine
    fired,      \* copies whose countdown ran out: callbacks waiting for the mutex
    asleep,     \* requests in cond.Wait
    \* lease and engine, by copy
    open,       \* copies that occupy memory: opened and not closed
    path,       \* the file a copy was loaded from
    refs,       \* its holders, the server among them
    keepAlive,  \* the wish recorded for its idle clock
    health,     \* ok, then failing, broken (Broken() is true), drained
    \* the request's goroutine
    pc, req,
    held,       \* the copy it may use
    old,        \* the copy retireLocked is waiting for it to be free of users
    reloads     \* replacements it has loaded

server == <<cur, swapping, idle, fired, asleep>>
lease  == <<open, path, refs, keepAlive, health>>
local  == <<pc, req, held, old, reloads>>
vars   == <<cur, swapping, idle, fired, asleep, open, path, refs, keepAlive, health,
            pc, req, held, old, reloads>>

\* Waiting in retireLocked, by what the section does once the wait is over.
Retiring == {"retireBroken", "retireSwap", "retireUnload", "retireClose"}
\* Inside a section that set `swapping`.
Swapping == {"loading", "retireSwap", "retireUnload"}

PCs == {"idle", "acquire", "unload", "unloadEmb", "close", "embed", "embedding", "loading",
        "holding", "running", "queued", "lost", "note", "release", "done"} \cup Retiring

Init ==
    /\ cur = NoEngine /\ swapping = FALSE /\ idle = NoEngine
    /\ fired = {} /\ asleep = {}
    /\ open = {}
    /\ path \in [Engines -> {CHOOSE p \in Paths : TRUE}]
    /\ refs = [e \in Engines |-> 0]
    /\ keepAlive = [e \in Engines |-> "none"]
    /\ health = [e \in Engines |-> "ok"]
    /\ pc = [t \in Reqs |-> "idle"]
    /\ req \in [Reqs -> {CHOOSE r \in Request : TRUE}]
    /\ held = [t \in Reqs |-> NoEngine]
    /\ old = [t \in Reqs |-> NoEngine]
    /\ reloads = [t \in Reqs |-> 0]

----------------------------------------------------------------------------
(* The lease: references and the idle clock.                               *)

Broken(e) == health[e] \in {"broken", "drained"}

\* idleFor: whether a copy with this wish may sit idle without end.
Forever(wish) == wish = "forever" \/ (wish = "none" /\ DefaultForever)

\* Wrong: the countdown starts while somebody still generates.
ArmedInUse(c, rf) ==
    IF c # NoEngine /\ rf[c] >= 1 /\ ~Forever(keepAlive[c]) THEN c ELSE NoEngine

\* Wrong: the countdown waits for a count the server's own reference keeps up.
ArmedAtZero(c, rf) ==
    IF c # NoEngine /\ rf[c] = 0 /\ ~Forever(keepAlive[c]) THEN c ELSE NoEngine

\* armIdleLocked: the countdown that runs when c is resident with count rf.
Armed(c, rf) ==
    IF c # NoEngine /\ rf[c] = 1 /\ ~Forever(keepAlive[c]) THEN c ELSE NoEngine

\* Wrong: the engine is closed when only the server holds it.
DropAtServer(l, c) ==
    /\ refs' = [refs EXCEPT ![l] = @ - 1]
    /\ open' = IF refs[l] = 2 THEN open \ {l} ELSE open
    /\ idle' = Armed(c, refs')

\* Wrong: the last user of a copy no longer resident does not close it.
DropLeaks(l, c) ==
    /\ refs' = [refs EXCEPT ![l] = @ - 1]
    /\ open' = IF refs[l] = 1 /\ cur = l THEN open \ {l} ELSE open
    /\ idle' = Armed(c, refs')

\* dropLocked, the broadcast apart: one reference of l goes, the last one
\* closes the engine, and the countdown starts over for the resident copy c.
Drop(l, c) ==
    /\ refs' = [refs EXCEPT ![l] = @ - 1]
    /\ open' = IF refs[l] = 1 THEN open \ {l} ELSE open
    /\ idle' = Armed(c, refs')

\* Wrong: retiring closes the engine whoever uses it.
RetireAtOnce ==
    /\ cur' = NoEngine /\ idle' = NoEngine
    /\ refs' = [refs EXCEPT ![cur] = @ - 1]
    /\ open' = open \ {cur}

\* retireLocked up to its wait: the resident copy is no longer resident.
RetireResident == cur' = NoEngine /\ Drop(cur, NoEngine)

\* The rest of retireLocked for t: wait at pc `at` if the copy is in use.
WaitToRetire(t, at) ==
    /\ refs[cur] > 1
    /\ pc' = [pc EXCEPT ![t] = at]
    /\ old' = [old EXCEPT ![t] = cur]
    /\ asleep' = {t}

Awake(t, at) == pc[t] = at /\ t \notin asleep

\* Wrong: any wakeup is taken for the end of the wait.
RetiredOnce(t, at) == Awake(t, at)

Retired(t, at) == Awake(t, at) /\ refs[old[t]] = 0

Goto(t, at) == pc' = [pc EXCEPT ![t] = at]
Sleep(t) == asleep' = asleep \cup {t}

\* Wrong: nobody is woken.
BroadcastLost == UNCHANGED asleep

Broadcast == asleep' = {}

\* cond.Wait returned for some other reason: wait again.
RetireAgain(t) ==
    /\ pc[t] \in Retiring /\ t \notin asleep /\ refs[old[t]] > 0
    /\ Sleep(t)
    /\ UNCHANGED <<cur, swapping, idle, fired, lease, local>>

----------------------------------------------------------------------------
(* acquireOnce.                                                            *)

\* main closes the server once, on its way out.
Closed == \E t \in Reqs : pc[t] # "idle" /\ req[t].kind = "close"

Arrive(t) ==
    /\ pc[t] = "idle"
    /\ \E r \in Request :
        /\ r.kind = "close" => ~Closed
        /\ req' = [req EXCEPT ![t] = r]
        /\ Goto(t, IF r.kind \in {"chat", "load"} THEN "acquire" ELSE r.kind)
    /\ UNCHANGED <<server, lease, held, old, reloads>>

\* The resident copy's backend failed: retire it before anything else.
RetireBroken(t) ==
    /\ Awake(t, "acquire") /\ cur # NoEngine /\ Broken(cur)
    /\ RetireResident
    /\ \/ WaitToRetire(t, "retireBroken") /\ UNCHANGED swapping
       \/ refs[cur] = 1 /\ swapping
            /\ asleep' = {t} /\ UNCHANGED <<swapping, pc, old>>
       \/ refs[cur] = 1 /\ ~swapping
            /\ swapping' = TRUE /\ Goto(t, "loading") /\ Broadcast /\ UNCHANGED old
    /\ UNCHANGED <<fired, path, keepAlive, health, req, held, reloads>>

\* Past that check, in the same section: what is resident now may be another
\* copy, loaded while t waited, and its backend is not looked at again.
PastBrokenCheck(t) ==
    \/ Awake(t, "acquire") /\ ~(cur # NoEngine /\ Broken(cur))
    \/ Retired(t, "retireBroken")

Resident(p) == cur # NoEngine /\ path[cur] = p

AcquireHit(t) ==
    /\ PastBrokenCheck(t) /\ Resident(req[t].path)
    /\ refs' = [refs EXCEPT ![cur] = @ + 1]
    /\ idle' = NoEngine
    /\ held' = [held EXCEPT ![t] = cur]
    /\ old' = [old EXCEPT ![t] = NoEngine]
    /\ Goto(t, IF req[t].kind = "chat" THEN "holding" ELSE "note")
    /\ UNCHANGED <<cur, swapping, fired, asleep, open, path, keepAlive, health, req, reloads>>

\* Wrong: a request that waited for a load starts its own without looking.
AcquireWaitOnce(t) ==
    /\ PastBrokenCheck(t) /\ ~Resident(req[t].path) /\ swapping
    /\ Goto(t, "loading")
    /\ old' = [old EXCEPT ![t] = NoEngine]
    /\ UNCHANGED <<server, lease, req, held, reloads>>

AcquireWait(t) ==
    /\ PastBrokenCheck(t) /\ ~Resident(req[t].path) /\ swapping
    /\ Sleep(t)
    /\ Goto(t, "acquire")
    /\ old' = [old EXCEPT ![t] = NoEngine]
    /\ UNCHANGED <<cur, swapping, idle, fired, lease, req, held, reloads>>

AcquireSwap(t) ==
    /\ PastBrokenCheck(t) /\ ~Resident(req[t].path) /\ ~swapping
    /\ swapping' = TRUE
    /\ \/ /\ cur = NoEngine
          /\ idle' = NoEngine
          /\ Goto(t, "loading") /\ old' = [old EXCEPT ![t] = NoEngine]
          /\ UNCHANGED <<cur, refs, open, asleep>>
       \/ /\ cur # NoEngine
          /\ RetireResident
          /\ \/ WaitToRetire(t, "retireSwap")
             \/ /\ refs[cur] = 1
                /\ Goto(t, "loading") /\ old' = [old EXCEPT ![t] = NoEngine]
                /\ Broadcast
    /\ UNCHANGED <<fired, path, keepAlive, health, req, held, reloads>>

SwapRetired(t) ==
    /\ Retired(t, "retireSwap")
    /\ Goto(t, "loading") /\ old' = [old EXCEPT ![t] = NoEngine]
    /\ UNCHANGED <<server, lease, req, held, reloads>>

\* A lease is a new object: an identity nothing refers to any more.
Fresh(e) ==
    /\ e \in Engines \ open
    /\ e \notin fired
    /\ \A t \in Reqs : old[t] # e

\* s.open returned a model; it has two holders, the server and the caller.
OpenDone(t) ==
    /\ pc[t] = "loading"
    /\ \E e \in Engines :
        /\ Fresh(e)
        /\ cur' = e
        /\ open' = open \cup {e}
        /\ path' = [path EXCEPT ![e] = req[t].path]
        /\ refs' = [refs EXCEPT ![e] = 2]
        /\ keepAlive' = [keepAlive EXCEPT ![e] = "none"]
        /\ health' = [health EXCEPT ![e] = "ok"]
        /\ held' = [held EXCEPT ![t] = e]
    /\ idle' = NoEngine
    /\ swapping' = FALSE /\ Broadcast
    /\ Goto(t, IF req[t].kind = "chat" THEN "holding" ELSE "note")
    /\ UNCHANGED <<fired, req, old, reloads>>

\* s.open failed.  A first acquire ends the request; a failed reload is the
\* end of ChatFull, and the handler's deferred calls still run.
OpenFailed(t) ==
    /\ pc[t] = "loading"
    /\ swapping' = FALSE /\ Broadcast
    /\ Goto(t, IF reloads[t] > 0 THEN "note" ELSE "done")
    /\ UNCHANGED <<cur, idle, fired, lease, req, held, old, reloads>>

----------------------------------------------------------------------------
(* A request with its copy: one call of the engine's ChatFull per attempt. *)

\* submit: an engine that has drained its queue takes the job and never
\* looks at it again (engine/scheduler.go, modelled in Scheduler).
Submit(t) ==
    /\ pc[t] = "holding"
    /\ Goto(t, CASE health[held[t]] = "ok" -> "running"
                 [] health[held[t]] = "drained" -> "lost"
                 [] OTHER -> "queued")
    /\ UNCHANGED <<server, lease, req, held, old, reloads>>

\* ChatFull returned for any reason but the engine going down.
ChatReturns(t) ==
    /\ pc[t] = "running" /\ health[held[t]] = "ok"
    /\ Goto(t, "note")
    /\ UNCHANGED <<server, lease, req, held, old, reloads>>

\* ErrInterrupted or ErrNotStarted.
WentDown(t) ==
    \/ pc[t] = "running" /\ health[held[t]] # "ok"
    \/ pc[t] = "queued" /\ health[held[t]] = "drained"

\* Wrong: the reference is dropped but still counts as held.
ReloadHeld(t) ==
    /\ WentDown(t) /\ reloads[t] < maxReloads
    /\ Drop(held[t], cur) /\ Broadcast
    /\ reloads' = [reloads EXCEPT ![t] = @ + 1]
    /\ Goto(t, "acquire")
    /\ UNCHANGED <<cur, swapping, fired, path, keepAlive, health, req, held, old>>

\* Wrong: the replacement is asked for before the dead copy is let go of.
ReloadFirst(t) ==
    /\ WentDown(t) /\ reloads[t] < maxReloads
    /\ reloads' = [reloads EXCEPT ![t] = @ + 1]
    /\ Goto(t, "acquire")
    /\ UNCHANGED <<server, lease, req, held, old>>

\* retrying.swap lets go of the dead copy before it asks for another.
Reload(t) ==
    /\ WentDown(t) /\ reloads[t] < maxReloads
    /\ Drop(held[t], cur) /\ Broadcast
    /\ held' = [held EXCEPT ![t] = NoEngine]
    /\ reloads' = [reloads EXCEPT ![t] = @ + 1]
    /\ Goto(t, "acquire")
    /\ UNCHANGED <<cur, swapping, fired, path, keepAlive, health, req, old>>

\* Out of reloads, or the client is gone.
GiveUp(t) ==
    /\ WentDown(t)
    /\ Goto(t, "note")
    /\ UNCHANGED <<server, lease, req, held, old, reloads>>

\* noteKeepAlive: the wish goes to the resident copy of the model, whichever
\* copy the request itself used.
NoteKeepAlive(t) ==
    /\ pc[t] = "note"
    /\ keepAlive' = IF req[t].wish # "silent" /\ Resident(req[t].path)
                    THEN [keepAlive EXCEPT ![cur] = req[t].wish] ELSE keepAlive
    /\ Goto(t, "release")
    /\ UNCHANGED <<server, open, path, refs, health, req, held, old, reloads>>

\* retrying.release; nothing to let go of after a failed reload.
Release(t) ==
    /\ pc[t] = "release"
    /\ IF held[t] = NoEngine THEN UNCHANGED <<refs, open, idle, asleep>>
                             ELSE Drop(held[t], cur) /\ Broadcast
    /\ held' = [held EXCEPT ![t] = NoEngine]
    /\ Goto(t, "done")
    /\ UNCHANGED <<cur, swapping, fired, path, keepAlive, health, req, old, reloads>>

----------------------------------------------------------------------------
(* loadOrUnload with keep_alive 0, and Server.Close.                       *)

UnloadWait(t) ==
    /\ Awake(t, "unload") /\ swapping
    /\ Sleep(t)
    /\ UNCHANGED <<cur, swapping, idle, fired, lease, local>>

\* Server.embLoading: a request is swapping the embedding model.
EmbLoading == \E t \in Reqs : pc[t] = "embedding"

\* The chat model is gone, or was another.  Then, in the same section, the
\* embedding model's turn: a swap of it under way is waited for.
Unload(t) ==
    /\ Awake(t, "unload") /\ ~swapping /\ Resident(req[t].path)
    /\ RetireResident
    /\ \/ WaitToRetire(t, "retireUnload") /\ swapping' = TRUE
       \/ /\ refs[cur] = 1 /\ UNCHANGED <<swapping, old>>
          /\ \/ ~EmbLoading /\ Goto(t, "done") /\ Broadcast
             \/ EmbLoading /\ Goto(t, "unloadEmb") /\ asleep' = {t}
    /\ UNCHANGED <<fired, path, keepAlive, health, req, held, reloads>>

UnloadOther(t) ==
    /\ Awake(t, "unload") /\ ~swapping /\ ~Resident(req[t].path)
    /\ \/ ~EmbLoading /\ Goto(t, "done") /\ UNCHANGED asleep
       \/ EmbLoading /\ Goto(t, "unloadEmb") /\ Sleep(t)
    /\ UNCHANGED <<cur, swapping, idle, fired, lease, req, held, old, reloads>>

UnloadRetired(t) ==
    /\ Retired(t, "retireUnload")
    /\ swapping' = FALSE /\ old' = [old EXCEPT ![t] = NoEngine]
    /\ \/ ~EmbLoading /\ Goto(t, "done") /\ Broadcast
       \/ EmbLoading /\ Goto(t, "unloadEmb") /\ asleep' = {t}
    /\ UNCHANGED <<cur, idle, fired, lease, req, held, reloads>>

\* The chat model may be loaded again by now; it is not looked at again.
UnloadEmb(t) ==
    /\ Awake(t, "unloadEmb")
    /\ \/ ~EmbLoading /\ Goto(t, "done") /\ UNCHANGED asleep
       \/ EmbLoading /\ Sleep(t) /\ UNCHANGED pc
    /\ UNCHANGED <<cur, swapping, idle, fired, lease, req, held, old, reloads>>

\* Server.Close retires the model without claiming `swapping`.
Close(t) ==
    /\ pc[t] = "close"
    /\ \/ /\ cur = NoEngine
          /\ idle' = NoEngine /\ Goto(t, "done")
          /\ UNCHANGED <<cur, refs, open, old, asleep>>
       \/ /\ cur # NoEngine
          /\ RetireResident
          /\ \/ WaitToRetire(t, "retireClose")
             \/ refs[cur] = 1 /\ Goto(t, "done") /\ Broadcast /\ UNCHANGED old
    /\ UNCHANGED <<swapping, fired, path, keepAlive, health, req, held, reloads>>

CloseRetired(t) ==
    /\ Retired(t, "retireClose")
    /\ Goto(t, "done") /\ old' = [old EXCEPT ![t] = NoEngine]
    /\ UNCHANGED <<server, lease, req, held, reloads>>

----------------------------------------------------------------------------
(* acquireEmbedder, for what it has in common with the rest: the condition *)
(* variable, and the flag an unload waits for.                             *)

\* The model it names is loaded: it is leased, used, and handed back.
EmbedShare(t) ==
    /\ Awake(t, "embed") /\ ~EmbLoading
    /\ Goto(t, "done") /\ Broadcast
    /\ UNCHANGED <<cur, swapping, idle, fired, lease, req, held, old, reloads>>

EmbedWait(t) ==
    /\ Awake(t, "embed") /\ EmbLoading
    /\ Sleep(t)
    /\ UNCHANGED <<cur, swapping, idle, fired, lease, local>>

\* Another is, or none: the one that is goes, with a broadcast.
EmbedSwap(t) ==
    /\ Awake(t, "embed") /\ ~EmbLoading
    /\ Goto(t, "embedding")
    /\ Broadcast \/ UNCHANGED asleep
    /\ UNCHANGED <<cur, swapping, idle, fired, lease, req, held, old, reloads>>

\* Its users are done with it and the other is loaded, or could not be.
EmbedSwapped(t) ==
    /\ pc[t] = "embedding"
    /\ Goto(t, "done") /\ Broadcast
    /\ UNCHANGED <<cur, swapping, idle, fired, lease, req, held, old, reloads>>

----------------------------------------------------------------------------
(* The idle timer, and the scheduler goroutine of each engine.             *)

\* time.AfterFunc runs the callback on a goroutine of its own; from here on
\* Stop comes too late for it.
TimerFires ==
    /\ idle # NoEngine
    /\ fired' = fired \cup {idle}
    /\ idle' = NoEngine
    /\ UNCHANGED <<cur, swapping, asleep, lease, local>>

\* Wrong: the callback looks for a model nobody holds, the server included.
IdleCallbackAtZero(e) ==
    /\ e \in fired
    /\ fired' = fired \ {e}
    /\ IF cur = e /\ refs[e] = 0
       THEN RetireResident /\ Broadcast
       ELSE UNCHANGED <<cur, refs, open, idle, asleep>>
    /\ UNCHANGED <<swapping, path, keepAlive, health, local>>

\* The callback has the mutex: it unloads the copy if it is idle now.
IdleCallback(e) ==
    /\ e \in fired
    /\ fired' = fired \ {e}
    /\ IF cur = e /\ refs[e] = 1
       THEN RetireResident /\ Broadcast
       ELSE UNCHANGED <<cur, refs, open, idle, asleep>>
    /\ UNCHANGED <<swapping, path, keepAlive, health, local>>

\* A fatal decode failure, told to the running requests before onFatal ...
BackendFails(e) ==
    /\ MayBreak /\ e \in open /\ health[e] = "ok"
    /\ \E t \in Reqs : pc[t] = "running" /\ held[t] = e
    /\ health' = [health EXCEPT ![e] = "failing"]
    /\ UNCHANGED <<server, open, path, refs, keepAlive, local>>

\* ... marks the engine broken, and before drain answers the queued ones.
GoesDown(e) ==
    /\ e \in open
    /\ \/ health[e] = "failing" /\ health' = [health EXCEPT ![e] = "broken"]
       \/ health[e] = "broken" /\ health' = [health EXCEPT ![e] = "drained"]
    /\ UNCHANGED <<server, open, path, refs, keepAlive, local>>

----------------------------------------------------------------------------
Acquire(t) ==
    \/ RetireBroken(t) \/ RetireAgain(t)
    \/ AcquireHit(t) \/ AcquireWait(t) \/ AcquireSwap(t) \/ SwapRetired(t)
    \/ OpenDone(t) \/ OpenFailed(t)

Chat(t) ==
    \/ Submit(t) \/ ChatReturns(t) \/ Reload(t) \/ GiveUp(t)
    \/ NoteKeepAlive(t) \/ Release(t)

LetGo(t) ==
    \/ UnloadWait(t) \/ Unload(t) \/ UnloadOther(t) \/ UnloadRetired(t) \/ UnloadEmb(t)
    \/ Close(t) \/ CloseRetired(t)

Embed(t) == EmbedShare(t) \/ EmbedWait(t) \/ EmbedSwap(t) \/ EmbedSwapped(t)

Next ==
    \/ \E t \in Reqs : Arrive(t) \/ Acquire(t) \/ Chat(t) \/ LetGo(t) \/ Embed(t)
    \/ TimerFires
    \/ \E e \in Engines : IdleCallback(e) \/ BackendFails(e) \/ GoesDown(e)

Spec == Init /\ [][Next]_vars

(***************************************************************************)
(* Every goroutine that can run eventually runs.  A generation ends: the   *)
(* token budget and the deadline of five minutes bound it.  A swap of the  *)
(* embedding model ends (Embedding).  Timers fire.                         *)
(***************************************************************************)
Fairness ==
    /\ \A t \in Reqs : WF_vars(Acquire(t) \/ Chat(t) \/ LetGo(t) \/ Embed(t))
    /\ WF_vars(TimerFires)
    /\ \A e \in Engines : WF_vars(IdleCallback(e)) /\ WF_vars(GoesDown(e))

FairSpec == Spec /\ Fairness

----------------------------------------------------------------------------
(* Properties.                                                             *)

TypeOK ==
    /\ cur \in Engines \cup {NoEngine}
    /\ swapping \in BOOLEAN
    /\ idle \in Engines \cup {NoEngine}
    /\ fired \subseteq Engines
    /\ asleep \subseteq Reqs
    /\ open \subseteq Engines
    /\ path \in [Engines -> Paths]
    /\ refs \in [Engines -> Nat]
    /\ keepAlive \in [Engines -> {"none", "forever", "brief"}]
    /\ health \in [Engines -> {"ok", "failing", "broken", "drained"}]
    /\ pc \in [Reqs -> PCs]
    /\ req \in [Reqs -> Request]
    /\ held \in [Reqs -> Engines \cup {NoEngine}]
    /\ old \in [Reqs -> Engines \cup {NoEngine}]
    /\ reloads \in [Reqs -> 0 .. maxReloads]

Users(e) == {t \in Reqs : held[t] = e}

\* The count is what it says it is, so the engine is freed by its last holder
\* and by nobody else: a copy occupies memory exactly while it is resident or
\* somebody uses it.  (server.go, the comment on lease.)
RefsCountHolders ==
    \A e \in Engines :
        /\ refs[e] = Cardinality(Users(e)) + (IF cur = e THEN 1 ELSE 0)
        /\ e \in open <=> refs[e] > 0

\* No request generates on a copy that has been closed: the crash the
\* reference count was introduced for.
NeverFreedInUse == \A t \in Reqs : held[t] # NoEngine => held[t] \in open

\* One goroutine at a time loads or unloads, with nothing resident meanwhile.
OneSwapper ==
    \A t \in Reqs : pc[t] \in Swapping =>
        /\ swapping
        /\ cur = NoEngine
        /\ \A u \in Reqs \ {t} : pc[u] \notin Swapping

\* Only one model fits in memory: a replacement is loaded once the copy it
\* replaces is free (server.go's cur).  So it is as long as no backend fails: a
\* broken copy can outlive the load of its replacement (README, Disagreements).
OneModelLoaded ==
    Cardinality(open) + Cardinality({t \in Reqs : pc[t] = "loading"}) <= 1

\* What the count is for: a copy is freed by its last holder, never under one,
\* and loaded by one goroutine at a time (server.go's lease, acquireOnce).
CountedRight == RefsCountHolders /\ NeverFreedInUse /\ OneSwapper

\* A model nobody uses that may not stay forever has its countdown running,
\* or run out and on its way to unload it.
IdleClockRuns ==
    cur # NoEngine /\ refs[cur] = 1 /\ ~Forever(keepAlive[cur])
        => idle = cur \/ cur \in fired

\* And a countdown never runs on a model somebody uses, or on another one.
IdleClockOnlyWhenIdle == idle # NoEngine => idle = cur /\ refs[cur] = 1

\* One model is in memory, with its countdown running exactly while nobody uses
\* it and it may go (acquireOnce, armIdleLocked).
OneModelOnTheClock == OneModelLoaded /\ IdleClockRuns /\ IdleClockOnlyWhenIdle

\* The idle clock never unloads a model whose last request asked to keep it
\* (keepalive.go).  A callback that fired before may (README, Disagreements).
ForeverStays ==
    [][\A e \in Engines : e \in fired \ fired' /\ cur = e /\ cur' # e
            => ~Forever(keepAlive[e])]_vars

\* An unload waits until the memory is free: when it lets go of the chat model,
\* by its own hand or finding another there, no copy of it is left, however many
\* generated on it (keepalive.go's loadOrUnload).  Unless a swap of the embedding
\* model keeps it, this is when it returns.
UnloadFrees ==
    [][\A t \in Reqs :
        pc[t] \in {"unload", "retireUnload"} /\ pc'[t] \in {"unloadEmb", "done"}
            => \A e \in open' : path'[e] # req[t].path]_vars

\* "An unload returns once the memory is free, so a caller can load something
\* else the moment it hears back" (keepalive.go:97).
UnloadReturnsFree ==
    [][\A t \in Reqs :
        req[t].kind = "unload" /\ pc[t] # "done" /\ pc'[t] = "done"
            => \A e \in open' : path'[e] # req[t].path]_vars

\* Every request is answered.
EveryRequestEnds == \A t \in Reqs : pc[t] # "idle" ~> pc[t] = "done"

\* Requests never wait for each other in a circle, nor one for itself: while
\* any is under way one of them is awake.  A request that reloads a failed
\* model lets go of its copy before it asks for another (retry.go).
UnderWay == {t \in Reqs : pc[t] \notin {"idle", "done"}}
SomeoneMoves ==
    UnderWay # {} /\ (\A t \in Reqs : pc[t] # "lost") => ~(UnderWay \subseteq asleep)

\* An idle model is unloaded, or used again, or kept by a request's wish.
IdleModelUnloads ==
    \A e \in Engines :
        cur = e /\ refs[e] = 1 /\ ~Forever(keepAlive[e])
            ~> cur # e \/ refs[e] # 1 \/ Forever(keepAlive[e])

Leases == INSTANCE ModelLeases WITH
    resident <- cur,
    users <- [e \in Engines |-> Users(e)]

\* The counting implements what the server promises about the memory.
ImplementsLeases == Leases!Spec
=============================================================================
