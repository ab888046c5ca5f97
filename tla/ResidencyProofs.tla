-------------------------- MODULE ResidencyProofs --------------------------
(***************************************************************************)
(* What holds of Residency for every number of requests, copies and        *)
(* models: the reference count counts the holders, so no copy is freed     *)
(* while somebody uses it and none is kept that nobody has; one goroutine  *)
(* at a time loads; requests never wait in a circle; the counting          *)
(* implements the abstract leases (ModelLeases); and, as long as nothing   *)
(* fails, one model is in memory and its countdown runs when it should.    *)
(*                                                                         *)
(* The count alone is not inductive.  A load overwrites `cur` and the      *)
(* caller's `held`, so the proof must know that nothing is resident while  *)
(* a load runs (OneSwapper) and that a request about to be given a copy    *)
(* has none (HeldByPC).                                                    *)
(*                                                                         *)
(* Last, of what a process loads before it can serve any model: it is      *)
(* given whole sets of libraries and links (Caches).                       *)
(***************************************************************************)
EXTENDS Residency, Caches, FiniteSetTheorems, TLAPS

WithoutLease ==
    {"idle", "acquire", "unload", "unloadEmb", "close", "embed", "embedding", "loading", "done"}
        \cup Retiring
WithLease == {"holding", "running", "queued", "lost"}

HeldByPC ==
    \A t \in Reqs :
        /\ pc[t] \in WithoutLease => held[t] = NoEngine
        /\ pc[t] \in WithLease => held[t] # NoEngine

IInv == TypeOK /\ RefsCountHolders /\ OneSwapper /\ HeldByPC

----------------------------------------------------------------------------
(* Counting.                                                               *)

LEMMA UsersFinite ==
    ASSUME NEW e
    PROVE  IsFiniteSet(Users(e)) /\ Cardinality(Users(e)) \in Nat
  <1>1. Users(e) \subseteq Reqs
    BY DEF Users
  <1>2. IsFiniteSet(Users(e))
    BY <1>1, ReqsFinite, FS_Subset
  <1> QED
    BY <1>2, FS_CardinalityType

\* t takes copy e: one more user there, nobody else's users change.
LEMMA UsersAfterTaking ==
    ASSUME TypeOK, NEW t \in Reqs, NEW e \in Engines, held[t] = NoEngine,
           held' = [held EXCEPT ![t] = e]
    PROVE  /\ Cardinality(Users(e)') = Cardinality(Users(e)) + 1
           /\ \A d \in Engines \ {e} : Users(d)' = Users(d)
  <1>1. Users(e)' = Users(e) \cup {t} /\ t \notin Users(e)
    BY NoEngineAssumption DEF TypeOK, Users
  <1>2. \A d \in Engines \ {e} : Users(d)' = Users(d)
    BY NoEngineAssumption DEF TypeOK, Users
  <1> QED
    BY <1>1, <1>2, UsersFinite, FS_AddElement

\* t lets go of copy e: one user fewer there.
LEMMA UsersAfterLettingGo ==
    ASSUME TypeOK, NEW t \in Reqs, NEW e \in Engines, held[t] = e,
           held' = [held EXCEPT ![t] = NoEngine]
    PROVE  /\ Cardinality(Users(e)') = Cardinality(Users(e)) - 1
           /\ Cardinality(Users(e)) > 0
           /\ \A d \in Engines \ {e} : Users(d)' = Users(d)
  <1>1. Users(e)' = Users(e) \ {t} /\ t \in Users(e)
    BY NoEngineAssumption DEF TypeOK, Users
  <1>2. \A d \in Engines \ {e} : Users(d)' = Users(d)
    BY NoEngineAssumption DEF TypeOK, Users
  <1>3. Cardinality(Users(e)) # 0
    BY <1>1, UsersFinite, FS_EmptySet
  <1>4. Cardinality(Users(e)') = Cardinality(Users(e)) - 1
    BY <1>1, UsersFinite, FS_RemoveElement
  <1> QED
    BY <1>2, <1>3, <1>4, UsersFinite

\* The idle countdown belongs to a copy, or to none.
LEMMA ArmedType ==
    ASSUME NEW c \in Engines \cup {NoEngine}, NEW rf
    PROVE  Armed(c, rf) \in Engines \cup {NoEngine}
  BY DEF Armed

\* A holder's drop keeps the count right, and closes the copy only if it was
\* the last holder.
LEMMA DropByHolder ==
    ASSUME TypeOK, RefsCountHolders, NEW t \in Reqs, NEW l \in Engines, held[t] = l,
           Drop(l, cur), UNCHANGED cur,
           held' = [held EXCEPT ![t] = NoEngine]
    PROVE  /\ RefsCountHolders'
           /\ refs' \in [Engines -> Nat]
           /\ open' \subseteq Engines
           /\ idle' \in Engines \cup {NoEngine}
  <1>1. l \in Engines
    OBVIOUS
  <1>2. /\ Cardinality(Users(l)') = Cardinality(Users(l)) - 1
        /\ Cardinality(Users(l)) > 0
        /\ \A d \in Engines \ {l} : Users(d)' = Users(d)
    BY <1>1, UsersAfterLettingGo
  <1>3. refs[l] = Cardinality(Users(l)) + (IF cur = l THEN 1 ELSE 0) /\ refs[l] > 0
    BY <1>1, <1>2, UsersFinite DEF RefsCountHolders
  <1>4. refs' = [refs EXCEPT ![l] = @ - 1]
    BY DEF Drop
  <1>5. refs' \in [Engines -> Nat]
    BY <1>1, <1>3, <1>4 DEF TypeOK
  <1>6. open' = IF refs[l] = 1 THEN open \ {l} ELSE open
    BY DEF Drop
  <1>7. ASSUME NEW e \in Engines
        PROVE  /\ refs'[e] = Cardinality(Users(e)') + (IF cur' = e THEN 1 ELSE 0)
               /\ e \in open' <=> refs'[e] > 0
    <2>1. CASE e = l
      <3>1. refs'[l] = refs[l] - 1
        BY <1>1, <1>4 DEF TypeOK
      <3>2. l \in open
        BY <1>1, <1>3 DEF RefsCountHolders
      <3>3. l \in open' <=> refs'[l] > 0
        BY <3>1, <3>2, <1>1, <1>3, <1>6 DEF TypeOK
      <3> QED
        BY <2>1, <3>1, <3>3, <1>1, <1>2, <1>3, UsersFinite
    <2>2. CASE e # l
      <3>1. refs'[e] = refs[e] /\ Users(e)' = Users(e)
        BY <2>2, <1>2, <1>4 DEF TypeOK
      <3>2. e \in open' <=> e \in open
        BY <2>2, <1>6
      <3> QED
        BY <3>1, <3>2 DEF RefsCountHolders
    <2> QED
      BY <2>1, <2>2
  <1>8. open' \subseteq Engines
    BY <1>6 DEF TypeOK
  <1>9. idle' \in Engines \cup {NoEngine}
    BY ArmedType DEF Drop, TypeOK
  <1> QED
    BY <1>5, <1>7, <1>8, <1>9 DEF RefsCountHolders

\* So does retiring the resident copy: the server's own reference goes.
LEMMA RetireKeepsCount ==
    ASSUME TypeOK, RefsCountHolders, cur # NoEngine, RetireResident, UNCHANGED held
    PROVE  /\ RefsCountHolders'
           /\ refs' \in [Engines -> Nat]
           /\ open' \subseteq Engines
           /\ idle' \in Engines \cup {NoEngine}
           /\ cur' = NoEngine
  <1>1. cur \in Engines /\ cur' = NoEngine
    BY DEF TypeOK, RetireResident
  <1>2. \A e \in Engines : Users(e)' = Users(e)
    BY DEF Users
  <1>3. refs[cur] = Cardinality(Users(cur)) + 1 /\ refs[cur] > 0
    BY <1>1, UsersFinite DEF RefsCountHolders
  <1>4. refs' = [refs EXCEPT ![cur] = @ - 1]
    BY DEF RetireResident, Drop
  <1>5. refs' \in [Engines -> Nat]
    BY <1>1, <1>3, <1>4 DEF TypeOK
  <1>6. open' = IF refs[cur] = 1 THEN open \ {cur} ELSE open
    BY DEF RetireResident, Drop
  <1>7. ASSUME NEW e \in Engines
        PROVE  /\ refs'[e] = Cardinality(Users(e)') + (IF cur' = e THEN 1 ELSE 0)
               /\ e \in open' <=> refs'[e] > 0
    <2>1. CASE e = cur
      <3>1. refs'[e] = refs[e] - 1
        BY <2>1, <1>1, <1>4 DEF TypeOK
      <3>2. e \in open
        BY <2>1, <1>3 DEF RefsCountHolders
      <3>3. e \in open' <=> refs'[e] > 0
        BY <2>1, <3>1, <3>2, <1>3, <1>6 DEF TypeOK
      <3> QED
        BY <2>1, <3>1, <3>3, <1>1, <1>2, <1>3, UsersFinite, NoEngineAssumption
    <2>2. CASE e # cur
      <3>1. refs'[e] = refs[e]
        BY <2>2, <1>4 DEF TypeOK
      <3>2. e \in open' <=> e \in open
        BY <2>2, <1>6
      <3> QED
        BY <2>2, <3>1, <3>2, <1>1, <1>2, NoEngineAssumption DEF RefsCountHolders
    <2> QED
      BY <2>1, <2>2
  <1>8. open' \subseteq Engines
    BY <1>6 DEF TypeOK
  <1>9. idle' \in Engines \cup {NoEngine}
    BY ArmedType DEF RetireResident, Drop
  <1> QED
    BY <1>1, <1>5, <1>7, <1>8, <1>9 DEF RefsCountHolders

\* And nothing changes where the lease variables do not.
LEMMA CountUnchanged ==
    ASSUME RefsCountHolders, UNCHANGED <<cur, refs, open, held>>
    PROVE  RefsCountHolders'
  <1>1. \A e : Users(e)' = Users(e)
    BY DEF Users
  <1> QED
    BY <1>1 DEF RefsCountHolders

----------------------------------------------------------------------------
(* The four parts of the invariant, step by step.                          *)

LEMMA InitInvariant == Init => IInv
  <1> SUFFICES ASSUME Init PROVE IInv
    OBVIOUS
  <1>1. TypeOK
    <2>1. PICK p \in Paths : path \in [Engines -> {p}]
      BY RequestAssumption, (CHOOSE p \in Paths : TRUE) \in Paths DEF Init
    <2>2. PICK r \in Request : req \in [Reqs -> {r}]
      BY RequestAssumption, (CHOOSE r \in Request : TRUE) \in Request DEF Init
    <2>3. path \in [Engines -> Paths] /\ req \in [Reqs -> Request]
      BY <2>1, <2>2
    <2>4. /\ keepAlive \in [Engines -> {"none", "forever", "brief"}]
          /\ health \in [Engines -> {"ok", "failing", "broken", "drained"}]
          /\ pc \in [Reqs -> PCs]
      BY DEF Init, PCs
    <2>5. refs \in [Engines -> Nat] /\ reloads \in [Reqs -> 0 .. maxReloads]
      BY DEF Init, maxReloads
    <2>6. held \in [Reqs -> Engines \cup {NoEngine}] /\ old \in [Reqs -> Engines \cup {NoEngine}]
      BY DEF Init
    <2>7. /\ cur \in Engines \cup {NoEngine} /\ idle \in Engines \cup {NoEngine}
          /\ swapping \in BOOLEAN /\ fired \subseteq Engines /\ asleep \subseteq Reqs
          /\ open \subseteq Engines
      BY DEF Init
    <2> QED
      BY <2>3, <2>4, <2>5, <2>6, <2>7 DEF TypeOK
  <1>2. RefsCountHolders
    <2>1. \A e \in Engines : Users(e) = {}
      BY NoEngineAssumption DEF Init, Users
    <2>2. \A e \in Engines : Cardinality(Users(e)) = 0
      BY <2>1, FS_EmptySet
    <2> QED
      BY <2>2, NoEngineAssumption DEF Init, RefsCountHolders
  <1>3. OneSwapper /\ HeldByPC
    BY DEF Init, OneSwapper, HeldByPC, Swapping, WithoutLease, WithLease
  <1> QED
    BY <1>1, <1>2, <1>3 DEF IInv

\* A request at the embedding model, its own or in the way of its unload, leaves
\* the chat model alone.
LEMMA Aside ==
    ASSUME NEW t \in Reqs, Embed(t) \/ UnloadEmb(t)
    PROVE  /\ UNCHANGED <<cur, swapping, idle, fired>> /\ UNCHANGED lease
           /\ UNCHANGED <<req, held, old, reloads>>
           /\ pc[t] \in {"embed", "embedding", "unloadEmb"}
           /\ UNCHANGED pc \/ Goto(t, "done") \/ Goto(t, "embedding")
  BY DEF Embed, EmbedShare, EmbedWait, EmbedSwap, EmbedSwapped, UnloadEmb, Awake, local

\* Which step lets go of whose reference: the premises of the counting lemmas.
LEMMA CountStep ==
    ASSUME IInv, [Next]_vars
    PROVE  /\ RefsCountHolders'
           /\ refs' \in [Engines -> Nat]
           /\ open' \subseteq Engines
           /\ idle' \in Engines \cup {NoEngine}
           /\ cur' \in Engines \cup {NoEngine}
  <1> USE DEF IInv
  <1>1. ASSUME UNCHANGED <<cur, refs, open, held>>, idle' \in {idle, NoEngine}
        PROVE  /\ RefsCountHolders'
               /\ refs' \in [Engines -> Nat]
               /\ open' \subseteq Engines
               /\ idle' \in Engines \cup {NoEngine}
               /\ cur' \in Engines \cup {NoEngine}
    BY <1>1, CountUnchanged DEF TypeOK
  <1>2. ASSUME NEW t \in Reqs, AcquireHit(t)
        PROVE  /\ RefsCountHolders'
               /\ refs' \in [Engines -> Nat]
    <2>1. PICK e \in Engines : e = cur
      BY <1>2 DEF AcquireHit, Resident, TypeOK
    <2>2. held[t] = NoEngine
      BY <1>2 DEF AcquireHit, PastBrokenCheck, Awake, Retired, HeldByPC, WithoutLease, Retiring
    <2>3. /\ Cardinality(Users(e)') = Cardinality(Users(e)) + 1
          /\ \A d \in Engines \ {e} : Users(d)' = Users(d)
      BY <1>2, <2>1, <2>2, UsersAfterTaking DEF AcquireHit
    <2>4. refs' = [refs EXCEPT ![e] = @ + 1] /\ UNCHANGED <<cur, open>>
      BY <1>2, <2>1 DEF AcquireHit
    <2>5. refs' \in [Engines -> Nat]
      BY <2>4 DEF TypeOK
    <2>6. ASSUME NEW d \in Engines
          PROVE  /\ refs'[d] = Cardinality(Users(d)') + (IF cur' = d THEN 1 ELSE 0)
                 /\ d \in open' <=> refs'[d] > 0
      <3>1. CASE d = e
        <4>1. refs[e] = Cardinality(Users(e)) + 1 /\ e \in open
          BY <2>1, UsersFinite DEF RefsCountHolders
        <4>2. refs'[e] = refs[e] + 1
          BY <2>4 DEF TypeOK
        <4> QED
          BY <3>1, <4>1, <4>2, <2>1, <2>3, <2>4, UsersFinite
      <3>2. CASE d # e
        BY <3>2, <2>3, <2>4 DEF RefsCountHolders, TypeOK
      <3> QED
        BY <3>1, <3>2
    <2> QED
      BY <2>5, <2>6 DEF RefsCountHolders
  <1>3. ASSUME NEW t \in Reqs, OpenDone(t)
        PROVE  /\ RefsCountHolders'
               /\ refs' \in [Engines -> Nat]
               /\ open' \subseteq Engines
               /\ cur' \in Engines
    <2>1. PICK e \in Engines :
             /\ Fresh(e)
             /\ cur' = e
             /\ open' = open \cup {e}
             /\ refs' = [refs EXCEPT ![e] = 2]
             /\ held' = [held EXCEPT ![t] = e]
      BY <1>3 DEF OpenDone
    <2>2. cur = NoEngine /\ held[t] = NoEngine
      BY <1>3 DEF OpenDone, OneSwapper, HeldByPC, Swapping, WithoutLease
    <2>3. /\ Cardinality(Users(e)') = Cardinality(Users(e)) + 1
          /\ \A d \in Engines \ {e} : Users(d)' = Users(d)
      BY <2>1, <2>2, UsersAfterTaking
    <2>4. refs[e] = 0
      BY <2>1 DEF Fresh, RefsCountHolders, TypeOK
    <2>5. Cardinality(Users(e)) = 0
      BY <2>2, <2>4, UsersFinite, NoEngineAssumption DEF RefsCountHolders
    <2>6. refs' \in [Engines -> Nat]
      BY <2>1 DEF TypeOK
    <2>7. ASSUME NEW d \in Engines
          PROVE  /\ refs'[d] = Cardinality(Users(d)') + (IF cur' = d THEN 1 ELSE 0)
                 /\ d \in open' <=> refs'[d] > 0
      <3>1. CASE d = e
        BY <3>1, <2>1, <2>3, <2>5 DEF TypeOK
      <3>2. CASE d # e
        BY <3>2, <2>1, <2>2, <2>3, NoEngineAssumption DEF RefsCountHolders, TypeOK
      <3> QED
        BY <3>1, <3>2
    <2> QED
      BY <2>1, <2>6, <2>7 DEF RefsCountHolders, TypeOK
  <1>4. ASSUME NEW t \in Reqs, held[t] # NoEngine, Drop(held[t], cur), UNCHANGED cur,
               held' = [held EXCEPT ![t] = NoEngine]
        PROVE  /\ RefsCountHolders'
               /\ refs' \in [Engines -> Nat]
               /\ open' \subseteq Engines
               /\ idle' \in Engines \cup {NoEngine}
               /\ cur' \in Engines \cup {NoEngine}
    <2>1. PICK l \in Engines : held[t] = l
      BY <1>4 DEF TypeOK
    <2> QED
      BY <1>4, <2>1, DropByHolder DEF TypeOK
  <1>5. ASSUME cur # NoEngine, RetireResident, UNCHANGED held
        PROVE  /\ RefsCountHolders'
               /\ refs' \in [Engines -> Nat]
               /\ open' \subseteq Engines
               /\ idle' \in Engines \cup {NoEngine}
               /\ cur' \in Engines \cup {NoEngine}
    BY <1>5, RetireKeepsCount
  <1>6. ASSUME NEW t \in Reqs, Arrive(t) \/ Acquire(t)
        PROVE  /\ RefsCountHolders'
               /\ refs' \in [Engines -> Nat]
               /\ open' \subseteq Engines
               /\ idle' \in Engines \cup {NoEngine}
               /\ cur' \in Engines \cup {NoEngine}
    <2>1. CASE Arrive(t)
      BY <2>1, <1>1 DEF Arrive, server, lease
    <2>2. CASE RetireBroken(t)
      BY <2>2, <1>5 DEF RetireBroken
    <2>3. CASE RetireAgain(t)
      BY <2>3, <1>1 DEF RetireAgain, lease, local
    <2>4. CASE AcquireHit(t)
      BY <2>4, <1>2 DEF AcquireHit, TypeOK
    <2>5. CASE AcquireWait(t)
      BY <2>5, <1>1 DEF AcquireWait, lease
    <2>6. CASE AcquireSwap(t)
      BY <2>6, <1>1, <1>5 DEF AcquireSwap
    <2>7. CASE SwapRetired(t)
      BY <2>7, <1>1 DEF SwapRetired, server, lease
    <2>8. CASE OpenDone(t)
      BY <2>8, <1>3 DEF OpenDone
    <2>9. CASE OpenFailed(t)
      BY <2>9, <1>1 DEF OpenFailed, lease
    <2> QED
      BY <1>6, <2>1, <2>2, <2>3, <2>4, <2>5, <2>6, <2>7, <2>8, <2>9 DEF Acquire
  <1>7. ASSUME NEW t \in Reqs, Chat(t)
        PROVE  /\ RefsCountHolders'
               /\ refs' \in [Engines -> Nat]
               /\ open' \subseteq Engines
               /\ idle' \in Engines \cup {NoEngine}
               /\ cur' \in Engines \cup {NoEngine}
    <2>1. CASE Submit(t) \/ ChatReturns(t) \/ GiveUp(t)
      BY <2>1, <1>1 DEF Submit, ChatReturns, GiveUp, server, lease
    <2>2. CASE NoteKeepAlive(t)
      BY <2>2, <1>1 DEF NoteKeepAlive, server
    <2>3. CASE Reload(t)
      <3>1. held[t] # NoEngine
        BY <2>3 DEF Reload, WentDown, HeldByPC, WithLease
      <3> QED
        BY <2>3, <3>1, <1>4 DEF Reload
    <2>4. CASE Release(t)
      <3>1. CASE held[t] = NoEngine
        <4>1. held' = held
          BY <2>4, <3>1 DEF Release, TypeOK
        <4> QED
          BY <2>4, <3>1, <4>1, <1>1 DEF Release
      <3>2. CASE held[t] # NoEngine
        BY <2>4, <3>2, <1>4 DEF Release
      <3> QED
        BY <3>1, <3>2
    <2> QED
      BY <1>7, <2>1, <2>2, <2>3, <2>4 DEF Chat
  <1>8. ASSUME NEW t \in Reqs, LetGo(t)
        PROVE  /\ RefsCountHolders'
               /\ refs' \in [Engines -> Nat]
               /\ open' \subseteq Engines
               /\ idle' \in Engines \cup {NoEngine}
               /\ cur' \in Engines \cup {NoEngine}
    <2>1. CASE UnloadWait(t)
      BY <2>1, <1>1 DEF UnloadWait, lease, local
    <2>2. CASE Unload(t)
      BY <2>2, <1>5 DEF Unload, Resident
    <2>3. CASE UnloadOther(t)
      BY <2>3, <1>1 DEF UnloadOther, lease
    <2>4. CASE UnloadRetired(t)
      BY <2>4, <1>1 DEF UnloadRetired, lease
    <2>5. CASE Close(t)
      BY <2>5, <1>1, <1>5 DEF Close
    <2>6. CASE CloseRetired(t)
      BY <2>6, <1>1 DEF CloseRetired, server, lease
    <2>7. CASE UnloadEmb(t)
      BY <2>7, <1>1, Aside DEF lease
    <2> QED
      BY <1>8, <2>1, <2>2, <2>3, <2>4, <2>5, <2>6, <2>7 DEF LetGo
  <1>9. CASE TimerFires
    BY <1>9, <1>1 DEF TimerFires, lease, local
  <1>10. ASSUME NEW e \in Engines, IdleCallback(e) \/ BackendFails(e) \/ GoesDown(e)
         PROVE  /\ RefsCountHolders'
                /\ refs' \in [Engines -> Nat]
                /\ open' \subseteq Engines
                /\ idle' \in Engines \cup {NoEngine}
                /\ cur' \in Engines \cup {NoEngine}
    <2>1. CASE IdleCallback(e)
      BY <2>1, <1>1, <1>5, NoEngineAssumption DEF IdleCallback, local
    <2>2. CASE BackendFails(e) \/ GoesDown(e)
      BY <2>2, <1>1 DEF BackendFails, GoesDown, server, local
    <2> QED
      BY <1>10, <2>1, <2>2
  <1>11. ASSUME NEW t \in Reqs, Embed(t)
         PROVE  /\ RefsCountHolders'
                /\ refs' \in [Engines -> Nat]
                /\ open' \subseteq Engines
                /\ idle' \in Engines \cup {NoEngine}
                /\ cur' \in Engines \cup {NoEngine}
    BY <1>11, <1>1, Aside DEF lease
  <1>12. CASE UNCHANGED vars
    BY <1>12, <1>1 DEF vars
  <1> QED
    BY <1>6, <1>7, <1>8, <1>9, <1>10, <1>11, <1>12 DEF Next

\* No step lets a second goroutine load, or leaves a copy resident beside a swap.
LEMMA SwapperStep ==
    ASSUME IInv, [Next]_vars
    PROVE  OneSwapper'
  <1> USE DEF IInv
  <1>1. ASSUME UNCHANGED <<pc, swapping>>, cur' \in {cur, NoEngine}
        PROVE  OneSwapper'
    BY <1>1 DEF OneSwapper
  \* t goes on outside the sections that set `swapping`.
  <1>2. ASSUME NEW t \in Reqs, UNCHANGED swapping, cur' \in {cur, NoEngine},
               NEW at, at \notin Swapping, Goto(t, at)
        PROVE  OneSwapper'
    BY <1>2 DEF OneSwapper, Goto, TypeOK
  \* t enters one: nobody else is in one, for the flag is down.
  <1>3. ASSUME NEW t \in Reqs, ~swapping, swapping', cur' = NoEngine,
               NEW at, Goto(t, at)
        PROVE  OneSwapper'
    BY <1>3 DEF OneSwapper, Goto, TypeOK
  \* t is in one and leaves it.
  <1>4. ASSUME NEW t \in Reqs, pc[t] \in Swapping,
               NEW at, at \notin Swapping, Goto(t, at)
        PROVE  OneSwapper'
    BY <1>4 DEF OneSwapper, Goto, TypeOK
  <1> USE DEF Swapping
  <1>5. ASSUME NEW t \in Reqs, Arrive(t)
        PROVE  OneSwapper'
    <2>1. PICK r \in Request : Goto(t, IF r.kind \in {"chat", "load"} THEN "acquire" ELSE r.kind)
      BY <1>5 DEF Arrive
    <2>2. r.kind \in {"chat", "load", "unload", "close", "embed"}
      BY DEF Request
    <2> QED
      BY <1>5, <2>1, <2>2, <1>2 DEF Arrive, server
  <1>6. ASSUME NEW t \in Reqs, RetireBroken(t)
        PROVE  OneSwapper'
    <2>1. CASE WaitToRetire(t, "retireBroken") /\ UNCHANGED swapping
      BY <1>6, <2>1, <1>2 DEF RetireBroken, RetireResident, WaitToRetire, Goto
    <2>2. CASE UNCHANGED <<swapping, pc>>
      BY <1>6, <2>2, <1>1 DEF RetireBroken, RetireResident
    <2>3. CASE ~swapping /\ swapping' = TRUE /\ Goto(t, "loading")
      BY <1>6, <2>3, <1>3 DEF RetireBroken, RetireResident
    <2> QED
      BY <1>6, <2>1, <2>2, <2>3 DEF RetireBroken
  <1>7. ASSUME NEW t \in Reqs, AcquireHit(t)
        PROVE  OneSwapper'
    <2>1. CASE req[t].kind = "chat"
      BY <1>7, <2>1, <1>2 DEF AcquireHit
    <2>2. CASE req[t].kind # "chat"
      BY <1>7, <2>2, <1>2 DEF AcquireHit
    <2> QED
      BY <2>1, <2>2
  <1>8. ASSUME NEW t \in Reqs, AcquireWait(t)
        PROVE  OneSwapper'
    BY <1>8, <1>2 DEF AcquireWait
  <1>9. ASSUME NEW t \in Reqs, AcquireSwap(t)
        PROVE  OneSwapper'
    <2>1. CASE cur' = NoEngine /\ Goto(t, "loading")
      BY <1>9, <2>1, <1>3 DEF AcquireSwap
    <2>2. CASE cur' = NoEngine /\ WaitToRetire(t, "retireSwap")
      BY <1>9, <2>2, <1>3 DEF AcquireSwap, WaitToRetire, Goto
    <2> QED
      BY <1>9, <2>1, <2>2 DEF AcquireSwap, RetireResident
  <1>10. ASSUME NEW t \in Reqs, SwapRetired(t)
         PROVE  OneSwapper'
    BY <1>10 DEF SwapRetired, Retired, Awake, server, Goto, OneSwapper, TypeOK
  <1>11. ASSUME NEW t \in Reqs, OpenDone(t)
         PROVE  OneSwapper'
    <2>1. CASE req[t].kind = "chat"
      BY <1>11, <2>1, <1>4 DEF OpenDone
    <2>2. CASE req[t].kind # "chat"
      BY <1>11, <2>2, <1>4 DEF OpenDone
    <2> QED
      BY <2>1, <2>2
  <1>12. ASSUME NEW t \in Reqs, OpenFailed(t)
         PROVE  OneSwapper'
    <2>1. CASE reloads[t] > 0
      BY <1>12, <2>1, <1>4 DEF OpenFailed
    <2>2. CASE ~(reloads[t] > 0)
      BY <1>12, <2>2, <1>4 DEF OpenFailed
    <2> QED
      BY <2>1, <2>2
  <1>13. ASSUME NEW t \in Reqs, Submit(t)
         PROVE  OneSwapper'
    BY <1>13 DEF Submit, server, OneSwapper, Goto, TypeOK
  <1>14. ASSUME NEW t \in Reqs,
                ChatReturns(t) \/ Reload(t) \/ GiveUp(t) \/ NoteKeepAlive(t) \/ Release(t)
         PROVE  OneSwapper'
    BY <1>14, <1>2 DEF ChatReturns, Reload, GiveUp, NoteKeepAlive, Release, server
  <1>15. ASSUME NEW t \in Reqs, Unload(t)
         PROVE  OneSwapper'
    <2>1. CASE WaitToRetire(t, "retireUnload") /\ swapping' = TRUE
      BY <1>15, <2>1, <1>3 DEF Unload, RetireResident, WaitToRetire, Goto
    <2>2. CASE (Goto(t, "done") \/ Goto(t, "unloadEmb")) /\ UNCHANGED swapping
      BY <1>15, <2>2, <1>2 DEF Unload, RetireResident
    <2> QED
      BY <1>15, <2>1, <2>2 DEF Unload
  <1>16. ASSUME NEW t \in Reqs, UnloadOther(t) \/ CloseRetired(t)
         PROVE  OneSwapper'
    BY <1>16, <1>2 DEF UnloadOther, CloseRetired, server
  <1>17. ASSUME NEW t \in Reqs, UnloadRetired(t)
         PROVE  OneSwapper'
    BY <1>17, <1>4 DEF UnloadRetired, Retired, Awake
  <1>18. ASSUME NEW t \in Reqs, Close(t)
         PROVE  OneSwapper'
    <2>1. CASE Goto(t, "done") /\ cur' \in {cur, NoEngine}
      BY <1>18, <2>1, <1>2 DEF Close
    <2>2. CASE WaitToRetire(t, "retireClose") /\ cur' = NoEngine
      BY <1>18, <2>2, <1>2 DEF Close, WaitToRetire, Goto
    <2> QED
      BY <1>18, <2>1, <2>2 DEF Close, RetireResident
  <1>19. ASSUME NEW t \in Reqs, RetireAgain(t) \/ UnloadWait(t)
         PROVE  OneSwapper'
    BY <1>19, <1>1 DEF RetireAgain, UnloadWait, local
  <1>20. CASE TimerFires
    BY <1>20, <1>1 DEF TimerFires, local
  <1>21. ASSUME NEW e \in Engines, IdleCallback(e) \/ BackendFails(e) \/ GoesDown(e)
         PROVE  OneSwapper'
    BY <1>21, <1>1 DEF IdleCallback, BackendFails, GoesDown, RetireResident, server, local
  <1>22. ASSUME NEW t \in Reqs, Embed(t) \/ UnloadEmb(t)
         PROVE  OneSwapper'
    BY <1>22, <1>1, <1>2, Aside
  <1>23. CASE UNCHANGED vars
    BY <1>23, <1>1 DEF vars
  <1> QED
    BY <1>5, <1>6, <1>7, <1>8, <1>9, <1>10, <1>11, <1>12, <1>13, <1>14, <1>15, <1>16,
       <1>17, <1>18, <1>19, <1>20, <1>21, <1>22, <1>23 DEF Next, Acquire, Chat, LetGo

\* A request holds a copy exactly in the part of its life between acquire and
\* release; a failed reload leaves it without one until it ends.
LEMMA HeldStep ==
    ASSUME IInv, [Next]_vars
    PROVE  HeldByPC'
  <1> USE DEF IInv
  <1>1. ASSUME UNCHANGED <<pc, held>>
        PROVE  HeldByPC'
    BY <1>1 DEF HeldByPC
  <1>2. ASSUME NEW t \in Reqs, UNCHANGED held, pc[t] \in WithoutLease, NEW at,
               at \in WithoutLease, Goto(t, at)
        PROVE  HeldByPC'
    BY <1>2 DEF HeldByPC, Goto, TypeOK, WithoutLease, WithLease, Retiring
  <1>3. ASSUME NEW t \in Reqs, UNCHANGED held, NEW at,
               at \notin WithoutLease \cup WithLease, Goto(t, at)
        PROVE  HeldByPC'
    BY <1>3 DEF HeldByPC, Goto, TypeOK
  <1>4. ASSUME NEW t \in Reqs, held' = [held EXCEPT ![t] = NoEngine], NEW at,
               at \notin WithLease, Goto(t, at)
        PROVE  HeldByPC'
    BY <1>4 DEF HeldByPC, Goto, TypeOK
  <1>5. ASSUME NEW t \in Reqs, NEW e \in Engines, held' = [held EXCEPT ![t] = e], NEW at,
               at \notin WithoutLease, Goto(t, at)
        PROVE  HeldByPC'
    BY <1>5, NoEngineAssumption DEF HeldByPC, Goto, TypeOK
  <1> USE DEF WithoutLease, WithLease, Retiring
  <1>6. ASSUME NEW t \in Reqs, Arrive(t)
        PROVE  HeldByPC'
    <2>1. PICK r \in Request : Goto(t, IF r.kind \in {"chat", "load"} THEN "acquire" ELSE r.kind)
      BY <1>6 DEF Arrive
    <2>2. r.kind \in {"chat", "load", "unload", "close", "embed"}
      BY DEF Request
    <2> QED
      BY <1>6, <2>1, <2>2, <1>2 DEF Arrive
  <1>7. ASSUME NEW t \in Reqs, RetireBroken(t)
        PROVE  HeldByPC'
    <2>1. CASE WaitToRetire(t, "retireBroken")
      BY <1>7, <2>1, <1>2 DEF RetireBroken, WaitToRetire, Goto, Awake
    <2>2. CASE UNCHANGED pc
      BY <1>7, <2>2, <1>1 DEF RetireBroken
    <2>3. CASE Goto(t, "loading")
      BY <1>7, <2>3, <1>2 DEF RetireBroken, Awake
    <2> QED
      BY <1>7, <2>1, <2>2, <2>3 DEF RetireBroken
  <1>8. ASSUME NEW t \in Reqs, AcquireHit(t)
        PROVE  HeldByPC'
    <2>1. cur \in Engines /\ held' = [held EXCEPT ![t] = cur]
      BY <1>8 DEF AcquireHit, Resident, TypeOK
    <2>2. CASE req[t].kind = "chat"
      BY <1>8, <2>1, <2>2, NoEngineAssumption DEF AcquireHit, HeldByPC, Goto, TypeOK
    <2>3. CASE req[t].kind # "chat"
      BY <1>8, <2>1, <2>3 DEF AcquireHit, HeldByPC, Goto, TypeOK
    <2> QED
      BY <2>2, <2>3
  <1>9. ASSUME NEW t \in Reqs, AcquireWait(t)
        PROVE  HeldByPC'
    BY <1>9, <1>2 DEF AcquireWait, PastBrokenCheck, Awake, Retired
  <1>10. ASSUME NEW t \in Reqs, AcquireSwap(t)
         PROVE  HeldByPC'
    <2>1. pc[t] \in {"acquire", "retireBroken"} /\ UNCHANGED held
      BY <1>10 DEF AcquireSwap, PastBrokenCheck, Awake, Retired
    <2>2. CASE Goto(t, "loading")
      BY <2>1, <2>2, <1>2
    <2>3. CASE WaitToRetire(t, "retireSwap")
      BY <2>1, <2>3, <1>2 DEF WaitToRetire, Goto
    <2> QED
      BY <1>10, <2>2, <2>3 DEF AcquireSwap
  <1>11. ASSUME NEW t \in Reqs, SwapRetired(t)
         PROVE  HeldByPC'
    BY <1>11, <1>2 DEF SwapRetired, Retired, Awake
  <1>12. ASSUME NEW t \in Reqs, OpenDone(t)
         PROVE  HeldByPC'
    <2>1. PICK e \in Engines : held' = [held EXCEPT ![t] = e]
      BY <1>12 DEF OpenDone
    <2>2. CASE req[t].kind = "chat"
      BY <1>12, <2>1, <2>2, <1>5 DEF OpenDone
    <2>3. CASE req[t].kind # "chat"
      BY <1>12, <2>1, <2>3, <1>5 DEF OpenDone
    <2> QED
      BY <2>2, <2>3
  <1>13. ASSUME NEW t \in Reqs, OpenFailed(t)
         PROVE  HeldByPC'
    <2>1. CASE reloads[t] > 0
      BY <1>13, <2>1, <1>3 DEF OpenFailed
    <2>2. CASE ~(reloads[t] > 0)
      BY <1>13, <2>2, <1>2 DEF OpenFailed
    <2> QED
      BY <2>1, <2>2
  <1>14. ASSUME NEW t \in Reqs, Submit(t)
         PROVE  HeldByPC'
    BY <1>14 DEF Submit, HeldByPC, Goto, TypeOK
  <1>15. ASSUME NEW t \in Reqs,
                ChatReturns(t) \/ GiveUp(t) \/ NoteKeepAlive(t)
         PROVE  HeldByPC'
    BY <1>15, <1>3 DEF ChatReturns, GiveUp, NoteKeepAlive
  <1>16. ASSUME NEW t \in Reqs, Reload(t) \/ Release(t)
         PROVE  HeldByPC'
    BY <1>16, <1>4 DEF Reload, Release
  <1>17. ASSUME NEW t \in Reqs, LetGo(t), ~UnloadEmb(t)
         PROVE  HeldByPC'
    <2>1. UNCHANGED held
      BY <1>17 DEF LetGo, UnloadWait, Unload, UnloadOther, UnloadRetired, Close,
                   CloseRetired, local
    <2>2. pc[t] \in WithoutLease
      BY <1>17 DEF LetGo, UnloadWait, Unload, UnloadOther, UnloadRetired, Close,
                   CloseRetired, Awake, Retired
    <2>3. CASE UNCHANGED pc
      BY <2>1, <2>3, <1>1
    <2>4. CASE \/ Goto(t, "done") \/ Goto(t, "unloadEmb")
               \/ Goto(t, "retireUnload") \/ Goto(t, "retireClose")
      BY <2>1, <2>2, <2>4, <1>2
    <2> QED
      BY <1>17, <2>3, <2>4 DEF LetGo, UnloadWait, Unload, UnloadOther, UnloadRetired,
                               Close, CloseRetired, WaitToRetire, Goto, local
  <1>18. ASSUME NEW t \in Reqs, RetireAgain(t)
         PROVE  HeldByPC'
    BY <1>18, <1>1 DEF RetireAgain, local
  <1>19. CASE TimerFires
    BY <1>19, <1>1 DEF TimerFires, local
  <1>20. ASSUME NEW e \in Engines, IdleCallback(e) \/ BackendFails(e) \/ GoesDown(e)
         PROVE  HeldByPC'
    BY <1>20, <1>1 DEF IdleCallback, BackendFails, GoesDown, local
  <1>21. ASSUME NEW t \in Reqs, Embed(t) \/ UnloadEmb(t)
         PROVE  HeldByPC'
    BY <1>21, <1>1, <1>2, Aside
  <1>22. CASE UNCHANGED vars
    BY <1>22, <1>1 DEF vars
  <1> QED
    BY <1>6, <1>7, <1>8, <1>9, <1>10, <1>11, <1>12, <1>13, <1>14, <1>15, <1>16,
       <1>17, <1>18, <1>19, <1>20, <1>21, <1>22 DEF Next, Acquire, Chat

\* The variables CountStep does not speak of.
OtherTypes ==
    /\ swapping \in BOOLEAN
    /\ fired \subseteq Engines
    /\ asleep \subseteq Reqs
    /\ path \in [Engines -> Paths]
    /\ keepAlive \in [Engines -> {"none", "forever", "brief"}]
    /\ health \in [Engines -> {"ok", "failing", "broken", "drained"}]
    /\ pc \in [Reqs -> PCs]
    /\ req \in [Reqs -> Request]
    /\ held \in [Reqs -> Engines \cup {NoEngine}]
    /\ old \in [Reqs -> Engines \cup {NoEngine}]
    /\ reloads \in [Reqs -> 0 .. maxReloads]

\* Every step keeps the types.
LEMMA TypeStep ==
    ASSUME IInv, [Next]_vars
    PROVE  TypeOK'
  <1> USE DEF IInv
  <1>1. TypeOK => OtherTypes
    BY DEF TypeOK, OtherTypes
  <1>2. \A r \in Request : /\ r.kind \in {"chat", "load", "unload", "close", "embed"}
                           /\ r.path \in Paths
                           /\ r.wish \in {"silent", "none", "forever", "brief"}
    BY ModesAssumption, RequestAssumption, (CHOOSE p \in Paths : TRUE) \in Paths DEF Request
  <1> USE <1>1 DEF OtherTypes
  <1> HIDE DEF IInv, TypeOK
  <1>3. ASSUME NEW t \in Reqs, Arrive(t)
        PROVE  OtherTypes'
    <2>1. PICK r \in Request :
             /\ req' = [req EXCEPT ![t] = r]
             /\ Goto(t, IF r.kind \in {"chat", "load"} THEN "acquire" ELSE r.kind)
      BY <1>3 DEF Arrive
    <2>2. pc' \in [Reqs -> PCs] /\ req' \in [Reqs -> Request]
      BY <1>2, <2>1 DEF Goto, PCs, IInv
    <2> QED
      BY <1>3, <2>2 DEF Arrive, server, lease, IInv
  <1>4. ASSUME NEW t \in Reqs, Acquire(t)
        PROVE  OtherTypes'
    <2> USE DEF Goto, PCs, Retiring, IInv
    <2>1. CASE RetireBroken(t)
      <3>1. cur \in Engines
        BY <2>1 DEF RetireBroken, TypeOK
      <3>2. CASE WaitToRetire(t, "retireBroken") /\ UNCHANGED swapping
        BY <2>1, <3>1, <3>2 DEF RetireBroken, WaitToRetire
      <3>3. CASE asleep' = {t} /\ UNCHANGED <<swapping, pc, old>>
        BY <2>1, <3>3 DEF RetireBroken
      <3>4. CASE swapping' = TRUE /\ Goto(t, "loading") /\ Broadcast /\ UNCHANGED old
        BY <2>1, <3>4 DEF RetireBroken, Broadcast
      <3> QED
        BY <2>1, <3>2, <3>3, <3>4 DEF RetireBroken
    <2>2. CASE RetireAgain(t)
      BY <2>2 DEF RetireAgain, Sleep, lease, local
    <2>3. CASE AcquireHit(t)
      <3>1. cur \in Engines
        BY <2>3 DEF AcquireHit, Resident, TypeOK
      <3> QED
        BY <2>3, <3>1 DEF AcquireHit
    <2>4. CASE AcquireWait(t)
      BY <2>4 DEF AcquireWait, Sleep, lease
    <2>5. CASE AcquireSwap(t)
      BY <2>5 DEF AcquireSwap, WaitToRetire, Broadcast, TypeOK
    <2>6. CASE SwapRetired(t)
      BY <2>6 DEF SwapRetired, server, lease
    <2>7. CASE OpenDone(t)
      <3>1. req[t].path \in Paths
        BY <1>2
      <3>2. PICK e \in Engines :
               /\ path' = [path EXCEPT ![e] = req[t].path]
               /\ keepAlive' = [keepAlive EXCEPT ![e] = "none"]
               /\ health' = [health EXCEPT ![e] = "ok"]
               /\ held' = [held EXCEPT ![t] = e]
        BY <2>7 DEF OpenDone
      <3>3. /\ path' \in [Engines -> Paths]
            /\ keepAlive' \in [Engines -> {"none", "forever", "brief"}]
            /\ health' \in [Engines -> {"ok", "failing", "broken", "drained"}]
            /\ held' \in [Reqs -> Engines \cup {NoEngine}]
        BY <3>1, <3>2
      <3>4. pc' \in [Reqs -> PCs]
        BY <2>7 DEF OpenDone
      <3> QED
        BY <2>7, <3>3, <3>4 DEF OpenDone, Broadcast
    <2>8. CASE OpenFailed(t)
      BY <2>8 DEF OpenFailed, Broadcast, lease
    <2> QED
      BY <1>4, <2>1, <2>2, <2>3, <2>4, <2>5, <2>6, <2>7, <2>8 DEF Acquire
  <1>5. ASSUME NEW t \in Reqs, Chat(t)
        PROVE  OtherTypes'
    <2> USE DEF Goto, PCs, IInv
    <2>1. CASE Submit(t)
      BY <2>1 DEF Submit, server, lease
    <2>2. CASE ChatReturns(t) \/ GiveUp(t)
      BY <2>2 DEF ChatReturns, GiveUp, server, lease
    <2>3. CASE Reload(t)
      BY <2>3 DEF Reload, Broadcast, maxReloads
    <2>4. CASE NoteKeepAlive(t)
      <3>1. req[t].wish # "silent" => req[t].wish \in {"none", "forever", "brief"}
        BY <1>2
      <3>2. keepAlive' \in [Engines -> {"none", "forever", "brief"}]
        BY <2>4, <3>1 DEF NoteKeepAlive
      <3> QED
        BY <2>4, <3>2 DEF NoteKeepAlive, server
    <2>5. CASE Release(t)
      BY <2>5 DEF Release, Broadcast
    <2> QED
      BY <1>5, <2>1, <2>2, <2>3, <2>4, <2>5 DEF Chat
  <1>6. ASSUME NEW t \in Reqs, LetGo(t)
        PROVE  OtherTypes'
    <2> USE DEF Goto, PCs, Retiring, IInv
    <2>1. CASE UnloadWait(t)
      BY <2>1 DEF UnloadWait, Sleep, lease, local
    <2>2. CASE Unload(t)
      BY <2>2 DEF Unload, Resident, WaitToRetire, Broadcast, TypeOK
    <2>3. CASE UnloadOther(t)
      BY <2>3 DEF UnloadOther, Sleep, lease
    <2>4. CASE UnloadRetired(t)
      BY <2>4 DEF UnloadRetired, Broadcast, lease
    <2>5. CASE Close(t)
      BY <2>5 DEF Close, WaitToRetire, Broadcast, TypeOK
    <2>6. CASE CloseRetired(t)
      BY <2>6 DEF CloseRetired, server, lease
    <2>7. CASE UnloadEmb(t)
      BY <2>7 DEF UnloadEmb, Sleep, lease
    <2> QED
      BY <1>6, <2>1, <2>2, <2>3, <2>4, <2>5, <2>6, <2>7 DEF LetGo
  <1>7. ASSUME TimerFires
        PROVE  OtherTypes'
    BY <1>7 DEF TimerFires, lease, local, IInv, TypeOK
  <1>8. ASSUME NEW e \in Engines, IdleCallback(e) \/ BackendFails(e) \/ GoesDown(e)
        PROVE  OtherTypes'
    BY <1>8 DEF IdleCallback, BackendFails, GoesDown, Broadcast, server, local, IInv
  <1>9. ASSUME UNCHANGED vars
        PROVE  OtherTypes'
    BY <1>9 DEF vars, IInv
  <1>10. ASSUME NEW t \in Reqs, Embed(t)
         PROVE  OtherTypes'
    <2> USE DEF Goto, PCs, IInv
    <2>1. CASE EmbedShare(t) \/ EmbedSwapped(t)
      BY <2>1 DEF EmbedShare, EmbedSwapped, Broadcast, lease
    <2>2. CASE EmbedWait(t)
      BY <2>2 DEF EmbedWait, Sleep, lease, local
    <2>3. CASE EmbedSwap(t)
      BY <2>3 DEF EmbedSwap, Broadcast, lease
    <2> QED
      BY <1>10, <2>1, <2>2, <2>3 DEF Embed
  <1>11. OtherTypes'
    BY <1>3, <1>4, <1>5, <1>6, <1>7, <1>8, <1>9, <1>10 DEF Next
  <1> QED
    BY <1>11, CountStep DEF TypeOK

\* The invariant is inductive.
LEMMA IInvInductive == IInv /\ [Next]_vars => IInv'
  BY TypeStep, CountStep, SwapperStep, HeldStep DEF IInv

\* Every reachable state of the server satisfies the inductive invariant.
THEOREM InvariantHolds == Spec => []IInv
  BY InitInvariant, IInvInductive, PTL DEF Spec

----------------------------------------------------------------------------
(* The theorems.                                                           *)

\* Every variable stays within its type, whatever the number of requests.
THEOREM TypeCorrect == Spec => []TypeOK
  BY InvariantHolds, PTL DEF IInv

\* However requests, swaps, unloads, idle timers and failing backends
\* interleave, the count of every copy is the number of its holders, and a
\* copy occupies memory exactly while it has one.
THEOREM RefsCounted == Spec => []RefsCountHolders
  BY InvariantHolds, PTL DEF IInv

\* At most one goroutine loads or unloads, and nothing is resident meanwhile.
THEOREM SwapperAlone == Spec => []OneSwapper
  BY InvariantHolds, PTL DEF IInv

\* No request generates on a closed copy: its own reference keeps the count
\* above zero, and the count says what is open.
THEOREM NeverFreed == Spec => []NeverFreedInUse
  <1>1. IInv => NeverFreedInUse
    <2> SUFFICES ASSUME IInv, NEW t \in Reqs, held[t] # NoEngine
                 PROVE  held[t] \in open
      BY DEF NeverFreedInUse
    <2>1. PICK e \in Engines : held[t] = e
      BY DEF IInv, TypeOK
    <2>2. t \in Users(e)
      BY <2>1 DEF Users
    <2>3. Cardinality(Users(e)) # 0
      BY <2>2, UsersFinite, FS_EmptySet
    <2>4. refs[e] > 0
      BY <2>3, UsersFinite DEF IInv, RefsCountHolders
    <2> QED
      BY <2>1, <2>4 DEF IInv, RefsCountHolders
  <1> QED
    BY <1>1, InvariantHolds, PTL

\* However requests, swaps, unloads, idle timers and failing backends
\* interleave, the count is right, nothing is freed in use, and one goroutine
\* at a time loads (server.go, the comment on lease).
THEOREM CountingIsRight == Spec => []CountedRight
  BY RefsCounted, NeverFreed, SwapperAlone, PTL DEF CountedRight

----------------------------------------------------------------------------
(* Nobody waits in a circle.  Waiting is for a swapper to be done, or for  *)
(* the users of a retired copy; the swapper waits for users only, and a    *)
(* request that uses a copy waits for nobody.                              *)

\* Who sleeps still has something to wait for: whatever ends it also wakes.
Sleepers ==
    \A t \in asleep :
        \/ pc[t] \in {"acquire", "unload"} /\ swapping
        \/ pc[t] \in {"embed", "unloadEmb"} /\ EmbLoading
        \/ pc[t] \in Retiring /\ refs[old[t]] > 0

\* What is waited for is not resident, so what is left of it is its users.
Waited == \A t \in Reqs : pc[t] \in Retiring => old[t] \in Engines /\ old[t] # cur

SomeoneSwaps == swapping => \E t \in Reqs : pc[t] \in Swapping

WInv == Sleepers /\ Waited /\ SomeoneSwaps

LEMMA WaitedStep ==
    ASSUME IInv, Waited, [Next]_vars
    PROVE  Waited'
  <1> USE DEF IInv
  <1>1. ASSUME UNCHANGED <<pc, old>>, cur' \in {cur, NoEngine}
        PROVE  Waited'
    BY <1>1, NoEngineAssumption DEF Waited
  <1>2. ASSUME NEW t \in Reqs, NEW at, at \notin Retiring, Goto(t, at), cur' \in {cur, NoEngine},
               old' = old \/ old' = [old EXCEPT ![t] = NoEngine]
        PROVE  Waited'
    BY <1>2, NoEngineAssumption DEF Waited, Goto, TypeOK
  <1>3. ASSUME NEW t \in Reqs, NEW at, cur # NoEngine, cur' = NoEngine, WaitToRetire(t, at)
        PROVE  Waited'
    BY <1>3, NoEngineAssumption DEF Waited, WaitToRetire, TypeOK
  <1> USE DEF Retiring
  <1>4. ASSUME NEW t \in Reqs, Arrive(t)
        PROVE  Waited'
    <2>1. PICK r \in Request : Goto(t, IF r.kind \in {"chat", "load"} THEN "acquire" ELSE r.kind)
      BY <1>4 DEF Arrive
    <2>2. r.kind \in {"chat", "load", "unload", "close", "embed"}
      BY DEF Request
    <2> QED
      BY <1>4, <2>1, <2>2, <1>2 DEF Arrive, server
  <1>5. ASSUME NEW t \in Reqs, Acquire(t)
        PROVE  Waited'
    <2>1. CASE RetireBroken(t)
      BY <2>1, <1>1, <1>2, <1>3 DEF RetireBroken, RetireResident
    <2>2. CASE RetireAgain(t)
      BY <2>2, <1>1 DEF RetireAgain, local
    <2>3. CASE AcquireHit(t) \/ AcquireWait(t)
      BY <2>3, <1>2 DEF AcquireHit, AcquireWait
    <2>4. CASE AcquireSwap(t)
      BY <2>4, <1>2, <1>3 DEF AcquireSwap, RetireResident
    <2>5. CASE SwapRetired(t) \/ OpenFailed(t)
      BY <2>5, <1>2 DEF SwapRetired, OpenFailed, server
    <2>6. CASE OpenDone(t)
      <3>1. PICK e \in Engines : Fresh(e) /\ cur' = e
        BY <2>6 DEF OpenDone
      <3>2. \A u \in Reqs : pc'[u] \in Retiring => pc[u] \in Retiring
        BY <2>6 DEF OpenDone, Goto, TypeOK
      <3> QED
        BY <2>6, <3>1, <3>2 DEF OpenDone, Fresh, Waited
    <2> QED
      BY <1>5, <2>1, <2>2, <2>3, <2>4, <2>5, <2>6 DEF Acquire
  <1>6. ASSUME NEW t \in Reqs, Chat(t)
        PROVE  Waited'
    <2>1. CASE Submit(t) \/ ChatReturns(t) \/ GiveUp(t) \/ NoteKeepAlive(t)
      BY <2>1, <1>2 DEF Submit, ChatReturns, GiveUp, NoteKeepAlive, server
    <2>2. CASE Reload(t) \/ Release(t)
      BY <2>2, <1>2 DEF Reload, Release
    <2> QED
      BY <1>6, <2>1, <2>2 DEF Chat
  <1>7. ASSUME NEW t \in Reqs, LetGo(t)
        PROVE  Waited'
    <2>1. CASE UnloadWait(t)
      BY <2>1, <1>1 DEF UnloadWait, local
    <2>2. CASE Unload(t)
      BY <2>2, <1>2, <1>3 DEF Unload, RetireResident, Resident
    <2>3. CASE UnloadOther(t) \/ UnloadRetired(t) \/ CloseRetired(t)
      BY <2>3, <1>2 DEF UnloadOther, UnloadRetired, CloseRetired, server
    <2>5. CASE UnloadEmb(t)
      BY <2>5, <1>1, <1>2, Aside
    <2>4. CASE Close(t)
      BY <2>4, <1>2, <1>3 DEF Close, RetireResident
    <2> QED
      BY <1>7, <2>1, <2>2, <2>3, <2>4, <2>5 DEF LetGo
  <1>8. CASE TimerFires
    BY <1>8, <1>1 DEF TimerFires, local
  <1>9. ASSUME NEW e \in Engines, IdleCallback(e) \/ BackendFails(e) \/ GoesDown(e)
        PROVE  Waited'
    BY <1>9, <1>1 DEF IdleCallback, BackendFails, GoesDown, RetireResident, local, server
  <1>10. ASSUME NEW t \in Reqs, Embed(t)
         PROVE  Waited'
    BY <1>10, <1>1, <1>2, Aside
  <1>11. CASE UNCHANGED vars
    BY <1>11, <1>1 DEF vars
  <1> QED
    BY <1>4, <1>5, <1>6, <1>7, <1>8, <1>9, <1>10, <1>11 DEF Next

LEMMA SomeoneSwapsStep ==
    ASSUME IInv, SomeoneSwaps, [Next]_vars
    PROVE  SomeoneSwaps'
  <1> USE DEF IInv
  <1>1. ASSUME UNCHANGED <<pc, swapping>>
        PROVE  SomeoneSwaps'
    BY <1>1 DEF SomeoneSwaps
  <1>2. ASSUME ~swapping'
        PROVE  SomeoneSwaps'
    BY <1>2 DEF SomeoneSwaps
  <1>3. ASSUME NEW t \in Reqs, NEW at, Goto(t, at),
               at \in Swapping \/ (pc[t] \notin Swapping /\ UNCHANGED swapping)
        PROVE  SomeoneSwaps'
    <2>1. pc'[t] = at /\ \A u \in Reqs \ {t} : pc'[u] = pc[u]
      BY <1>3 DEF Goto, TypeOK
    <2> QED
      BY <1>3, <2>1 DEF SomeoneSwaps
  <1>4. ASSUME NEW t \in Reqs, NEW at, WaitToRetire(t, at),
               at \in Swapping \/ (pc[t] \notin Swapping /\ UNCHANGED swapping)
        PROVE  SomeoneSwaps'
    BY <1>4, <1>3 DEF WaitToRetire, Goto
  <1> USE DEF Retiring, Swapping
  <1>5. ASSUME NEW t \in Reqs, Arrive(t)
        PROVE  SomeoneSwaps'
    <2>1. PICK r \in Request : Goto(t, IF r.kind \in {"chat", "load"} THEN "acquire" ELSE r.kind)
      BY <1>5 DEF Arrive
    <2> QED
      BY <1>5, <2>1, <1>3 DEF Arrive, server
  <1>6. ASSUME NEW t \in Reqs, Acquire(t)
        PROVE  SomeoneSwaps'
    <2>1. PastBrokenCheck(t) => pc[t] \notin Swapping
      BY DEF PastBrokenCheck, Awake, Retired
    <2>2. CASE RetireBroken(t)
      <3>1. pc[t] \notin Swapping
        BY <2>2 DEF RetireBroken, Awake
      <3> QED
        BY <2>2, <3>1, <1>1, <1>3, <1>4 DEF RetireBroken
    <2>3. CASE RetireAgain(t)
      BY <2>3, <1>1 DEF RetireAgain, local
    <2>4. CASE AcquireHit(t) \/ AcquireWait(t)
      BY <2>4, <2>1, <1>3 DEF AcquireHit, AcquireWait
    <2>5. CASE AcquireSwap(t)
      BY <2>5, <1>3, <1>4 DEF AcquireSwap
    <2>6. CASE SwapRetired(t)
      BY <2>6, <1>3 DEF SwapRetired
    <2>7. CASE OpenDone(t) \/ OpenFailed(t)
      BY <2>7, <1>2 DEF OpenDone, OpenFailed
    <2> QED
      BY <1>6, <2>2, <2>3, <2>4, <2>5, <2>6, <2>7 DEF Acquire
  <1>7. ASSUME NEW t \in Reqs, Chat(t)
        PROVE  SomeoneSwaps'
    <2>1. CASE Submit(t) \/ ChatReturns(t) \/ GiveUp(t) \/ NoteKeepAlive(t)
      BY <2>1, <1>3 DEF Submit, ChatReturns, GiveUp, NoteKeepAlive, server, WentDown
    <2>2. CASE Reload(t) \/ Release(t)
      BY <2>2, <1>3 DEF Reload, Release, WentDown
    <2> QED
      BY <1>7, <2>1, <2>2 DEF Chat
  <1>8. ASSUME NEW t \in Reqs, LetGo(t)
        PROVE  SomeoneSwaps'
    <2>1. CASE UnloadWait(t)
      BY <2>1, <1>1 DEF UnloadWait, local
    <2>2. CASE Unload(t)
      <3>1. pc[t] \notin Swapping
        BY <2>2 DEF Unload, Awake
      <3> QED
        BY <2>2, <3>1, <1>3, <1>4 DEF Unload
    <2>3. CASE UnloadOther(t)
      BY <2>3, <1>3 DEF UnloadOther, Awake
    <2>4. CASE UnloadRetired(t)
      BY <2>4, <1>2 DEF UnloadRetired
    <2>5. CASE Close(t)
      BY <2>5, <1>3, <1>4 DEF Close
    <2>6. CASE CloseRetired(t)
      BY <2>6, <1>3 DEF CloseRetired, server, Retired, Awake
    <2>7. CASE UnloadEmb(t)
      BY <2>7, <1>1, <1>3, Aside
    <2> QED
      BY <1>8, <2>1, <2>2, <2>3, <2>4, <2>5, <2>6, <2>7 DEF LetGo
  <1>9. CASE TimerFires
    BY <1>9, <1>1 DEF TimerFires, local
  <1>10. ASSUME NEW e \in Engines, IdleCallback(e) \/ BackendFails(e) \/ GoesDown(e)
        PROVE  SomeoneSwaps'
    BY <1>10, <1>1 DEF IdleCallback, BackendFails, GoesDown, local, server
  <1>11. ASSUME NEW t \in Reqs, Embed(t)
         PROVE  SomeoneSwaps'
    BY <1>11, <1>1, <1>3, Aside
  <1>12. CASE UNCHANGED vars
    BY <1>12, <1>1 DEF vars
  <1> QED
    BY <1>5, <1>6, <1>7, <1>8, <1>9, <1>10, <1>11, <1>12 DEF Next

LEMMA SleepersStep ==
    ASSUME IInv, WInv, [Next]_vars
    PROVE  Sleepers'
  <1> USE DEF IInv, WInv
  <1>1. ASSUME asleep' = {}
        PROVE  Sleepers'
    BY <1>1 DEF Sleepers
  <1>2. ASSUME UNCHANGED <<asleep, swapping, refs, pc, old>>
        PROVE  Sleepers'
    BY <1>2 DEF Sleepers, EmbLoading
  \* Whoever swaps the embedding model goes on doing so while t moves.
  <1>0. ASSUME NEW t \in Reqs, pc[t] # "embedding", NEW at, Goto(t, at)
        PROVE  EmbLoading => EmbLoading'
    BY <1>0 DEF EmbLoading, Goto, TypeOK
  <1>3. ASSUME NEW t \in Reqs, t \notin asleep, pc[t] # "embedding", NEW at, Goto(t, at),
               UNCHANGED <<asleep, refs>>,
               swapping => swapping', old' = old \/ old' = [old EXCEPT ![t] = NoEngine]
        PROVE  Sleepers'
    <2>1. EmbLoading => EmbLoading'
      BY <1>0, <1>3
    <2>2. \A u \in asleep : pc'[u] = pc[u] /\ old'[u] = old[u]
      BY <1>3 DEF Goto, TypeOK
    <2> QED
      BY <1>3, <2>1, <2>2 DEF Sleepers
  <1>4. ASSUME NEW t \in Reqs, NEW at, at \in Retiring, cur # NoEngine, Drop(cur, NoEngine),
               WaitToRetire(t, at)
        PROVE  Sleepers'
    <2>1. cur \in Engines /\ refs[cur] \in Nat
      BY <1>4 DEF TypeOK
    <2>2. refs'[cur] = refs[cur] - 1 /\ refs[cur] > 1
      BY <1>4 DEF Drop, WaitToRetire, TypeOK
    <2>3. asleep' = {t} /\ pc'[t] = at /\ old'[t] = cur
      BY <1>4 DEF WaitToRetire, TypeOK
    <2> QED
      BY <1>4, <2>1, <2>2, <2>3 DEF Sleepers
  <1>5. \A t \in asleep :
            t \in Reqs /\ pc[t] \in {"acquire", "unload", "embed", "unloadEmb"} \cup Retiring
    BY DEF Sleepers, TypeOK
  <1> USE DEF Retiring
  <1>6. ASSUME NEW t \in Reqs, Arrive(t)
        PROVE  Sleepers'
    <2>1. PICK r \in Request : Goto(t, IF r.kind \in {"chat", "load"} THEN "acquire" ELSE r.kind)
      BY <1>6 DEF Arrive
    <2> QED
      BY <1>6, <2>1, <1>3, <1>5 DEF Arrive, server, lease
  <1>7. ASSUME NEW t \in Reqs, Acquire(t)
        PROVE  Sleepers'
    <2>1. CASE RetireBroken(t)
      <3>1. CASE WaitToRetire(t, "retireBroken")
        BY <2>1, <3>1, <1>4 DEF RetireBroken, RetireResident
      <3>2. CASE swapping /\ asleep' = {t} /\ UNCHANGED <<swapping, pc, old>>
        BY <2>1, <3>2 DEF RetireBroken, Awake, Sleepers
      <3> QED
        BY <2>1, <3>1, <3>2, <1>1 DEF RetireBroken, Broadcast
    <2>2. CASE RetireAgain(t)
      BY <2>2 DEF RetireAgain, Sleep, Sleepers, EmbLoading, lease, local
    <2>3. CASE AcquireHit(t)
      <3>1. t \notin asleep /\ UNCHANGED <<asleep, swapping>>
        BY <2>3 DEF AcquireHit, PastBrokenCheck, Awake, Retired
      <3>2. cur \in Engines /\ refs' = [refs EXCEPT ![cur] = @ + 1]
        BY <2>3 DEF AcquireHit, Resident, TypeOK
      <3>3. \A u \in asleep : pc'[u] = pc[u] /\ old'[u] = old[u]
        BY <2>3, <3>1, <1>5 DEF AcquireHit, Goto, TypeOK
      <3>4. ASSUME NEW u \in asleep
            PROVE  refs[old[u]] > 0 /\ pc[u] \in Retiring => refs'[old[u]] > 0
        BY <3>2, <3>4, <1>5 DEF TypeOK, Waited
      <3>5. EmbLoading => EmbLoading'
        BY <2>3, <1>0 DEF AcquireHit, PastBrokenCheck, Awake, Retired
      <3> QED
        BY <3>1, <3>3, <3>4, <3>5 DEF Sleepers
    <2>4. CASE AcquireWait(t)
      <3>1. swapping /\ swapping' /\ asleep' = asleep \cup {t} /\ UNCHANGED refs
        BY <2>4 DEF AcquireWait, Sleep, lease
      <3>2. pc'[t] = "acquire" /\ \A u \in asleep \ {t} : pc'[u] = pc[u] /\ old'[u] = old[u]
        BY <2>4, <1>5 DEF AcquireWait, Goto, TypeOK
      <3>3. EmbLoading => EmbLoading'
        BY <2>4, <1>0 DEF AcquireWait, PastBrokenCheck, Awake, Retired
      <3> QED
        BY <3>1, <3>2, <3>3 DEF Sleepers
    <2>5. CASE AcquireSwap(t)
      <3>1. t \notin asleep /\ pc[t] # "embedding"
        BY <2>5 DEF AcquireSwap, PastBrokenCheck, Awake, Retired
      <3> QED
        BY <2>5, <3>1, <1>1, <1>3, <1>4 DEF AcquireSwap, RetireResident, Broadcast
    <2>6. CASE SwapRetired(t)
      BY <2>6, <1>3 DEF SwapRetired, Retired, Awake, server, lease
    <2>7. CASE OpenDone(t) \/ OpenFailed(t)
      BY <2>7, <1>1 DEF OpenDone, OpenFailed, Broadcast
    <2> QED
      BY <1>7, <2>1, <2>2, <2>3, <2>4, <2>5, <2>6, <2>7 DEF Acquire
  <1>8. ASSUME NEW t \in Reqs, Chat(t)
        PROVE  Sleepers'
    <2>1. t \notin asleep /\ pc[t] # "embedding"
      BY <1>8, <1>5 DEF Chat, Submit, ChatReturns, Reload, GiveUp, NoteKeepAlive, Release, WentDown
    <2>2. CASE Submit(t) \/ ChatReturns(t) \/ GiveUp(t) \/ NoteKeepAlive(t)
      BY <2>1, <2>2, <1>3 DEF Submit, ChatReturns, GiveUp, NoteKeepAlive, server, lease
    <2>3. CASE Reload(t)
      BY <2>3, <1>1 DEF Reload, Broadcast
    <2>4. CASE Release(t)
      BY <2>1, <2>4, <1>1, <1>3 DEF Release, Broadcast
    <2> QED
      BY <1>8, <2>2, <2>3, <2>4 DEF Chat
  <1>9. ASSUME NEW t \in Reqs, LetGo(t)
        PROVE  Sleepers'
    <2>1. CASE UnloadWait(t)
      BY <2>1 DEF UnloadWait, Awake, Sleep, Sleepers, EmbLoading, lease, local
    \* t goes to sleep until the embedding model has been swapped.
    <2>7. ASSUME EmbLoading, Goto(t, "unloadEmb"), asleep' \subseteq asleep \cup {t},
                 pc[t] # "embedding", t \notin asleep,
                 asleep' = {t} \/ UNCHANGED <<swapping, refs, old>>
          PROVE  Sleepers'
      <3>1. EmbLoading'
        BY <1>0, <2>7
      <3>2. \A u \in asleep : pc'[u] = pc[u]
        BY <2>7 DEF Goto, TypeOK
      <3>3. pc'[t] = "unloadEmb"
        BY <2>7 DEF Goto, TypeOK
      <3> QED
        BY <2>7, <3>1, <3>2, <3>3 DEF Sleepers
    <2>2. CASE Unload(t)
      <3>1. CASE EmbLoading /\ Goto(t, "unloadEmb") /\ asleep' = {t}
        BY <2>2, <3>1, <2>7 DEF Unload, Awake
      <3>2. CASE ~(EmbLoading /\ Goto(t, "unloadEmb") /\ asleep' = {t})
        BY <2>2, <3>2, <1>1, <1>4 DEF Unload, RetireResident, Resident, Broadcast
      <3> QED
        BY <3>1, <3>2
    <2>3. CASE UnloadOther(t)
      <3>1. CASE EmbLoading /\ Goto(t, "unloadEmb") /\ Sleep(t)
        BY <2>3, <3>1, <2>7 DEF UnloadOther, Awake, Sleep, lease
      <3>2. CASE ~(EmbLoading /\ Goto(t, "unloadEmb") /\ Sleep(t))
        BY <2>3, <3>2, <1>3 DEF UnloadOther, Awake, lease
      <3> QED
        BY <3>1, <3>2
    <2>4. CASE UnloadRetired(t)
      <3>1. CASE EmbLoading /\ Goto(t, "unloadEmb") /\ asleep' = {t}
        BY <2>4, <3>1, <2>7 DEF UnloadRetired, Retired, Awake
      <3>2. CASE ~(EmbLoading /\ Goto(t, "unloadEmb") /\ asleep' = {t})
        BY <2>4, <3>2, <1>1 DEF UnloadRetired, Broadcast
      <3> QED
        BY <3>1, <3>2
    <2>5. CASE Close(t)
      <3>1. t \notin asleep /\ pc[t] # "embedding"
        BY <2>5, <1>5 DEF Close
      <3> QED
        BY <2>5, <3>1, <1>1, <1>3, <1>4 DEF Close, RetireResident, Broadcast
    <2>6. CASE CloseRetired(t)
      BY <2>6, <1>3 DEF CloseRetired, Retired, Awake, server, lease
    <2>8. CASE UnloadEmb(t)
      <3>1. CASE EmbLoading /\ Sleep(t) /\ UNCHANGED pc
        BY <2>8, <3>1 DEF UnloadEmb, Awake, Sleep, Sleepers, EmbLoading, lease
      <3>2. CASE Goto(t, "done") /\ UNCHANGED asleep
        BY <2>8, <3>2, <1>3 DEF UnloadEmb, Awake, lease
      <3> QED
        BY <2>8, <3>1, <3>2 DEF UnloadEmb
    <2> QED
      BY <1>9, <2>1, <2>2, <2>3, <2>4, <2>5, <2>6, <2>8 DEF LetGo
  <1>10. CASE TimerFires
    BY <1>10, <1>2 DEF TimerFires, lease, local
  <1>11. ASSUME NEW e \in Engines, IdleCallback(e) \/ BackendFails(e) \/ GoesDown(e)
        PROVE  Sleepers'
    BY <1>11, <1>1, <1>2 DEF IdleCallback, BackendFails, GoesDown, Broadcast, local, server
  <1>12. ASSUME NEW t \in Reqs, Embed(t)
        PROVE  Sleepers'
    <2>1. CASE EmbedShare(t) \/ EmbedSwapped(t)
      BY <2>1, <1>1 DEF EmbedShare, EmbedSwapped, Broadcast
    <2>2. CASE EmbedWait(t)
      BY <2>2 DEF EmbedWait, Awake, Sleep, Sleepers, EmbLoading, lease, local
    <2>3. CASE EmbedSwap(t)
      BY <2>3, <1>1, <1>3 DEF EmbedSwap, Awake, Broadcast, lease
    <2> QED
      BY <1>12, <2>1, <2>2, <2>3 DEF Embed
  <1>13. CASE UNCHANGED vars
    BY <1>13, <1>2 DEF vars
  <1> QED
    BY <1>6, <1>7, <1>8, <1>9, <1>10, <1>11, <1>12, <1>13 DEF Next

\* While any request is under way one is awake: a sleeper waits for a swapper,
\* which is awake or waits for a user, and a user never sleeps.
LEMMA SomeoneIsAwake == IInv /\ WInv => SomeoneMoves
  <1> SUFFICES ASSUME IInv, WInv, UnderWay # {}, UnderWay \subseteq asleep
               PROVE  FALSE
    BY DEF SomeoneMoves
  <1> USE DEF IInv, WInv
  <1>1. ASSUME NEW t \in Reqs, t \in asleep, pc[t] \in Retiring
        PROVE  FALSE
    <2>1. old[t] \in Engines /\ old[t] # cur /\ refs[old[t]] > 0
      BY <1>1 DEF Waited, Sleepers, Retiring
    <2>2. refs[old[t]] = Cardinality(Users(old[t]))
      BY <2>1, UsersFinite DEF RefsCountHolders
    <2>3. Users(old[t]) # {}
      BY <2>1, <2>2, FS_EmptySet
    <2>4. PICK u \in Reqs : held[u] = old[t]
      BY <2>3 DEF Users
    <2>5. pc[u] \notin WithoutLease
      BY <2>1, <2>4, NoEngineAssumption DEF HeldByPC
    <2>6. u \in UnderWay
      BY <2>5 DEF UnderWay, WithoutLease
    <2> QED
      BY <2>5, <2>6 DEF Sleepers, WithoutLease
  <1>2. PICK t \in Reqs : t \in UnderWay /\ t \in asleep
    BY DEF UnderWay
  <1>7. ~EmbLoading
    <2>1. ASSUME NEW s \in Reqs, pc[s] = "embedding" PROVE FALSE
      <3>1. s \in UnderWay
        BY <2>1 DEF UnderWay
      <3> QED
        BY <2>1, <3>1 DEF Sleepers, Retiring
    <2> QED
      BY <2>1 DEF EmbLoading
  <1>3. pc[t] \in {"acquire", "unload"} /\ swapping
    BY <1>1, <1>2, <1>7 DEF Sleepers
  <1>4. PICK s \in Reqs : pc[s] \in Swapping
    BY <1>3 DEF SomeoneSwaps
  <1>5. s \in asleep
    BY <1>4 DEF UnderWay, Swapping
  <1>6. pc[s] \in Retiring
    BY <1>4, <1>5 DEF Sleepers, Swapping, Retiring
  <1> QED
    BY <1>1, <1>5, <1>6

\* Requests never wait for each other in a circle, nor one for itself,
\* whatever swaps, unloads, reloads of failed backends and Close interleave.
THEOREM NobodyWaitsInACircle == Spec => []SomeoneMoves
  <1>1. Init => WInv
    BY DEF Init, WInv, Sleepers, Waited, SomeoneSwaps, Retiring
  <1>2. IInv /\ WInv /\ [Next]_vars => WInv'
    BY WaitedStep, SomeoneSwapsStep, SleepersStep DEF WInv
  <1> QED
    BY <1>1, <1>2, SomeoneIsAwake, InvariantHolds, PTL DEF Spec


----------------------------------------------------------------------------
(* The server's counting implements the abstract leases: each step of      *)
(* Residency is, seen through the mapping resident <- cur and users <- the *)
(* requests that hold a copy, one step of ModelLeases or none.             *)
(*                                                                         *)
(* ModelLeases frees a copy when its set of users becomes empty and it is  *)
(* not resident; the code frees it when a number reaches zero.  The        *)
(* invariant RefsCountHolders is what makes the two the same.              *)


LeaseStep == [Leases!Next]_(Leases!lvars)

\* A step that leaves the resident copy, the open copies and the holders alone
\* is a stutter of the abstract leases.
LEMMA NothingChanges ==
    ASSUME UNCHANGED <<cur, open, held>>
    PROVE  LeaseStep
  <1>1. \A e : Users(e)' = Users(e)
    BY DEF Users
  <1> QED
    BY <1>1 DEF LeaseStep, Leases!lvars

\* A request that takes the resident copy joins its users.
LEMMA JoinStep ==
    ASSUME TypeOK, NEW t \in Reqs, NEW e \in Engines, held[t] = NoEngine,
           held' = [held EXCEPT ![t] = e], cur = e, UNCHANGED <<cur, open>>
    PROVE  LeaseStep
  <1>1. Users(e)' = Users(e) \cup {t}
    BY NoEngineAssumption DEF TypeOK, Users
  <1>2. \A d \in Engines \ {e} : Users(d)' = Users(d)
    BY UsersAfterTaking
  <1>3. Leases!Join(t, e)
    BY <1>1, <1>2 DEF Leases!Join
  <1> QED
    BY <1>3 DEF LeaseStep, Leases!Next

\* A copy opened and made resident with a first holder is an abstract load.
LEMMA LoadStep ==
    ASSUME TypeOK, RefsCountHolders, NEW t \in Reqs, NEW e \in Engines, e \notin open,
           held[t] = NoEngine, held' = [held EXCEPT ![t] = e],
           cur = NoEngine, cur' = e, open' = open \cup {e}
    PROVE  LeaseStep
  <1>1. Users(e)' = Users(e) \cup {t}
    BY NoEngineAssumption DEF TypeOK, Users
  <1>2. \A d \in Engines \ {e} : Users(d)' = Users(d)
    BY UsersAfterTaking
  <1>3. refs[e] = 0
    BY DEF RefsCountHolders, TypeOK
  <1>4. Cardinality(Users(e)) = 0
    BY <1>3, UsersFinite, NoEngineAssumption DEF RefsCountHolders
  <1>5. Users(e) = {}
    BY <1>4, UsersFinite, FS_EmptySet
  <1>6. Leases!Load(t, e)
    BY <1>1, <1>2, <1>5 DEF Leases!Load
  <1> QED
    BY <1>6 DEF LeaseStep, Leases!Next

\* A release frees the copy exactly when the last user of a retired copy leaves:
\* the count says so because it counts the holders.
LEMMA LeaveStep ==
    ASSUME TypeOK, RefsCountHolders, NEW t \in Reqs, held[t] # NoEngine,
           Drop(held[t], cur), UNCHANGED cur, held' = [held EXCEPT ![t] = NoEngine]
    PROVE  LeaseStep
  <1>1. PICK l \in Engines : held[t] = l
    BY DEF TypeOK
  <1>2. Users(l)' = Users(l) \ {t} /\ t \in Users(l)
    BY <1>1, NoEngineAssumption DEF TypeOK, Users
  <1>3. \A d \in Engines \ {l} : Users(d)' = Users(d)
    BY <1>1, UsersAfterLettingGo
  <1>4. refs[l] = Cardinality(Users(l)) + (IF cur = l THEN 1 ELSE 0)
    BY DEF RefsCountHolders
  <1>5. refs[l] = 1 <=> cur # l /\ Users(l) = {t}
    <2>1. Cardinality(Users(l) \ {t}) = Cardinality(Users(l)) - 1
      BY <1>2, UsersFinite, FS_RemoveElement
    <2>2. Cardinality(Users(l)) > 0
      BY <1>2, UsersFinite, FS_EmptySet
    <2>3. IsFiniteSet(Users(l) \ {t})
      BY UsersFinite, FS_Subset
    <2>4. Cardinality(Users(l)) = 1 <=> Users(l) \ {t} = {}
      BY <2>1, <2>2, <2>3, UsersFinite, FS_EmptySet
    <2>5. Users(l) \ {t} = {} <=> Users(l) = {t}
      BY <1>2
    <2> QED
      BY <1>4, <2>2, <2>4, <2>5, UsersFinite
  <1>6. open' = IF cur # l /\ Users(l) = {t} THEN open \ {l} ELSE open
    BY <1>1, <1>5 DEF Drop
  <1>7. Leases!Leave(t, l)
    BY <1>2, <1>3, <1>6 DEF Leases!Leave
  <1> QED
    BY <1>7 DEF LeaseStep, Leases!Next

\* Dropping the server's own reference is an abstract retirement.
LEMMA RetireStep ==
    ASSUME TypeOK, RefsCountHolders, cur # NoEngine, RetireResident, UNCHANGED held
    PROVE  LeaseStep
  <1>1. PICK e \in Engines : cur = e
    BY DEF TypeOK
  <1>2. refs[e] = Cardinality(Users(e)) + 1
    BY <1>1 DEF RefsCountHolders
  <1>3. refs[e] = 1 <=> Users(e) = {}
    BY <1>2, UsersFinite, FS_EmptySet
  <1>4. open' = IF Users(e) = {} THEN open \ {e} ELSE open
    BY <1>1, <1>3 DEF RetireResident, Drop
  <1>5. \A d \in Engines : Users(d)' = Users(d)
    BY DEF Users
  <1>6. Leases!Retire(e)
    BY <1>1, <1>4, <1>5 DEF Leases!Retire, RetireResident
  <1> QED
    BY <1>6 DEF LeaseStep, Leases!Next

\* Each action of the server is one step of the abstract leases, or none.
LEMMA EveryStep ==
    ASSUME IInv, [Next]_vars
    PROVE  LeaseStep
  <1> USE DEF IInv
  <1>1. ASSUME NEW t \in Reqs, Arrive(t) \/ Acquire(t)
        PROVE  LeaseStep
    <2>1. CASE Arrive(t)
      BY <2>1, NothingChanges DEF Arrive, server, lease
    <2>2. CASE RetireBroken(t)
      BY <2>2, RetireStep DEF RetireBroken
    <2>3. CASE RetireAgain(t)
      BY <2>3, NothingChanges DEF RetireAgain, lease, local
    <2>4. CASE AcquireHit(t)
      <3>1. PICK e \in Engines : e = cur
        BY <2>4 DEF AcquireHit, Resident, TypeOK
      <3>2. held[t] = NoEngine
        BY <2>4 DEF AcquireHit, PastBrokenCheck, Awake, Retired, HeldByPC, WithoutLease,
                    Retiring
      <3> QED
        BY <2>4, <3>1, <3>2, JoinStep DEF AcquireHit
    <2>5. CASE AcquireWait(t)
      BY <2>5, NothingChanges DEF AcquireWait, lease
    <2>6. CASE AcquireSwap(t)
      BY <2>6, NothingChanges, RetireStep DEF AcquireSwap
    <2>7. CASE SwapRetired(t)
      BY <2>7, NothingChanges DEF SwapRetired, server, lease
    <2>8. CASE OpenDone(t)
      <3>1. PICK e \in Engines :
               /\ Fresh(e)
               /\ cur' = e
               /\ open' = open \cup {e}
               /\ held' = [held EXCEPT ![t] = e]
        BY <2>8 DEF OpenDone
      <3>2. cur = NoEngine /\ held[t] = NoEngine
        BY <2>8 DEF OpenDone, OneSwapper, HeldByPC, Swapping, WithoutLease
      <3> QED
        BY <3>1, <3>2, LoadStep DEF Fresh
    <2>9. CASE OpenFailed(t)
      BY <2>9, NothingChanges DEF OpenFailed, lease
    <2> QED
      BY <1>1, <2>1, <2>2, <2>3, <2>4, <2>5, <2>6, <2>7, <2>8, <2>9 DEF Acquire
  <1>2. ASSUME NEW t \in Reqs, Chat(t)
        PROVE  LeaseStep
    <2>1. CASE Submit(t) \/ ChatReturns(t) \/ GiveUp(t)
      BY <2>1, NothingChanges DEF Submit, ChatReturns, GiveUp, server, lease
    <2>2. CASE NoteKeepAlive(t)
      BY <2>2, NothingChanges DEF NoteKeepAlive, server
    <2>3. CASE Reload(t)
      <3>1. held[t] # NoEngine
        BY <2>3 DEF Reload, WentDown, HeldByPC, WithLease
      <3> QED
        BY <2>3, <3>1, LeaveStep DEF Reload
    <2>4. CASE Release(t)
      <3>1. CASE held[t] = NoEngine
        <4>1. held' = held
          BY <2>4, <3>1 DEF Release, TypeOK
        <4> QED
          BY <2>4, <3>1, <4>1, NothingChanges DEF Release
      <3>2. CASE held[t] # NoEngine
        BY <2>4, <3>2, LeaveStep DEF Release
      <3> QED
        BY <3>1, <3>2
    <2> QED
      BY <1>2, <2>1, <2>2, <2>3, <2>4 DEF Chat
  <1>3. ASSUME NEW t \in Reqs, LetGo(t)
        PROVE  LeaseStep
    <2>1. CASE UnloadWait(t) \/ UnloadOther(t) \/ UnloadRetired(t) \/ CloseRetired(t)
      BY <2>1, NothingChanges
         DEF UnloadWait, UnloadOther, UnloadRetired, CloseRetired, server, lease, local
    <2>2. CASE Unload(t)
      BY <2>2, RetireStep DEF Unload, Resident
    <2>3. CASE Close(t)
      BY <2>3, NothingChanges, RetireStep DEF Close
    <2>4. CASE UnloadEmb(t)
      BY <2>4, NothingChanges, Aside DEF lease
    <2> QED
      BY <1>3, <2>1, <2>2, <2>3, <2>4 DEF LetGo
  <1>4. CASE TimerFires
    BY <1>4, NothingChanges DEF TimerFires, lease, local
  <1>5. ASSUME NEW e \in Engines, IdleCallback(e) \/ BackendFails(e) \/ GoesDown(e)
        PROVE  LeaseStep
    <2>1. CASE IdleCallback(e)
      BY <2>1, NothingChanges, RetireStep, NoEngineAssumption DEF IdleCallback, local
    <2>2. CASE BackendFails(e) \/ GoesDown(e)
      BY <2>2, NothingChanges DEF BackendFails, GoesDown, server, local
    <2> QED
      BY <1>5, <2>1, <2>2
  <1>6. ASSUME NEW t \in Reqs, Embed(t)
        PROVE  LeaseStep
    BY <1>6, NothingChanges, Aside DEF lease
  <1>7. CASE UNCHANGED vars
    BY <1>7, NothingChanges DEF vars
  <1> QED
    BY <1>1, <1>2, <1>3, <1>4, <1>5, <1>6, <1>7 DEF Next

\* What the server does with the memory is what ModelLeases promises: a copy
\* is given out only while resident, freed by its last user and not before,
\* and kept by nobody after that.
THEOREM CountingImplementsLeases == Spec => ImplementsLeases
  <1>1. Init => Leases!Init
    BY NoEngineAssumption DEF Init, Leases!Init, Users
  <1>2. IInv /\ [Next]_vars => LeaseStep
    BY EveryStep
  <1> QED
    BY <1>1, <1>2, InvariantHolds, PTL DEF Spec, ImplementsLeases, Leases!Spec, LeaseStep

----------------------------------------------------------------------------
(* The countdown, and one model at a time.                                 *)
(*                                                                         *)
(* Both hold as long as no backend fails and the server is not closed: one *)
(* model is in memory, its countdown runs exactly while nobody uses it and *)
(* it may go, and an unload returns with the memory free.                  *)
(*                                                                         *)
(* The countdown alone is not inductive: a wish noted for a copy that is   *)
(* not the one the request used could end a stay for ever without starting *)
(* a countdown.  That the two are the same copy follows from Single: what  *)
(* is open is resident, or what the one swapper waits for.                 *)

Steady == ~MayBreak /\ "close" \notin Kinds

Draining == {"retireSwap", "retireUnload"}

Healthy ==
    /\ \A e \in Engines : health[e] = "ok"
    /\ \A t \in Reqs :
        /\ reloads[t] = 0
        /\ pc[t] \notin {"queued", "lost", "retireBroken", "retireClose", "close"}
        /\ pc[t] \in {"note", "release"} => held[t] # NoEngine

Single ==
    /\ \A e \in open : cur = e \/ \E t \in Reqs : pc[t] \in Draining /\ old[t] = e
    /\ \A t \in Reqs : pc[t] = "loading" => open = {}

JInv == Steady /\ IInv /\ Healthy /\ Single /\ IdleClockRuns /\ IdleClockOnlyWhenIdle

----------------------------------------------------------------------------
(* What can happen.                                                        *)

LEMMA ResidentIsOpen ==
    ASSUME IInv, cur # NoEngine
    PROVE  cur \in Engines /\ cur \in open /\ refs[cur] \in Nat /\ refs[cur] > 0
  BY UsersFinite DEF IInv, TypeOK, RefsCountHolders

\* A copy in use that is resident has two holders, the server and its user.
LEMMA UsedTwice ==
    ASSUME IInv, NEW t \in Reqs, cur # NoEngine, held[t] = cur
    PROVE  refs[cur] > 1
  <1>1. t \in Users(cur) /\ cur \in Engines
    BY DEF Users, IInv, TypeOK
  <1>2. Cardinality(Users(cur)) # 0
    BY <1>1, UsersFinite, FS_EmptySet
  <1> QED
    BY <1>1, <1>2, UsersFinite DEF IInv, RefsCountHolders

\* What a request holds is resident unless it is being waited for.
LEMMA HeldIsResident ==
    ASSUME IInv, Single, NEW t \in Reqs, held[t] # NoEngine, cur # NoEngine
    PROVE  held[t] = cur
  <1>1. held[t] \in Engines
    BY DEF IInv, TypeOK
  <1>2. t \in Users(held[t])
    BY DEF Users
  <1>3. Cardinality(Users(held[t])) # 0
    BY <1>2, UsersFinite, FS_EmptySet
  <1>4. held[t] \in open
    BY <1>1, <1>3, UsersFinite DEF IInv, RefsCountHolders
  <1>5. \A u \in Reqs : pc[u] \notin Draining
    BY DEF IInv, OneSwapper, Draining, Swapping
  <1> QED
    BY <1>4, <1>5 DEF Single

\* With nobody swapping, what is open is resident.
LEMMA OnlyResident ==
    ASSUME IInv, Single, ~swapping
    PROVE  \A e \in open : cur = e
  BY DEF IInv, OneSwapper, Single, Draining, Swapping

LEMMA NoFailure ==
    ASSUME JInv
    PROVE  /\ \A t \in Reqs : ~RetireBroken(t) /\ ~WentDown(t) /\ ~Close(t) /\ ~CloseRetired(t)
           /\ \A e \in Engines : ~BackendFails(e) /\ ~GoesDown(e)
           /\ \A t \in Reqs : PastBrokenCheck(t) => pc[t] = "acquire"
  <1> USE DEF JInv, Healthy, IInv, TypeOK
  <1>1. ASSUME NEW t \in Reqs
        PROVE  /\ ~RetireBroken(t) /\ ~Close(t) /\ ~CloseRetired(t)
               /\ PastBrokenCheck(t) => pc[t] = "acquire"
    BY DEF RetireBroken, Broken, Close, CloseRetired, Retired, Awake, PastBrokenCheck
  <1>2. ASSUME NEW t \in Reqs PROVE ~WentDown(t)
    <2>1. pc[t] = "running" => held[t] \in Engines
      BY DEF HeldByPC, WithLease
    <2> QED
      BY <2>1 DEF WentDown
  <1>3. ASSUME NEW e \in Engines PROVE ~BackendFails(e) /\ ~GoesDown(e)
    BY DEF BackendFails, GoesDown, Steady
  <1> QED
    BY <1>1, <1>2, <1>3

LEMMA InitSteady == Steady /\ Init => JInv
  <1> SUFFICES ASSUME Steady, Init PROVE JInv
    OBVIOUS
  <1> QED
    BY InitInvariant DEF JInv, Init, Healthy, Single, IdleClockRuns, IdleClockOnlyWhenIdle

----------------------------------------------------------------------------
(* No copy fails.                                                          *)

LEMMA HealthyStep ==
    ASSUME JInv, Next
    PROVE  Healthy'
  <1> USE DEF JInv, Healthy, IInv, TypeOK
  <1>1. ASSUME NEW t \in Reqs, Arrive(t) PROVE Healthy'
    <2>1. PICK r \in Request : Goto(t, IF r.kind \in {"chat", "load"} THEN "acquire" ELSE r.kind)
      BY <1>1 DEF Arrive
    <2>2. r.kind \in {"chat", "load", "unload", "embed"}
      BY ModesAssumption DEF Request, Steady
    <2> QED
      BY <1>1, <2>1, <2>2 DEF Arrive, Goto, lease
  <1>2. ASSUME NEW t \in Reqs, Acquire(t) PROVE Healthy'
    <2>1. CASE RetireAgain(t)
      BY <2>1 DEF RetireAgain, lease, local
    <2>2. CASE AcquireHit(t)
      BY <2>2 DEF AcquireHit, Resident, Goto
    <2>3. CASE AcquireWait(t)
      BY <2>3 DEF AcquireWait, Goto, lease
    <2>4. CASE AcquireSwap(t)
      <3>1. pc' \in {[pc EXCEPT ![t] = "loading"], [pc EXCEPT ![t] = "retireSwap"]}
        BY <2>4 DEF AcquireSwap, Goto, WaitToRetire
      <3> QED
        BY <2>4, <3>1 DEF AcquireSwap
    <2>5. CASE SwapRetired(t)
      BY <2>5 DEF SwapRetired, Goto, lease
    <2>6. CASE OpenDone(t)
      <3>1. PICK e \in Engines : health' = [health EXCEPT ![e] = "ok"] /\ held' = [held EXCEPT ![t] = e]
        BY <2>6 DEF OpenDone
      <3> QED
        BY <2>6, <3>1, NoEngineAssumption DEF OpenDone, Goto
    <2>7. CASE OpenFailed(t)
      BY <2>7 DEF OpenFailed, Goto, lease
    <2> QED
      BY <1>2, <2>1, <2>2, <2>3, <2>4, <2>5, <2>6, <2>7, NoFailure DEF Acquire
  <1>3. ASSUME NEW t \in Reqs, Chat(t) PROVE Healthy'
    <2>1. CASE Submit(t)
      <3>1. held[t] \in Engines
        BY <2>1 DEF Submit, HeldByPC, WithLease
      <3>2. pc' = [pc EXCEPT ![t] = "running"]
        BY <2>1, <3>1 DEF Submit, Goto
      <3> QED
        BY <2>1, <3>2 DEF Submit, lease
    <2>2. CASE ChatReturns(t)
      BY <2>2 DEF ChatReturns, Goto, lease, HeldByPC, WithLease
    <2>3. CASE NoteKeepAlive(t)
      BY <2>3 DEF NoteKeepAlive, Goto
    <2>4. CASE Release(t)
      BY <2>4 DEF Release, Goto
    <2> QED
      BY <1>3, <2>1, <2>2, <2>3, <2>4, NoFailure DEF Chat, Reload, GiveUp
  <1>4. ASSUME NEW t \in Reqs, LetGo(t) PROVE Healthy'
    <2>1. CASE UnloadWait(t)
      BY <2>1 DEF UnloadWait, lease, local
    <2>2. CASE Unload(t)
      <3>1. \E at \in {"done", "unloadEmb", "retireUnload"} : pc' = [pc EXCEPT ![t] = at]
        BY <2>2 DEF Unload, Goto, WaitToRetire
      <3> QED
        BY <2>2, <3>1 DEF Unload
    <2>3. CASE UnloadOther(t)
      BY <2>3 DEF UnloadOther, Goto, lease
    <2>4. CASE UnloadRetired(t)
      BY <2>4 DEF UnloadRetired, Goto, lease
    <2>5. CASE UnloadEmb(t)
      BY <2>5, Aside DEF Goto, lease
    <2> QED
      BY <1>4, <2>1, <2>2, <2>3, <2>4, <2>5, NoFailure DEF LetGo
  <1>5. CASE TimerFires
    BY <1>5 DEF TimerFires, lease, local
  <1>6. ASSUME NEW e \in Engines, IdleCallback(e) PROVE Healthy'
    BY <1>6 DEF IdleCallback, local
  <1>7. ASSUME NEW t \in Reqs, Embed(t) PROVE Healthy'
    BY <1>7, Aside DEF Goto, lease
  <1> QED
    BY <1>1, <1>2, <1>3, <1>4, <1>5, <1>6, <1>7, NoFailure DEF Next

----------------------------------------------------------------------------
(* One model.                                                              *)

\* Nothing new is open, the resident copy stays, and nobody stops waiting or
\* starts to load.
LEMMA SingleStays ==
    ASSUME Single, open' \subseteq open, cur' = cur,
           \A t \in Reqs : pc[t] \in Draining => pc'[t] = pc[t] /\ old'[t] = old[t],
           \A t \in Reqs : pc'[t] = "loading" => pc[t] = "loading"
    PROVE  Single'
  BY DEF Single

\* Once nothing is open, that is all there is to it.
LEMMA NothingOpen == ASSUME open' = {} PROVE Single'
  BY DEF Single

LEMMA SingleStep ==
    ASSUME JInv, Next
    PROVE  Single'
  <1> USE DEF JInv, IInv, TypeOK, Draining
  <1>1. ASSUME NEW t \in Reqs, Arrive(t) PROVE Single'
    <2>1. PICK r \in Request : Goto(t, IF r.kind \in {"chat", "load"} THEN "acquire" ELSE r.kind)
      BY <1>1 DEF Arrive
    <2>2. r.kind # "loading"
      BY ModesAssumption DEF Request
    <2> QED
      BY <1>1, <2>1, <2>2, SingleStays DEF Arrive, Goto, lease, server
  <1>2. ASSUME NEW t \in Reqs, Acquire(t) PROVE Single'
    <2>1. CASE RetireAgain(t)
      BY <2>1, SingleStays DEF RetireAgain, lease, local
    <2>2. CASE AcquireHit(t)
      BY <2>2, NoFailure, SingleStays DEF AcquireHit, Goto
    <2>3. CASE AcquireWait(t)
      BY <2>3, NoFailure, SingleStays DEF AcquireWait, Goto, lease
    <2>4. CASE AcquireSwap(t)
      <3>1. \A e \in open : cur = e
        BY <2>4, OnlyResident DEF AcquireSwap
      <3>2. CASE cur = NoEngine
        BY <2>4, <3>1, <3>2, NoEngineAssumption, NothingOpen DEF AcquireSwap
      <3>3. CASE cur # NoEngine /\ refs[cur] = 1
        BY <2>4, <3>1, <3>3, NothingOpen DEF AcquireSwap, RetireResident, Drop, WaitToRetire
      <3>4. CASE cur # NoEngine /\ WaitToRetire(t, "retireSwap")
        <4>1. pc' = [pc EXCEPT ![t] = "retireSwap"] /\ old' = [old EXCEPT ![t] = cur]
          BY <3>4 DEF WaitToRetire
        <4>2. open' \subseteq open
          BY <2>4, <3>4 DEF AcquireSwap, RetireResident, Drop
        <4>3. \A u \in Reqs : pc[u] # "loading"
          BY <2>4 DEF AcquireSwap, OneSwapper, Swapping
        <4> QED
          BY <3>1, <4>1, <4>2, <4>3 DEF Single
      <3> QED
        BY <2>4, <3>2, <3>3, <3>4 DEF AcquireSwap
    <2>5. CASE SwapRetired(t)
      <3>1. pc[t] = "retireSwap" /\ refs[old[t]] = 0 /\ open' = open
        BY <2>5 DEF SwapRetired, Retired, Awake, lease
      <3>2. cur = NoEngine /\ \A u \in Reqs : pc[u] \in Draining => u = t
        BY <3>1 DEF OneSwapper, Swapping
      <3>3. \A e \in open : e = old[t] /\ refs[e] > 0
        BY <3>2, NoEngineAssumption DEF Single, RefsCountHolders
      <3> QED
        BY <3>1, <3>3, NothingOpen
    <2>6. CASE OpenDone(t)
      <3>1. pc[t] = "loading" /\ open = {}
        BY <2>6 DEF OpenDone, Single
      <3>2. PICK e \in Engines : cur' = e /\ open' = {e}
        BY <2>6, <3>1 DEF OpenDone
      <3>3. \A u \in Reqs : pc'[u] # "loading"
        BY <2>6 DEF OpenDone, Goto, OneSwapper, Swapping
      <3> QED
        BY <3>2, <3>3 DEF Single
    <2>7. CASE OpenFailed(t)
      BY <2>7, NothingOpen DEF OpenFailed, Single, lease
    <2> QED
      BY <1>2, <2>1, <2>2, <2>3, <2>4, <2>5, <2>6, <2>7, NoFailure DEF Acquire
  <1>3. ASSUME NEW t \in Reqs, Chat(t) PROVE Single'
    <2>1. CASE Submit(t)
      <3>1. pc[t] = "holding" /\ \A u \in Reqs \ {t} : pc'[u] = pc[u]
        BY <2>1 DEF Submit, Goto
      <3>2. pc'[t] # "loading"
        BY <2>1 DEF Submit, Goto
      <3> QED
        BY <2>1, <3>1, <3>2, SingleStays DEF Submit, lease, server
    <2>2. CASE ChatReturns(t)
      BY <2>2, SingleStays DEF ChatReturns, Goto, lease, server
    <2>3. CASE NoteKeepAlive(t)
      BY <2>3, SingleStays DEF NoteKeepAlive, Goto, server
    <2>4. CASE Release(t)
      BY <2>4, SingleStays DEF Release, Goto, Drop
    <2> QED
      BY <1>3, <2>1, <2>2, <2>3, <2>4, NoFailure DEF Chat, Reload, GiveUp
  <1>4. ASSUME NEW t \in Reqs, LetGo(t) PROVE Single'
    <2>1. CASE UnloadWait(t)
      BY <2>1, SingleStays DEF UnloadWait, lease, local
    <2>2. CASE Unload(t)
      <3>1. \A e \in open : cur = e
        BY <2>2, OnlyResident DEF Unload
      <3>2. CASE refs[cur] = 1
        BY <2>2, <3>1, <3>2, NothingOpen DEF Unload, RetireResident, Drop
      <3>3. CASE WaitToRetire(t, "retireUnload")
        <4>1. pc' = [pc EXCEPT ![t] = "retireUnload"] /\ old' = [old EXCEPT ![t] = cur]
          BY <3>3 DEF WaitToRetire
        <4>2. open' \subseteq open
          BY <2>2 DEF Unload, RetireResident, Drop
        <4>3. \A u \in Reqs : pc[u] # "loading"
          BY <2>2 DEF Unload, OneSwapper, Swapping
        <4> QED
          BY <3>1, <4>1, <4>2, <4>3 DEF Single
      <3> QED
        BY <2>2, <3>2, <3>3 DEF Unload
    <2>3. CASE UnloadOther(t)
      BY <2>3, SingleStays DEF UnloadOther, Awake, Goto, lease
    <2>4. CASE UnloadRetired(t)
      <3>1. pc[t] = "retireUnload" /\ refs[old[t]] = 0 /\ open' = open
        BY <2>4 DEF UnloadRetired, Retired, Awake, lease
      <3>2. cur = NoEngine /\ \A u \in Reqs : pc[u] \in Draining => u = t
        BY <3>1 DEF OneSwapper, Swapping
      <3>3. \A e \in open : e = old[t] /\ refs[e] > 0
        BY <3>2, NoEngineAssumption DEF Single, RefsCountHolders
      <3> QED
        BY <3>1, <3>3, NothingOpen
    <2>5. CASE UnloadEmb(t)
      BY <2>5, SingleStays, Aside DEF Goto, lease
    <2> QED
      BY <1>4, <2>1, <2>2, <2>3, <2>4, <2>5, NoFailure DEF LetGo
  <1>5. CASE TimerFires
    BY <1>5, SingleStays DEF TimerFires, lease, local
  <1>6. ASSUME NEW e \in Engines, IdleCallback(e) PROVE Single'
    <2>1. CASE UNCHANGED <<cur, open>>
      BY <1>6, <2>1, SingleStays DEF IdleCallback, local
    <2>2. CASE cur = e /\ refs[e] = 1 /\ RetireResident
      <3>1. \A u \in Reqs : pc[u] \notin Draining
        BY <2>2, NoEngineAssumption DEF OneSwapper, Swapping
      <3> QED
        BY <2>2, <3>1, NothingOpen DEF RetireResident, Drop, Single
    <2> QED
      BY <1>6, <2>1, <2>2 DEF IdleCallback
  <1>7. ASSUME NEW t \in Reqs, Embed(t) PROVE Single'
    BY <1>7, SingleStays, Aside DEF Goto, lease
  <1> QED
    BY <1>1, <1>2, <1>3, <1>4, <1>5, <1>6, <1>7, NoFailure DEF Next

----------------------------------------------------------------------------
(* Its countdown.                                                          *)

Clock == IdleClockRuns /\ IdleClockOnlyWhenIdle

\* Whatever count and copy a section ends with, the countdown it starts is the
\* right one for them.
LEMMA ArmedRight ==
    ASSUME keepAlive' = keepAlive, idle' = Armed(cur', refs')
    PROVE  Clock'
  BY DEF Clock, IdleClockRuns, IdleClockOnlyWhenIdle, Armed

\* With nothing resident there is nothing to count down.
LEMMA NothingResident ==
    ASSUME cur' = NoEngine, idle' = NoEngine
    PROVE  Clock'
  BY DEF Clock, IdleClockRuns, IdleClockOnlyWhenIdle

LEMMA RetiredClock ==
    ASSUME RetireResident
    PROVE  Clock'
  BY NothingResident DEF RetireResident, Drop, Armed

LEMMA SameClock ==
    ASSUME Clock, UNCHANGED <<cur, idle, refs, keepAlive, fired>>
    PROVE  Clock'
  BY DEF Clock, IdleClockRuns, IdleClockOnlyWhenIdle

LEMMA ClockStep ==
    ASSUME JInv, Next
    PROVE  Clock'
  <1> USE DEF JInv
  <1>0. Clock
    BY DEF Clock
  <1>1. ASSUME NEW t \in Reqs, Arrive(t) PROVE Clock'
    BY <1>0, <1>1, SameClock DEF Arrive, server, lease
  <1>2. ASSUME NEW t \in Reqs, Acquire(t) PROVE Clock'
    <2>1. CASE RetireAgain(t)
      BY <1>0, <2>1, SameClock DEF RetireAgain, lease
    <2>2. CASE AcquireHit(t)
      <3>1. refs'[cur] = refs[cur] + 1 /\ refs[cur] > 0 /\ refs[cur] \in Nat
        BY <2>2, ResidentIsOpen DEF AcquireHit, Resident, IInv, TypeOK
      <3>2. cur' = cur /\ idle' = NoEngine /\ refs'[cur'] # 1
        BY <2>2, <3>1 DEF AcquireHit
      <3> QED
        BY <3>2 DEF Clock, IdleClockRuns, IdleClockOnlyWhenIdle
    <2>3. CASE AcquireWait(t)
      BY <1>0, <2>3, SameClock DEF AcquireWait, lease
    <2>4. CASE AcquireSwap(t)
      <3>1. CASE cur' = NoEngine /\ idle' = NoEngine
        BY <3>1, NothingResident
      <3>2. CASE RetireResident
        BY <3>2, RetiredClock
      <3> QED
        BY <2>4, <3>1, <3>2 DEF AcquireSwap
    <2>5. CASE SwapRetired(t)
      BY <1>0, <2>5, SameClock DEF SwapRetired, server, lease
    <2>6. CASE OpenDone(t)
      <3>1. PICK e \in Engines : cur' = e /\ refs' = [refs EXCEPT ![e] = 2]
        BY <2>6 DEF OpenDone
      <3>2. refs'[cur'] = 2 /\ idle' = NoEngine
        BY <2>6, <3>1 DEF OpenDone, IInv, TypeOK
      <3> QED
        BY <3>2 DEF Clock, IdleClockRuns, IdleClockOnlyWhenIdle
    <2>7. CASE OpenFailed(t)
      BY <1>0, <2>7, SameClock DEF OpenFailed, lease
    <2> QED
      BY <1>2, <2>1, <2>2, <2>3, <2>4, <2>5, <2>6, <2>7, NoFailure DEF Acquire
  <1>3. ASSUME NEW t \in Reqs, Chat(t) PROVE Clock'
    <2>1. CASE Submit(t)
      BY <1>0, <2>1, SameClock DEF Submit, server, lease
    <2>2. CASE ChatReturns(t)
      BY <1>0, <2>2, SameClock DEF ChatReturns, server, lease
    <2>3. CASE NoteKeepAlive(t)
      <3>1. UNCHANGED <<cur, idle, refs, fired>>
        BY <2>3 DEF NoteKeepAlive, server
      <3>2. CASE cur = NoEngine
        BY <1>0, <3>1, <3>2 DEF Clock, IdleClockRuns, IdleClockOnlyWhenIdle
      <3>3. CASE cur # NoEngine
        <4>1. held[t] # NoEngine
          BY <2>3 DEF NoteKeepAlive, Healthy
        <4>2. refs[cur] > 1 /\ refs[cur] \in Nat
          BY <3>3, <4>1, HeldIsResident, UsedTwice, ResidentIsOpen
        <4> QED
          BY <1>0, <3>1, <4>2 DEF Clock, IdleClockRuns, IdleClockOnlyWhenIdle
      <3> QED
        BY <3>2, <3>3
    <2>4. CASE Release(t)
      <3>1. CASE UNCHANGED <<refs, idle>>
        BY <1>0, <2>4, <3>1, SameClock DEF Release
      <3>2. CASE Drop(held[t], cur)
        BY <2>4, <3>2, ArmedRight DEF Release, Drop
      <3> QED
        BY <2>4, <3>1, <3>2 DEF Release
    <2> QED
      BY <1>3, <2>1, <2>2, <2>3, <2>4, NoFailure DEF Chat, Reload, GiveUp
  <1>4. ASSUME NEW t \in Reqs, LetGo(t) PROVE Clock'
    <2>1. CASE UnloadWait(t)
      BY <1>0, <2>1, SameClock DEF UnloadWait, lease
    <2>2. CASE Unload(t)
      BY <2>2, RetiredClock DEF Unload
    <2>3. CASE UnloadOther(t)
      BY <1>0, <2>3, SameClock DEF UnloadOther, lease
    <2>4. CASE UnloadRetired(t)
      BY <1>0, <2>4, SameClock DEF UnloadRetired, lease
    <2>5. CASE UnloadEmb(t)
      BY <1>0, <2>5, SameClock, Aside DEF lease
    <2> QED
      BY <1>4, <2>1, <2>2, <2>3, <2>4, <2>5, NoFailure DEF LetGo
  <1>5. CASE TimerFires
    BY <1>0, <1>5 DEF TimerFires, lease, Clock, IdleClockRuns, IdleClockOnlyWhenIdle
  <1>6. ASSUME NEW e \in Engines, IdleCallback(e) PROVE Clock'
    <2>1. CASE RetireResident
      BY <2>1, RetiredClock
    <2>2. CASE ~(cur = e /\ refs[e] = 1)
      <3>1. UNCHANGED <<cur, idle, refs, keepAlive>> /\ fired' = fired \ {e}
        BY <1>6, <2>2 DEF IdleCallback
      <3> QED
        BY <1>0, <2>2, <3>1 DEF Clock, IdleClockRuns, IdleClockOnlyWhenIdle
    <2> QED
      BY <1>6, <2>1, <2>2 DEF IdleCallback
  <1>7. ASSUME NEW t \in Reqs, Embed(t) PROVE Clock'
    BY <1>0, <1>7, SameClock, Aside DEF lease
  <1> QED
    BY <1>1, <1>2, <1>3, <1>4, <1>5, <1>6, <1>7, NoFailure DEF Next

----------------------------------------------------------------------------
LEMMA JInvInductive == JInv /\ [Next]_vars => JInv'
  <1> SUFFICES ASSUME JInv, [Next]_vars PROVE JInv'
    OBVIOUS
  <1>1. IInv' /\ Steady'
    BY IInvInductive DEF JInv, Steady
  <1>2. CASE Next
    BY <1>1, <1>2, HealthyStep, SingleStep, ClockStep DEF JInv, Clock
  <1>3. CASE UNCHANGED vars
    BY <1>1, <1>3 DEF JInv, vars, Healthy, Single, IdleClockRuns, IdleClockOnlyWhenIdle
  <1> QED
    BY <1>2, <1>3

LEMMA OneIsLoaded ==
    ASSUME JInv
    PROVE  OneModelLoaded
  <1> DEFINE L == {t \in Reqs : pc[t] = "loading"}
  <1>1. \A t \in L, u \in L : t = u
    BY DEF JInv, IInv, OneSwapper, Swapping
  <1>2. \A d \in open, e \in open : d = e
    <2> SUFFICES ASSUME NEW d \in open, NEW e \in open PROVE d = e
      OBVIOUS
    <2>1. CASE \E t \in Reqs : pc[t] \in Draining
      <3>1. PICK t \in Reqs : pc[t] \in Draining
        BY <2>1
      <3>2. cur = NoEngine /\ \A u \in Reqs : pc[u] \in Draining => u = t
        BY <3>1 DEF JInv, IInv, OneSwapper, Swapping, Draining
      <3>3. d \in Engines /\ e \in Engines
        BY DEF JInv, IInv, TypeOK
      <3> QED
        BY <3>2, <3>3, NoEngineAssumption DEF JInv, Single
    <2>2. CASE \A t \in Reqs : pc[t] \notin Draining
      BY <2>2 DEF JInv, Single
    <2> QED
      BY <2>1, <2>2
  <1>3. \A S : (\A x \in S, y \in S : x = y) => S = {} \/ \E x : S = {x}
    OBVIOUS
  <1>4. /\ open = {} \/ \E x : open = {x}
        /\ L = {} \/ \E x : L = {x}
    BY <1>1, <1>2, <1>3
  <1>5. L # {} => open = {}
    BY DEF JInv, Single
  <1>6. \A S : (S = {} => Cardinality(S) = 0) /\ ((\E x : S = {x}) => Cardinality(S) = 1)
    BY FS_EmptySet, FS_Singleton
  <1> HIDE DEF L
  <1>7. (Cardinality(open) = 0 \/ Cardinality(open) = 1) /\ (open = {} => Cardinality(open) = 0)
    BY <1>4, <1>6
  <1>8. (Cardinality(L) = 0 \/ Cardinality(L) = 1) /\ (L = {} => Cardinality(L) = 0)
    BY <1>4, <1>6
  <1>9. Cardinality(open) + Cardinality(L) <= 1
    BY <1>5, <1>7, <1>8
  <1> QED
    BY <1>9 DEF OneModelLoaded, L

\* While no backend fails and the server stays open, one model is in memory,
\* and its countdown runs exactly while nobody uses it and it may go
\* (server.go's acquireOnce and armIdleLocked, keepalive.go).
THEOREM OneOnTheClock == Steady /\ Spec => []OneModelOnTheClock
  <1>1. JInv => OneModelOnTheClock
    BY OneIsLoaded DEF OneModelOnTheClock, JInv
  <1> QED
    BY <1>1, InitSteady, JInvInductive, PTL DEF Spec

\* And an unload lets go of the chat model once its memory is free
\* (keepalive.go's loadOrUnload).
LEMMA UnloadStepFrees ==
    ASSUME JInv, Next, NEW t \in Reqs, pc[t] \in {"unload", "retireUnload"},
           pc'[t] \in {"unloadEmb", "done"}, NEW e \in open'
    PROVE  path'[e] # req[t].path
  <1> USE DEF JInv, IInv, TypeOK
  <1>1. Unload(t) \/ UnloadOther(t) \/ UnloadRetired(t)
    <2>1. ASSUME NEW u \in Reqs \ {t}, Arrive(u) \/ Acquire(u) \/ Chat(u) \/ LetGo(u) \/ Embed(u)
          PROVE  pc'[t] = pc[t]
      BY <2>1, Aside DEF Arrive, Acquire, RetireBroken, RetireAgain, AcquireHit, AcquireWait, AcquireSwap,
         SwapRetired, OpenDone, OpenFailed, Chat, Submit, ChatReturns, Reload, GiveUp, NoteKeepAlive, Release,
         LetGo, UnloadWait, Unload, UnloadOther, UnloadRetired, Close, CloseRetired, Goto, WaitToRetire, local
    <2>2. ASSUME TimerFires \/ \E d \in Engines : IdleCallback(d) \/ BackendFails(d) \/ GoesDown(d) PROVE pc'[t] = pc[t]
      BY <2>2 DEF TimerFires, IdleCallback, BackendFails, GoesDown, local
    <2>3. Arrive(t) \/ Acquire(t) \/ Chat(t) \/ LetGo(t) \/ Embed(t)
      BY <2>1, <2>2 DEF Next
    <2>4. ~Arrive(t)
      BY DEF Arrive
    <2>5. ~Chat(t)
      BY NoFailure DEF Chat, Submit, ChatReturns, Reload, GiveUp, NoteKeepAlive, Release
    <2>6. ~Acquire(t)
      BY NoFailure DEF Acquire, RetireAgain, AcquireHit, AcquireWait, AcquireSwap, SwapRetired, Retired, Awake,
         OpenDone, OpenFailed, local
    <2>7. ~Embed(t) /\ ~UnloadEmb(t)
      BY Aside
    <2> QED
      BY <2>3, <2>4, <2>5, <2>6, <2>7, NoFailure DEF LetGo, UnloadWait, local
  <1>2. CASE Unload(t)
    <2>1. \A d \in open : cur = d
      BY <1>2, OnlyResident DEF Unload
    <2>2. refs[cur] = 1
      BY <1>2 DEF Unload, WaitToRetire
    <2> QED
      BY <1>2, <2>1, <2>2 DEF Unload, RetireResident, Drop
  <1>3. CASE UnloadOther(t)
    <2>1. e = cur /\ path' = path
      BY <1>3, OnlyResident DEF UnloadOther, lease
    <2> QED
      BY <1>3, <2>1, NoEngineAssumption DEF UnloadOther, Resident, lease
  <1>4. CASE UnloadRetired(t)
    <2>1. pc[t] = "retireUnload" /\ refs[old[t]] = 0 /\ open' = open
      BY <1>4 DEF UnloadRetired, Retired, Awake, lease
    <2>2. cur = NoEngine /\ \A u \in Reqs : pc[u] \in Draining => u = t
      BY <2>1 DEF OneSwapper, Swapping, Draining
    <2>3. e = old[t] /\ refs[e] > 0
      BY <2>1, <2>2, NoEngineAssumption DEF Single, RefsCountHolders
    <2> QED
      BY <2>1, <2>3
  <1> QED
    BY <1>1, <1>2, <1>3, <1>4

\* However swaps, loads, idle timers and other unloads interleave, an unload waits
\* for its chat model until nothing of it is in memory any more; then it returns,
\* unless a swap of the embedding model keeps it (keepalive.go's loadOrUnload).
THEOREM UnloadsFree == Steady /\ Spec => UnloadFrees
  <1>1. JInv /\ [Next]_vars =>
          [\A t \in Reqs :
              pc[t] \in {"unload", "retireUnload"} /\ pc'[t] \in {"unloadEmb", "done"}
                  => \A e \in open' : path'[e] # req[t].path]_vars
    BY UnloadStepFrees
  <1> QED
    BY <1>1, InitSteady, JInvInductive, PTL DEF Spec, UnloadFrees
----------------------------------------------------------------------------
(***************************************************************************)
(* Caches: that a request is given a whole set of libraries or of links,   *)
(* for any number of requests, kinfers, files, layers, manifests and power *)
(* cuts.                                                                   *)
(*                                                                         *)
(* At the step that gives it a set a request has looked at parts of it one *)
(* after the other, with others at work between.  What it saw must still   *)
(* be there: a library it found or put in place stays whole as long as it  *)
(* lives (Compared); a stamp vouches for all its links as long as nobody   *)
(* takes them away one by one (Stamps); and what a request has built       *)
(* beside the place is what it linked there, nothing of a kinfer that died *)
(* and had its pid, as long as no other of its kinfer works there (Alone,  *)
(* Built).                                                                 *)
(***************************************************************************)
Places == {"out", "look", "stage", "install", "files", "fetch", "unpack", "rename", "again",
           "files again", "remove", "rename again", "use", "clear", "mkdir", "link", "tidy"}

Stands == [of : Kinfers \cup {""}, at : Places, need : Needs, left : SUBSET (LibFiles \cup Layers),
           file : LibFiles \cup {""}, ver : Nat]
Dirs == [files : SUBSET (Layers \X Nat), mark : Nat]

Types ==
    /\ proc \in [Procs -> Stands]
    /\ lib \in [LibFiles -> {"none", "torn", "whole"}]
    /\ links \in Dirs /\ tmp \in [Kinfers -> Dirs] /\ made \subseteq Kinfers
    /\ manifest \in Nat \ {0} /\ spoiled \subseteq {"killed", "shared"}

\* What a request that stands at x may rely on, of the libraries l ...
Right(x, l) ==
    /\ x.need = "libs" /\ x.at # "out" =>
        /\ x.left \subseteq LibFiles
        /\ \A f \in LibFiles \ x.left : l[f] = "whole"
        /\ x.at \in {"stage", "install"} => x.file \in LibFiles
        /\ x.at = "use" => x.left = {}
    /\ x.need = "links" /\ x.at # "out" => x.left \subseteq Layers
    /\ x.at # "out" => x.ver # 0 /\ x.of \in Kinfers

\* ... and of what is beside the place, t.
Has(x, t) ==
    x.need = "links" =>
        /\ x.at = "mkdir" => t[x.of] = Empty
        /\ x.at \in {"look", "clear", "mkdir"} => x.left = Layers
        /\ x.at = "link" => t[x.of] = [files |-> (Layers \ x.left) \X {x.ver}, mark |-> 0]
        /\ x.at \in {"remove", "rename"} => t[x.of] = LinksOf(x.ver)

Builds(x) ==
    /\ x.need = "links"
    /\ \/ x.at \in {"clear", "mkdir", "link", "remove", "rename", "tidy"}
       \/ x.at = "use" /\ x.left = {}

Compared == \A p \in Procs : Right(proc[p], lib)
Alone == \A p, q \in Procs :
    Builds(proc[p]) /\ Builds(proc[q]) /\ proc[p].of = proc[q].of => p = q
Built == \A p \in Procs : Has(proc[p], tmp)

Removing(q) == proc[q].need = "links" /\ proc[q].at = "remove"
Stamps == links.mark # 0 => links = LinksOf(links.mark) \/ spoiled # {} \/ \E q \in Procs : Removing(q)

DirsInv == Types /\ Compared /\ Stamps /\ (spoiled = {} => Alone /\ Built)

-----------------------------------------------------------------------------
LEMMA OutStands == Out \in Stands /\ Out.at = "out" /\ Out.need = "libs"
  BY DEF Out, Stands, Places, Needs

LEMMA EmptyDir == Empty \in Dirs
  BY DEF Empty, Dirs

LEMMA InitDirsInv == CachesInit => DirsInv
  <1> SUFFICES ASSUME CachesInit PROVE DirsInv
    OBVIOUS
  <1>1. \A p \in Procs : proc[p].at = "out" /\ proc[p].need = "libs"
    BY OutStands DEF CachesInit
  <1>2. Types
    <2>1. proc \in [Procs -> Stands] /\ lib \in [LibFiles -> {"none", "torn", "whole"}]
      BY OutStands DEF CachesInit
    <2>2. links \in Dirs /\ tmp \in [Kinfers -> Dirs] /\ made \subseteq Kinfers
      BY EmptyDir DEF CachesInit
    <2>3. manifest \in Nat \ {0} /\ spoiled \subseteq {"killed", "shared"}
      BY DEF CachesInit
    <2> QED
      BY <2>1, <2>2, <2>3 DEF Types
  <1>3. Stamps
    BY DEF CachesInit, Stamps, Empty
  <1>4. Compared /\ Alone /\ Built
    BY <1>1 DEF Compared, Right, Alone, Built, Builds, Has
  <1> QED
    BY <1>2, <1>3, <1>4 DEF DirsInv

\* One request moves to x, where it may; what is beside the place of others
\* stays as it is, and so it stays alone where it is.
LEMMA OneMoves ==
    ASSUME DirsInv, NEW p \in Procs, NEW x \in Stands, proc' = [proc EXCEPT ![p] = x],
           lib' \in [LibFiles -> {"none", "torn", "whole"}],
           \A f \in LibFiles : lib[f] = "whole" => lib'[f] = "whole",
           UNCHANGED manifest, links' \in Dirs, tmp' \in [Kinfers -> Dirs], made' \subseteq Kinfers,
           tmp' = tmp \/ Builds(proc[p]),
           \A k \in Kinfers : k # proc[p].of => tmp'[k] = tmp[k],
           spoiled' \subseteq {"killed", "shared"}, spoiled \subseteq spoiled',
           Right(x, lib'), spoiled' = {} => Has(x, tmp'),
           spoiled' = {} /\ Builds(x) =>
               \/ Builds(proc[p]) /\ x.of = proc[p].of
               \/ \A q \in Procs \ {p} : Builds(proc[q]) => proc[q].of # x.of
    PROVE  Types' /\ Compared' /\ (spoiled' = {} => Alone' /\ Built')
  <1>1. /\ proc' \in [Procs -> Stands] /\ proc'[p] = x
        /\ \A q \in Procs \ {p} : proc'[q] = proc[q]
    BY DEF DirsInv, Types
  <1>2. Types'
    BY <1>1 DEF DirsInv, Types
  <1>3. Compared'
    <2>1. ASSUME NEW q \in Procs \ {p} PROVE Right(proc[q], lib')
      BY DEF DirsInv, Compared, Right
    <2> QED
      BY <1>1, <2>1 DEF Compared
  <1>4. ASSUME spoiled' = {} PROVE Alone'
    <2>1. Alone
      BY <1>4 DEF DirsInv
    <2> SUFFICES ASSUME NEW a \in Procs, NEW b \in Procs, Builds(proc'[a]), Builds(proc'[b]),
                        proc'[a].of = proc'[b].of, a # b
                 PROVE  FALSE
      BY DEF Alone, Builds
    <2> HIDE DEF DirsInv
    <2>2. CASE a # p /\ b # p
      BY <1>1, <2>1, <2>2 DEF Alone
    <2>3. ASSUME NEW q \in Procs \ {p}, Builds(x), Builds(proc[q]), proc[q].of = x.of PROVE FALSE
      BY <1>4, <2>1, <2>3 DEF Alone
    <2> QED
      BY <1>1, <2>2, <2>3
  <1>5. ASSUME spoiled' = {} PROVE Built'
    <2>1. Alone /\ Built
      BY <1>5 DEF DirsInv
    <2>2. ASSUME NEW q \in Procs \ {p} PROVE Has(proc[q], tmp')
      <3>1. CASE tmp' = tmp
        BY <2>1, <3>1 DEF Built
      <3>2. CASE Builds(proc[p])
        <4>1. Builds(proc[q]) /\ proc[q].of \in Kinfers => tmp'[proc[q].of] = tmp[proc[q].of]
          BY <2>1, <3>2 DEF Alone
        <4>2. proc[q].at # "out" => proc[q].of \in Kinfers
          BY DEF DirsInv, Compared, Right
        <4>3. Has(proc[q], tmp)
          BY <2>1 DEF Built
        <4> QED
          BY <4>1, <4>2, <4>3 DEF Has, Builds
      <3> QED
        BY <3>1, <3>2
    <2>3. Has(proc'[p], tmp')
      BY <1>1, <1>5
    <2> QED
      BY <1>1, <2>2, <2>3 DEF Built
  <1> QED
    BY <1>2, <1>3, <1>4, <1>5

\* The links stay as they are.
LEMMA LinksStay ==
    ASSUME DirsInv, NEW p \in Procs, NEW x \in Stands, proc' = [proc EXCEPT ![p] = x],
           UNCHANGED links, spoiled \subseteq spoiled',
           Removing(p) => spoiled' # {} \/ (x.need = "links" /\ x.at = "remove")
    PROVE  Stamps'
  <1>1. proc'[p] = x /\ \A q \in Procs \ {p} : proc'[q] = proc[q]
    BY DEF DirsInv, Types
  <1> QED
    BY <1>1 DEF DirsInv, Stamps, LinksOf, Removing

\* One request goes on, the links staying as they are.
LEMMA OneStep ==
    ASSUME DirsInv, NEW p \in Procs, NEW x \in Stands, proc' = [proc EXCEPT ![p] = x],
           lib' \in [LibFiles -> {"none", "torn", "whole"}],
           \A f \in LibFiles : lib[f] = "whole" => lib'[f] = "whole",
           UNCHANGED <<manifest, links, tmp, spoiled>>, made' \subseteq Kinfers,
           Right(x, lib'), spoiled = {} => Has(x, tmp),
           Removing(p) => x.need = "links" /\ x.at = "remove",
           spoiled = {} /\ Builds(x) => Builds(proc[p]) /\ x.of = proc[p].of
    PROVE  DirsInv'
  <1>1. links' \in Dirs /\ tmp' \in [Kinfers -> Dirs] /\ spoiled' \subseteq {"killed", "shared"}
    BY DEF DirsInv, Types
  <1>2. Types' /\ Compared' /\ (spoiled' = {} => Alone' /\ Built')
    BY <1>1, OneMoves
  <1>3. Stamps'
    BY LinksStay
  <1> QED
    BY <1>2, <1>3 DEF DirsInv

\* Where a request stands once it has gone from one place to another.
LEMMA Placed ==
    ASSUME DirsInv, NEW p \in Procs, NEW at \in Places
    PROVE  LET x == [proc[p] EXCEPT !.at = at] IN
           /\ x \in Stands /\ x.at = at /\ x.need = proc[p].need /\ x.left = proc[p].left
           /\ x.file = proc[p].file /\ x.ver = proc[p].ver /\ x.of = proc[p].of
           /\ To(p, at) => proc' = [proc EXCEPT ![p] = x]
  <1>1. proc[p] \in Stands
    BY DEF DirsInv, Types
  <1> QED
    BY <1>1 DEF Stands, To

\* Between two of its looks at a directory of libraries, it does.
LEMMA MovesOn ==
    ASSUME DirsInv, NEW p \in Procs, NEW at \in Places, To(p, at), proc[p].need # "links",
           UNCHANGED <<lib, manifest, links, tmp, made, spoiled>>, proc[p].at # "out",
           proc[p].need = "libs" => /\ at \in {"stage", "install"} => proc[p].at = "stage"
                                    /\ at = "use" => proc[p].left = {}
    PROVE  DirsInv'
  <1> DEFINE x == [proc[p] EXCEPT !.at = at]
  <1>1. /\ x \in Stands /\ x.at = at /\ x.need = proc[p].need /\ x.left = proc[p].left
        /\ x.file = proc[p].file /\ x.ver = proc[p].ver /\ x.of = proc[p].of
        /\ proc' = [proc EXCEPT ![p] = x]
    BY Placed
  <1> HIDE DEF x
  <1>2. Right(x, lib')
    BY <1>1 DEF DirsInv, Compared, Right
  <1>3. Has(x, tmp) /\ ~Builds(x) /\ ~Removing(p)
    BY <1>1 DEF Has, Builds, Removing
  <1>4. lib' \in [LibFiles -> {"none", "torn", "whole"}] /\ made' \subseteq Kinfers
    BY DEF DirsInv, Types
  <1> QED
    BY <1>1, <1>2, <1>3, <1>4, OneStep

\* It ends.
LEMMA EndsStep ==
    ASSUME DirsInv, NEW p \in Procs, Ends(p), ~Removing(p),
           UNCHANGED <<lib, manifest, links, tmp, spoiled>>, made' \subseteq Kinfers
    PROVE  DirsInv'
  <1>1. proc' = [proc EXCEPT ![p] = Out] /\ Out \in Stands
    BY OutStands DEF Ends
  <1>2. Right(Out, lib') /\ Has(Out, tmp) /\ ~Builds(Out)
    BY OutStands DEF Right, Has, Builds
  <1>3. lib' \in [LibFiles -> {"none", "torn", "whole"}]
    BY DEF DirsInv, Types
  <1> QED
    BY <1>1, <1>2, <1>3, OneStep

-----------------------------------------------------------------------------
(* The actions.                                                            *)

LEMMA BeginStep ==
    ASSUME DirsInv, NEW p \in Procs, NEW need \in Needs, NEW k \in Kinfers, Begin(p, need, k)
    PROVE  DirsInv'
  <1> DEFINE x == [of |-> k, at |-> "look", need |-> need, file |-> "", ver |-> manifest,
                   left |-> IF need = "links" THEN Layers ELSE LibFiles]
  <1>1. manifest \in Nat /\ manifest # 0 /\ made \subseteq Kinfers
        /\ lib \in [LibFiles -> {"none", "torn", "whole"}]
    BY DEF DirsInv, Types
  <1>2. /\ x \in Stands /\ x.at = "look" /\ x.need = need /\ x.ver = manifest /\ x.of = k
        /\ x.left = IF need = "links" THEN Layers ELSE LibFiles
    BY <1>1 DEF Stands, Places
  <1>3. proc' = [proc EXCEPT ![p] = x] /\ ~Removing(p)
        /\ UNCHANGED <<lib, manifest, links, tmp, made, spoiled>>
    BY DEF Begin, Removing, staging
  <1> HIDE DEF x
  <1>4. Right(x, lib') /\ Has(x, tmp) /\ ~Builds(x)
    BY <1>1, <1>2 DEF Right, Has, Builds, Needs
  <1> QED
    BY <1>1, <1>2, <1>3, <1>4, OneStep

LEMMA CompareStep ==
    ASSUME DirsInv, NEW p \in Procs, Compare(p)
    PROVE  DirsInv'
  <1>1. /\ proc[p].need = "libs" /\ proc[p].at = "look" /\ ~Removing(p)
        /\ UNCHANGED <<lib, links, manifest, tmp, made, spoiled>>
    BY DEF Compare, At, Removing, staging
  <1>2. CASE proc[p].left = {}
    <2>1. To(p, "use")
      BY <1>2 DEF Compare
    <2> QED
      BY <1>1, <1>2, <2>1, MovesOn DEF Places
  <1>3. CASE proc[p].left # {}
    <2>1. PICK f \in proc[p].left :
            IF lib[f] = "whole" THEN proc' = [proc EXCEPT ![p].left = @ \ {f}]
            ELSE proc' = [proc EXCEPT ![p].at = "stage", ![p].file = f]
      BY <1>3 DEF Compare
    <2> DEFINE y == [proc[p] EXCEPT !.left = @ \ {f}]
               z == [proc[p] EXCEPT !.at = "stage", !.file = f]
    <2>2. proc[p] \in Stands /\ made \subseteq Kinfers /\ lib \in [LibFiles -> {"none", "torn", "whole"}]
      BY DEF DirsInv, Types
    <2>3. Right(proc[p], lib)
      BY DEF DirsInv, Compared
    <2>4. CASE lib[f] = "whole"
      <3>1. /\ y \in Stands /\ y.need = "libs" /\ y.ver = proc[p].ver /\ y.of = proc[p].of
            /\ y.left = proc[p].left \ {f} /\ y.at = "look" /\ proc' = [proc EXCEPT ![p] = y]
        BY <1>1, <2>1, <2>2, <2>4 DEF Stands
      <3> HIDE DEF y
      <3>2. Right(y, lib') /\ Has(y, tmp) /\ ~Builds(y)
        BY <1>1, <2>3, <2>4, <3>1 DEF Right, Has, Builds
      <3> QED
        BY <1>1, <2>2, <3>1, <3>2, OneStep
    <2>5. CASE lib[f] # "whole" /\ f \in LibFiles
      <3>1. /\ z \in Stands /\ z.need = "libs" /\ z.ver = proc[p].ver /\ z.of = proc[p].of
            /\ z.left = proc[p].left /\ z.at = "stage" /\ z.file = f /\ proc' = [proc EXCEPT ![p] = z]
        BY <1>1, <2>1, <2>2, <2>5 DEF Stands, Places
      <3> HIDE DEF z
      <3>2. Right(z, lib') /\ Has(z, tmp) /\ ~Builds(z)
        BY <1>1, <2>3, <2>5, <3>1 DEF Right, Has, Builds
      <3> QED
        BY <1>1, <2>2, <3>1, <3>2, OneStep
    <2>6. f \in LibFiles
      BY <1>1, <2>3 DEF Right
    <2> QED
      BY <2>4, <2>5, <2>6
  <1> QED
    BY <1>2, <1>3

LEMMA InstallStep ==
    ASSUME DirsInv, NEW p \in Procs, Install(p)
    PROVE  DirsInv'
  <1> DEFINE f == proc[p].file
             x == [proc[p] EXCEPT !.at = "look", !.left = @ \ {f}]
  <1>1. /\ proc[p].need = "libs" /\ proc[p].at = "install" /\ ~Removing(p)
        /\ lib' = [lib EXCEPT ![f] = "whole"] /\ UNCHANGED <<links, manifest, tmp, made, spoiled>>
    BY DEF Install, At, Removing, staging
  <1>2. Right(proc[p], lib) /\ f \in LibFiles /\ made \subseteq Kinfers
    BY <1>1 DEF DirsInv, Types, Compared, Right
  <1>3. lib' \in [LibFiles -> {"none", "torn", "whole"}] /\ lib'[f] = "whole"
        /\ \A g \in LibFiles : lib[g] = "whole" => lib'[g] = "whole"
    BY <1>1, <1>2 DEF DirsInv, Types
  <1>4. /\ x \in Stands /\ x.at = "look" /\ x.need = "libs" /\ x.left = proc[p].left \ {f}
        /\ x.ver = proc[p].ver /\ x.of = proc[p].of
    BY <1>1, <1>2 DEF DirsInv, Types, Stands, Places
  <1>5. proc' = [proc EXCEPT ![p] = x]
    BY DEF Install
  <1> HIDE DEF x, f
  <1>6. Right(x, lib') /\ Has(x, tmp) /\ ~Builds(x)
    BY <1>1, <1>2, <1>3, <1>4 DEF Right, Has, Builds
  <1> QED
    BY <1>1, <1>2, <1>3, <1>4, <1>5, <1>6, OneStep

LEMMA StageStep ==
    ASSUME DirsInv, NEW p \in Procs, Stage(p)
    PROVE  DirsInv'
  <1>1. /\ proc[p].need = "libs" /\ proc[p].at = "stage" /\ ~Removing(p) /\ made \subseteq Kinfers
        /\ UNCHANGED <<lib, links, manifest, tmp, made, spoiled>>
    BY DEF Stage, At, Removing, staging, DirsInv, Types
  <1>2. CASE To(p, "install")
    BY <1>1, <1>2, MovesOn DEF Places
  <1>3. CASE Ends(p)
    BY <1>1, <1>3, EndsStep
  <1> QED
    BY <1>2, <1>3 DEF Stage

LEMMA MLXStep ==
    ASSUME DirsInv, NEW p \in Procs, Marked(p) \/ CompleteFiles(p) \/ Fetch(p) \/ Unpack(p) \/ Rename(p)
    PROVE  DirsInv'
  <1>1. /\ proc[p].need = "mlx" /\ proc[p].at # "out" /\ ~Removing(p) /\ made \subseteq Kinfers
        /\ UNCHANGED <<lib, links, manifest, tmp, made, spoiled>>
    BY DEF Marked, CompleteFiles, Fetch, Unpack, Rename, At, Removing, staging, DirsInv, Types
  <1>2. Ends(p) \/ \E at \in Places : To(p, at)
    BY DEF Marked, CompleteFiles, Fetch, Unpack, Rename, Places
  <1>3. CASE Ends(p)
    BY <1>1, <1>3, EndsStep
  <1>4. ASSUME NEW at \in Places, To(p, at) PROVE DirsInv'
    BY <1>1, <1>4, MovesOn
  <1> QED
    BY <1>2, <1>3, <1>4

\* The files of a directory that go one by one.
LEMMA LessDir ==
    ASSUME NEW d \in Dirs, NEW e \in Less(d)
    PROVE  e \in Dirs /\ d # Empty
  <1>1. ASSUME NEW f \in d.files, e = [d EXCEPT !.files = @ \ {f}] PROVE e \in Dirs /\ d # Empty
    BY <1>1 DEF Dirs, Empty
  <1>2. ASSUME d.mark # 0, e = [d EXCEPT !.mark = 0] PROVE e \in Dirs /\ d # Empty
    BY <1>2 DEF Dirs, Empty
  <1> QED
    BY <1>1, <1>2 DEF Less

\* One request of a directory of links goes from one place to another.
LEMMA LinkMoves ==
    ASSUME DirsInv, NEW p \in Procs, NEW at \in Places, To(p, at), proc[p].need = "links",
           proc[p].at # "out", UNCHANGED <<lib, manifest>>, links' \in Dirs,
           tmp' \in [Kinfers -> Dirs], made' \subseteq Kinfers, tmp' = tmp \/ Builds(proc[p]),
           \A k \in Kinfers : k # proc[p].of => tmp'[k] = tmp[k],
           spoiled' \subseteq {"killed", "shared"}, spoiled \subseteq spoiled',
           spoiled' = {} => Has([proc[p] EXCEPT !.at = at], tmp'),
           \/ Builds(proc[p]) \/ (at = "use" /\ proc[p].left # {})
           \/ spoiled' = {} => \A q \in Procs \ {p} : Builds(proc[q]) => proc[q].of # proc[p].of
    PROVE  Types' /\ Compared' /\ (spoiled' = {} => Alone' /\ Built')
           /\ (UNCHANGED links /\ (Removing(p) => at = "remove") => Stamps')
  <1> DEFINE x == [proc[p] EXCEPT !.at = at]
  <1>1. /\ x \in Stands /\ x.at = at /\ x.need = proc[p].need /\ x.left = proc[p].left
        /\ x.file = proc[p].file /\ x.ver = proc[p].ver /\ x.of = proc[p].of
        /\ proc' = [proc EXCEPT ![p] = x]
    BY Placed
  <1>2. spoiled' = {} => Has(x, tmp')
    OBVIOUS
  <1> HIDE DEF x
  <1>3. Right(x, lib')
    BY <1>1 DEF DirsInv, Compared, Right
  <1>4. lib' \in [LibFiles -> {"none", "torn", "whole"}]
        /\ \A f \in LibFiles : lib[f] = "whole" => lib'[f] = "whole"
    BY DEF DirsInv, Types
  <1>5. spoiled' = {} /\ Builds(x) =>
           \/ Builds(proc[p]) /\ x.of = proc[p].of
           \/ \A q \in Procs \ {p} : Builds(proc[q]) => proc[q].of # x.of
    BY <1>1 DEF Builds
  <1>6. Types' /\ Compared' /\ (spoiled' = {} => Alone' /\ Built')
    BY <1>1, <1>2, <1>3, <1>4, <1>5, OneMoves
  <1>7. UNCHANGED links /\ (Removing(p) => at = "remove") => Stamps'
    BY <1>1, LinksStay
  <1> QED
    BY <1>6, <1>7

LEMMA UnlinkStep ==
    ASSUME DirsInv, NEW p \in Procs, Unlink(p)
    PROVE  DirsInv'
  <1>1. UNCHANGED <<lib, manifest, tmp, made, spoiled>> /\ proc[p].at = "remove"
    BY DEF Unlink, staging
  <1>2. CASE proc[p].need = "mlx"
    <2>1. UNCHANGED links /\ ~Removing(p)
      BY <1>2 DEF Unlink, Removing
    <2>2. CASE UNCHANGED proc
      BY <1>1, <2>1, <2>2
      DEF DirsInv, Types, Compared, Right, Alone, Builds, Built, Has, Stamps, Removing, LinksOf, Empty
    <2>3. CASE To(p, "rename again")
      BY <1>1, <1>2, <2>1, <2>3, MovesOn DEF Places
    <2> QED
      BY <1>2, <2>2, <2>3 DEF Unlink
  <1>3. CASE proc[p].need = "links" /\ links' \in Less(links) /\ UNCHANGED proc
    <2>1. Removing(p)'
      BY <1>1, <1>3 DEF Removing
    <2>2. links' \in Dirs
      BY <1>3, LessDir DEF DirsInv, Types
    <2>3. Types' /\ Stamps'
      BY <1>1, <1>3, <2>1, <2>2 DEF DirsInv, Types, Stamps
    <2>4. Compared' /\ (spoiled' = {} => Alone' /\ Built')
      BY <1>1, <1>3 DEF DirsInv, Compared, Right, Alone, Builds, Built, Has, LinksOf, Empty
    <2> QED
      BY <2>3, <2>4 DEF DirsInv
  <1>4. CASE proc[p].need = "links" /\ links = Empty /\ To(p, "rename") /\ UNCHANGED links
    <2> DEFINE x == [proc[p] EXCEPT !.at = "rename"]
    <2>1. /\ x.at = "rename" /\ x.need = "links" /\ x.left = proc[p].left
          /\ x.ver = proc[p].ver /\ x.of = proc[p].of
      BY ZenonT(60), <1>4, Placed DEF Places
    <2> HIDE DEF x
    <2>2. spoiled' = {} => Has(x, tmp')
      BY <1>1, <1>4, <2>1 DEF DirsInv, Built, Has
    <2>3. /\ links' \in Dirs /\ tmp' \in [Kinfers -> Dirs] /\ made' \subseteq Kinfers
          /\ spoiled' \subseteq {"killed", "shared"} /\ Builds(proc[p])
      BY <1>1, <1>4 DEF DirsInv, Types, Builds
    <2>4. Types' /\ Compared' /\ (spoiled' = {} => Alone' /\ Built')
      BY <1>1, <1>4, <2>2, <2>3, LinkMoves DEF x, Places
    <2>5. Stamps'
      BY <1>4 DEF Stamps, Empty
    <2> QED
      BY <2>4, <2>5 DEF DirsInv
  <1> QED
    BY <1>2, <1>3, <1>4 DEF Unlink

\* What a step that makes no link at all keeps of the directories.
LEMMA SameDirs ==
    ASSUME DirsInv
    PROVE  /\ links \in Dirs /\ tmp \in [Kinfers -> Dirs] /\ made \subseteq Kinfers
           /\ spoiled \subseteq {"killed", "shared"}
           /\ lib \in [LibFiles -> {"none", "torn", "whole"}]
           /\ proc \in [Procs -> Stands]
  BY DEF DirsInv, Types

LEMMA LookStampStep ==
    ASSUME DirsInv, NEW p \in Procs, LookStamp(p)
    PROVE  DirsInv'
  <1>1. /\ proc[p].need = "links" /\ proc[p].at = "look" /\ ~Removing(p)
        /\ UNCHANGED <<lib, links, manifest, tmp, made>>
    BY DEF LookStamp, At, Removing, staging
  <1>2. CASE Stamped(p)
    <2> DEFINE x == [proc[p] EXCEPT !.at = "use"]
    <2>1. /\ x \in Stands /\ x.at = "use" /\ x.need = "links" /\ x.left = proc[p].left
          /\ x.ver = proc[p].ver /\ x.of = proc[p].of /\ proc' = [proc EXCEPT ![p] = x]
          /\ UNCHANGED spoiled
      BY ZenonT(60), <1>1, <1>2, Placed DEF LookStamp, Places
    <2> HIDE DEF x
    <2>2. spoiled = {} => proc[p].left = Layers
      BY <1>1 DEF DirsInv, Built, Has
    <2>3. Right(x, lib') /\ Has(x, tmp) /\ (spoiled = {} => ~Builds(x))
      BY <1>1, <2>1, <2>2, LayersAssumption DEF DirsInv, Compared, Right, Has, Builds
    <2> QED
      BY <1>1, <2>1, <2>3, SameDirs, OneStep
  <1>3. CASE ~Stamped(p)
    <2> DEFINE x == [proc[p] EXCEPT !.at = "clear"]
    <2>1. /\ x.at = "clear" /\ x.need = "links" /\ x.left = proc[p].left
          /\ To(p, "clear") /\ spoiled' = spoiled \cup (IF Beside(p) THEN {"shared"} ELSE {})
      BY <1>1, <1>3, Placed DEF LookStamp, Places
    <2> HIDE DEF x
    <2>2. spoiled' \subseteq {"killed", "shared"} /\ spoiled \subseteq spoiled'
      BY <2>1, SameDirs
    <2>3. spoiled' = {} => spoiled = {} /\ ~Beside(p)
      BY <2>1
    <2>4. spoiled' = {} => Has(x, tmp')
      BY <1>1, <2>1, <2>3 DEF DirsInv, Built, Has
    <2>5. spoiled' = {} => \A q \in Procs \ {p} : Builds(proc[q]) => proc[q].of # proc[p].of
      BY <2>3 DEF Beside, Building, Builds
    <2>6. Types' /\ Compared' /\ Stamps' /\ (spoiled' = {} => Alone' /\ Built')
      BY <1>1, <2>1, <2>2, <2>4, <2>5, SameDirs, LinkMoves DEF x, Places
    <2> QED
      BY <2>6 DEF DirsInv
  <1> QED
    BY <1>2, <1>3

\* A request that builds links goes on or ends; what is beside the place stays.
LEMMA BuilderMoves ==
    ASSUME DirsInv, NEW p \in Procs, NEW at \in {"mkdir", "link", "use", "tidy"}, To(p, at),
           Builds(proc[p]), ~Removing(p), made' \subseteq Kinfers,
           UNCHANGED <<lib, links, manifest, tmp, spoiled>>,
           at \in {"mkdir", "link"} /\ spoiled = {} =>
              tmp[proc[p].of] = Empty /\ proc[p].left = Layers
    PROVE  DirsInv'
  <1> DEFINE x == [proc[p] EXCEPT !.at = at]
  <1>0. at \in Places
    BY DEF Places
  <1>1. /\ x.at = at /\ x.need = proc[p].need /\ x.left = proc[p].left
        /\ x.ver = proc[p].ver /\ x.of = proc[p].of
    BY <1>0, Placed
  <1> HIDE DEF x
  <1>2. proc[p].need = "links" /\ proc[p].at # "out"
    BY DEF Builds
  <1>3. spoiled' = {} => Has(x, tmp')
    BY <1>1 DEF Has, Empty
  <1>4. Types' /\ Compared' /\ Stamps' /\ (spoiled' = {} => Alone' /\ Built')
    BY <1>0, <1>1, <1>2, <1>3, SameDirs, LinkMoves DEF x
  <1> QED
    BY <1>4 DEF DirsInv

\* One that is done with it ends.
LEMMA BesideStep ==
    ASSUME DirsInv, NEW p \in Procs, Clear(p) \/ Tidy(p)
    PROVE  DirsInv'
  <1> DEFINE k == proc[p].of
  <1>1. /\ proc[p].need = "links" /\ proc[p].at \in {"clear", "tidy"} /\ ~Removing(p)
        /\ UNCHANGED <<lib, links, manifest, spoiled>>
    BY DEF Clear, Tidy, At, Removing
  <1>2. Builds(proc[p]) /\ Right(proc[p], lib) /\ k \in Kinfers
    BY <1>1 DEF Builds, DirsInv, Compared, Right
  <1>3. ASSUME NEW d \in Less(tmp[k]), tmp' = [tmp EXCEPT ![k] = d], UNCHANGED <<proc, made>>
        PROVE  DirsInv'
    <2>1. tmp[k] \in Dirs
      BY <1>2, SameDirs
    <2>2. d \in Dirs
      BY <2>1, LessDir
    <2>3. tmp' \in [Kinfers -> Dirs] /\ \A j \in Kinfers : j # k => tmp'[j] = tmp[j]
      BY <1>2, <1>3, <2>2, SameDirs
    <2>4. proc' = [proc EXCEPT ![p] = proc[p]] /\ proc[p] \in Stands
      BY <1>3, SameDirs
    <2>5. spoiled' = {} => Has(proc[p], tmp')
      BY <1>1 DEF DirsInv, Built, Has
    <2>6. Types' /\ Compared' /\ (spoiled' = {} => Alone' /\ Built')
      BY <1>1, <1>2, <1>3, <2>3, <2>4, <2>5, SameDirs, OneMoves
    <2>7. Stamps'
      BY <1>1, <2>4, LinksStay
    <2> QED
      BY <2>6, <2>7 DEF DirsInv
  <1>4. ASSUME Clear(p), To(p, "mkdir"), UNCHANGED tmp, made' \subseteq Kinfers,
               tmp[k] = Empty \/ Beside(p)
        PROVE  DirsInv'
    <2>1. spoiled = {} => ~Beside(p)
      BY <1>2 DEF DirsInv, Alone, Beside, Building, Builds
    <2>2. spoiled = {} => tmp[k] = Empty /\ proc[p].left = Layers
      BY <1>1, <1>4, <2>1 DEF DirsInv, Built, Has, Clear, At
    <2> QED
      BY <1>1, <1>2, <1>4, <2>2, BuilderMoves
  <1>5. ASSUME Ends(p), UNCHANGED tmp, made' \subseteq Kinfers PROVE DirsInv'
    BY <1>1, <1>5, EndsStep
  <1>6. CASE Clear(p)
    <2>1. \/ \E d \in Less(tmp[k]) : tmp' = [tmp EXCEPT ![k] = d] /\ UNCHANGED <<proc, made>>
          \/ /\ To(p, "mkdir") /\ UNCHANGED tmp /\ made' \subseteq made
             /\ tmp[k] = Empty \/ Beside(p)
      BY <1>6 DEF Clear, RemoveBeside, staging
    <2> QED
      BY <1>3, <1>4, <1>6, <2>1, SameDirs
  <1>7. CASE Tidy(p)
    <2>1. \/ \E d \in Less(tmp[k]) : tmp' = [tmp EXCEPT ![k] = d] /\ UNCHANGED <<proc, made>>
          \/ Ends(p) /\ UNCHANGED tmp /\ made' \subseteq made
      BY <1>7 DEF Tidy, RemoveBeside, staging
    <2> QED
      BY <1>3, <1>5, <2>1, SameDirs
  <1> QED
    BY <1>6, <1>7

LEMMA MkdirStep ==
    ASSUME DirsInv, NEW p \in Procs, Mkdir(p)
    PROVE  DirsInv'
  <1>1. /\ proc[p].need = "links" /\ proc[p].at = "mkdir" /\ ~Removing(p) /\ Builds(proc[p])
        /\ UNCHANGED <<lib, links, manifest, tmp, spoiled>>
    BY DEF Mkdir, At, Removing, Builds
  <1>2. made' \subseteq Kinfers
    BY <1>1, SameDirs DEF Mkdir, DirsInv, Compared, Right
  <1>3. spoiled = {} => tmp[proc[p].of] = Empty /\ proc[p].left = Layers
    BY <1>1 DEF DirsInv, Built, Has
  <1>4. To(p, "link") \/ Ends(p)
    BY DEF Mkdir
  <1> QED
    BY <1>1, <1>2, <1>3, <1>4, BuilderMoves, EndsStep

LEMMA LinkStep ==
    ASSUME DirsInv, NEW p \in Procs, Link(p)
    PROVE  DirsInv'
  <1> DEFINE k == proc[p].of
             v == proc[p].ver
  <1>1. /\ proc[p].need = "links" /\ proc[p].at = "link" /\ ~Removing(p) /\ Builds(proc[p])
        /\ UNCHANGED <<lib, links, manifest, made, spoiled>>
    BY DEF Link, At, Removing, Builds
  <1>2. /\ k \in Kinfers /\ v \in Nat /\ proc[p] \in Stands /\ tmp[k] \in Dirs
        /\ proc[p].left \subseteq Layers /\ v # 0
    BY <1>1, SameDirs DEF DirsInv, Compared, Right, Stands
  <1>3. spoiled = {} => tmp[k] = [files |-> (Layers \ proc[p].left) \X {v}, mark |-> 0]
    BY <1>1 DEF DirsInv, Built, Has
  <1>4. ASSUME NEW f \in proc[p].left, tmp' = [tmp EXCEPT ![k].files = @ \cup {<<f, v>>}],
               proc' = [proc EXCEPT ![p].left = @ \ {f}]
        PROVE  DirsInv'
    <2> DEFINE x == [proc[p] EXCEPT !.left = @ \ {f}]
               d == [tmp[k] EXCEPT !.files = @ \cup {<<f, v>>}]
    <2>1. /\ x \in Stands /\ x.at = "link" /\ x.need = "links" /\ x.left = proc[p].left \ {f}
          /\ x.ver = v /\ x.of = k /\ proc' = [proc EXCEPT ![p] = x]
      BY <1>1, <1>2, <1>4 DEF Stands
    <2>2. d \in Dirs /\ (spoiled = {} => d = [files |-> (Layers \ (proc[p].left \ {f})) \X {v}, mark |-> 0])
      <3>1. d \in Dirs /\ d.files = tmp[k].files \cup {<<f, v>>} /\ d.mark = tmp[k].mark
        BY <1>2 DEF Dirs
      <3>2. (Layers \ (proc[p].left \ {f})) \X {v} = ((Layers \ proc[p].left) \X {v}) \cup {<<f, v>>}
        BY <1>2
      <3>3. spoiled = {} => /\ d.files = (Layers \ (proc[p].left \ {f})) \X {v}
                            /\ d.mark = 0
        BY <1>3, <3>1, <3>2
      <3> HIDE DEF d
      <3> QED
        BY <3>1, <3>3 DEF Dirs
    <2>3. tmp' = [tmp EXCEPT ![k] = d]
      BY <1>4
    <2> HIDE DEF x, d
    <2>4. tmp' \in [Kinfers -> Dirs] /\ tmp'[k] = d /\ \A j \in Kinfers : j # k => tmp'[j] = tmp[j]
      BY <1>2, <2>2, <2>3, SameDirs
    <2>5. spoiled' = {} => Has(x, tmp')
      BY <1>1, <2>1, <2>2, <2>4 DEF Has
    <2>6. Right(x, lib')
      BY <1>1, <1>2, <2>1 DEF Right
    <2>7. Types' /\ Compared' /\ (spoiled' = {} => Alone' /\ Built')
      BY <1>1, <2>1, <2>4, <2>5, <2>6, SameDirs, OneMoves
    <2>8. Stamps'
      BY <1>1, <2>1, LinksStay
    <2> QED
      BY <2>7, <2>8 DEF DirsInv
  <1>5. ASSUME proc[p].left = {}, tmp' = [tmp EXCEPT ![k].mark = v], To(p, "remove") PROVE DirsInv'
    <2> DEFINE x == [proc[p] EXCEPT !.at = "remove"]
               d == [tmp[k] EXCEPT !.mark = v]
    <2>1. /\ x.at = "remove" /\ x.need = "links" /\ x.left = proc[p].left
          /\ x.ver = v /\ x.of = k
      BY ZenonT(60), <1>1, Placed DEF Places
    <2>2. d \in Dirs /\ (spoiled = {} => d = LinksOf(v))
      <3>1. d \in Dirs /\ d.files = tmp[k].files /\ d.mark = v
        BY <1>2 DEF Dirs
      <3>2. spoiled = {} => d.files = Layers \X {v}
        BY <1>3, <1>5, <3>1
      <3> HIDE DEF d
      <3> QED
        BY <3>1, <3>2 DEF Dirs, LinksOf
    <2>3. tmp' = [tmp EXCEPT ![k] = d]
      BY <1>5
    <2> HIDE DEF x, d
    <2>4. tmp' \in [Kinfers -> Dirs] /\ tmp'[k] = d /\ \A j \in Kinfers : j # k => tmp'[j] = tmp[j]
      BY <1>2, <2>2, <2>3, SameDirs
    <2>5. spoiled' = {} => Has(x, tmp')
      BY <1>1, <2>1, <2>2, <2>4 DEF Has
    <2>6. Types' /\ Compared' /\ Stamps' /\ (spoiled' = {} => Alone' /\ Built')
      BY <1>1, <1>5, <2>4, <2>5, SameDirs, LinkMoves DEF x, Places
    <2> QED
      BY <2>6 DEF DirsInv
  <1>6. ASSUME To(p, "tidy"), UNCHANGED tmp PROVE DirsInv'
    BY <1>1, <1>6, SameDirs, BuilderMoves
  <1>7. \/ \E f \in proc[p].left : /\ tmp' = [tmp EXCEPT ![k].files = @ \cup {<<f, v>>}]
                                   /\ proc' = [proc EXCEPT ![p].left = @ \ {f}]
        \/ proc[p].left = {} /\ tmp' = [tmp EXCEPT ![k].mark = v] /\ To(p, "remove")
        \/ To(p, "tidy") /\ UNCHANGED tmp
    BY DEF Link
  <1> QED
    BY <1>4, <1>5, <1>6, <1>7

LEMMA RenameLinksStep ==
    ASSUME DirsInv, NEW p \in Procs, RenameLinks(p)
    PROVE  DirsInv'
  <1> DEFINE k == proc[p].of
  <1>1. /\ proc[p].need = "links" /\ proc[p].at = "rename" /\ ~Removing(p) /\ Builds(proc[p])
        /\ UNCHANGED <<lib, manifest, spoiled>>
    BY DEF RenameLinks, At, Removing, Builds
  <1>2. k \in Kinfers /\ proc[p].ver \in Nat /\ tmp[k] \in Dirs
    BY <1>1, SameDirs DEF DirsInv, Compared, Right, Stands
  <1>3. CASE k \in made /\ links = Empty
    <2> DEFINE x == [proc[p] EXCEPT !.at = "use"]
    <2>1. /\ x.at = "use" /\ x.need = "links"
      BY <1>1, Placed DEF Places
    <2> HIDE DEF x
    <2>2. /\ links' = tmp[k] /\ To(p, "use") /\ tmp' = [tmp EXCEPT ![k] = Empty]
          /\ made' \subseteq Kinfers
      BY <1>3, SameDirs DEF RenameLinks
    <2>3. tmp' \in [Kinfers -> Dirs] /\ \A j \in Kinfers : j # k => tmp'[j] = tmp[j]
      BY <1>2, <2>2, EmptyDir, SameDirs
    <2>4. Has(x, tmp')
      BY <2>1 DEF Has
    <2>5. Types' /\ Compared' /\ (spoiled' = {} => Alone' /\ Built')
      BY <1>1, <1>2, <2>2, <2>3, <2>4, SameDirs, LinkMoves DEF x, Places
    <2>6. spoiled = {} => links' = LinksOf(proc[p].ver)
      BY <1>1, <2>2 DEF DirsInv, Built, Has
    <2>7. Stamps'
      BY <1>1, <2>6 DEF Stamps, LinksOf
    <2> QED
      BY <2>5, <2>7 DEF DirsInv
  <1>4. CASE ~(k \in made /\ links = Empty)
    <2>1. (To(p, "use") \/ To(p, "tidy")) /\ UNCHANGED <<links, tmp, made>>
      BY <1>4 DEF RenameLinks, staging
    <2> QED
      BY <1>1, <2>1, SameDirs, BuilderMoves
  <1> QED
    BY <1>3, <1>4

LEMMA LoadedStep ==
    ASSUME DirsInv, NEW p \in Procs, Loaded(p)
    PROVE  DirsInv'
  <1>1. /\ proc[p].at = "use" /\ ~Removing(p) /\ UNCHANGED <<lib, links, manifest, tmp, made, spoiled>>
    BY DEF Loaded, Removing, staging
  <1>2. CASE Building(p)
    BY <1>1, <1>2, SameDirs, BuilderMoves DEF Loaded, Building, Builds
  <1>3. CASE ~Building(p)
    BY <1>1, <1>3, SameDirs, EndsStep DEF Loaded
  <1> QED
    BY <1>2, <1>3

\* Some requests end at once, those that remove links spoiling them.
LEMMA SomeEnd ==
    ASSUME DirsInv, NEW S \in SUBSET Procs,
           proc' = [p \in Procs |-> IF p \in S THEN Out ELSE proc[p]],
           spoiled' = spoiled \cup Spoils(S), UNCHANGED <<links, tmp, made, manifest>>,
           lib' \in [LibFiles -> {"none", "torn", "whole"}], lib' = lib \/ S = Procs
    PROVE  DirsInv'
  <1>1. Types'
    BY SameDirs, OutStands DEF Spoils, DirsInv, Types
  <1>2. Compared'
    BY OutStands DEF DirsInv, Compared, Right
  <1>3. Stamps'
    <2>1. (\E q \in S : Removing(q)) => spoiled' # {}
      BY DEF Spoils, Removing, At
    <2>2. \A q \in Procs \ S : proc'[q] = proc[q]
      OBVIOUS
    <2> QED
      BY <2>1, <2>2 DEF DirsInv, Stamps, Removing, LinksOf
  <1>4. spoiled' = {} => Alone' /\ Built'
    <2> SUFFICES ASSUME spoiled' = {} PROVE Alone' /\ Built'
      OBVIOUS
    <2>1. Alone /\ Built
      BY DEF DirsInv
    <2>2. \A p \in Procs : proc'[p] = Out \/ proc'[p] = proc[p]
      OBVIOUS
    <2>3. ~Builds(Out) /\ Has(Out, tmp)
      BY OutStands DEF Builds, Has
    <2>4. Built'
      BY <2>1, <2>2, <2>3 DEF Built
    <2>5. Alone'
      BY <2>1, <2>2, <2>3 DEF Alone
    <2> QED
      BY <2>4, <2>5
  <1> QED
    BY <1>1, <1>2, <1>3, <1>4 DEF DirsInv

LEMMA DiesStep ==
    ASSUME DirsInv, NEW k \in Kinfers, Dies(k)
    PROVE  DirsInv'
  <1> DEFINE S == {p \in Procs : proc[p].of = k}
  <1>1. /\ proc' = [p \in Procs |-> IF p \in S THEN Out ELSE proc[p]]
        /\ spoiled' = spoiled \cup Spoils(S) /\ UNCHANGED <<lib, links, tmp, made, manifest>>
    BY DEF Dies, staging
  <1>2. S \in SUBSET Procs
    OBVIOUS
  <1> HIDE DEF S
  <1> QED
    BY <1>1, <1>2, SameDirs, SomeEnd

LEMMA CutStep ==
    ASSUME DirsInv, PowerCut \/ OllamaPull
    PROVE  DirsInv'
  <1>1. CASE PowerCut
    <2>1. /\ proc' = [p \in Procs |-> IF p \in Procs THEN Out ELSE proc[p]]
          /\ spoiled' = spoiled \cup Spoils(Procs) /\ UNCHANGED <<links, tmp, made, manifest>>
      BY <1>1 DEF PowerCut, staging
    <2>2. lib' \in [LibFiles -> {"none", "torn", "whole"}]
      BY <1>1, SameDirs DEF PowerCut
    <2> QED
      BY <2>1, <2>2, SomeEnd
  <1>2. CASE OllamaPull
    <2>1. UNCHANGED <<proc, lib, links, tmp, made, spoiled>> /\ manifest' = manifest + 1
      BY <1>2 DEF OllamaPull, staging
    <2>2. Types'
      BY <2>1 DEF DirsInv, Types
    <2>3. Compared' /\ Stamps' /\ (spoiled' = {} => Alone' /\ Built')
      BY <2>1 DEF DirsInv, Compared, Right, Stamps, Removing, LinksOf, Alone, Builds, Built, Has, Empty
    <2> QED
      BY <2>2, <2>3 DEF DirsInv
  <1> QED
    BY <1>1, <1>2

LEMMA DirsInvInductive == DirsInv /\ [CachesNext]_cacheVars => DirsInv'
  <1> SUFFICES ASSUME DirsInv, [CachesNext]_cacheVars PROVE DirsInv'
    OBVIOUS
  <1>1. CASE UNCHANGED cacheVars
    <2>1. UNCHANGED <<proc, lib, links, tmp, made, manifest, spoiled>>
      BY <1>1 DEF cacheVars
    <2> QED
      BY <2>1
      DEF DirsInv, Types, Compared, Right, Stamps, Removing, LinksOf, Alone, Builds, Built, Has, Empty
  <1>2. ASSUME NEW p \in Procs, \/ \E need \in Needs, k \in Kinfers : Begin(p, need, k)
                                \/ Compare(p) \/ Stage(p) \/ Install(p)
        PROVE  DirsInv'
    BY <1>2, BeginStep, CompareStep, StageStep, InstallStep
  <1>3. ASSUME NEW p \in Procs, \/ Marked(p) \/ CompleteFiles(p) \/ Fetch(p) \/ Unpack(p)
                                \/ Rename(p) \/ Unlink(p)
        PROVE  DirsInv'
    BY <1>3, MLXStep, UnlinkStep
  <1>4. ASSUME NEW p \in Procs, \/ LookStamp(p) \/ Clear(p) \/ Mkdir(p) \/ Link(p)
                                \/ RenameLinks(p) \/ Tidy(p) \/ Loaded(p)
        PROVE  DirsInv'
    BY <1>4, LookStampStep, BesideStep, MkdirStep, LinkStep, RenameLinksStep, LoadedStep
  <1> QED
    BY <1>1, <1>2, <1>3, <1>4, DiesStep, CutStep DEF CachesNext, Needs

-----------------------------------------------------------------------------
(* What follows.                                                           *)

\* Where a request stands after it moved.
LEMMA Stood ==
    ASSUME DirsInv, NEW p \in Procs
    PROVE  /\ \A at : proc' = [proc EXCEPT ![p].at = at] =>
                  proc'[p].at = at /\ proc'[p].need = proc[p].need
           /\ proc' = [proc EXCEPT ![p] = Out] => proc'[p].at = "out"
           /\ \A x : proc' = [proc EXCEPT ![p] = x] => proc'[p] = x
           /\ proc[p] \in Stands
  BY ZenonT(30), OutStands DEF DirsInv, Types, Stands

LEMMA ToStands ==
    ASSUME DirsInv, NEW p \in Procs, NEW at, To(p, at)
    PROVE  proc'[p].at = at
  BY Stood DEF To

LEMMA EndStands ==
    ASSUME DirsInv, NEW p \in Procs, Ends(p)
    PROVE  proc'[p].at = "out"
  BY Stood DEF Ends

\* Only a request of its own gets a set.
LEMMA OwnStep ==
    ASSUME DirsInv, [CachesNext]_cacheVars, NEW p \in Procs, proc'[p].at = "use", proc[p].at # "use"
    PROVE  \/ Compare(p) \/ CompleteFiles(p) \/ Rename(p) \/ LookStamp(p) \/ RenameLinks(p)
  <1>1. ~PowerCut /\ ~OllamaPull /\ ~UNCHANGED cacheVars
    BY OutStands DEF PowerCut, OllamaPull, cacheVars
  <1>2. ASSUME NEW k \in Kinfers, Dies(k) PROVE FALSE
    BY <1>2, OutStands DEF Dies
  <1>3. PICK q \in Procs :
          \/ \E need \in Needs, k \in Kinfers : Begin(q, need, k)
          \/ Compare(q) \/ Stage(q) \/ Install(q)
          \/ Marked(q) \/ CompleteFiles(q) \/ Fetch(q) \/ Unpack(q) \/ Rename(q) \/ Unlink(q)
          \/ LookStamp(q) \/ Clear(q) \/ Mkdir(q) \/ Link(q) \/ RenameLinks(q) \/ Tidy(q)
          \/ Loaded(q)
    BY <1>1, <1>2 DEF CachesNext, Needs
  <1>4. q = p
    <2> SUFFICES ASSUME q # p PROVE proc'[p] = proc[p]
      OBVIOUS
    <2>1. UNCHANGED proc \/ \E x : proc' = [proc EXCEPT ![q] = x]
      <3>1. CASE Compare(q) \/ Stage(q) \/ Install(q) \/ \E need \in Needs, k \in Kinfers : Begin(q, need, k)
        BY <3>1 DEF Begin, Compare, Stage, Install, To, Ends
      <3>2. CASE Marked(q) \/ CompleteFiles(q) \/ Fetch(q) \/ Unpack(q) \/ Rename(q) \/ Unlink(q)
        BY <3>2 DEF Marked, CompleteFiles, Fetch, Unpack, Rename, Unlink, To, Ends
      <3>3. CASE Clear(q) \/ Tidy(q)
        BY <3>3 DEF Clear, Tidy, RemoveBeside, To, Ends
      <3>4. CASE LookStamp(q) \/ Mkdir(q) \/ RenameLinks(q) \/ Loaded(q)
        BY <3>4 DEF LookStamp, Mkdir, RenameLinks, Loaded, To, Ends
      <3>5. CASE Link(q)
        BY <3>5 DEF Link, To
      <3> QED
        BY <1>3, <3>1, <3>2, <3>3, <3>4, <3>5
    <2> QED
      BY <2>1, SameDirs
  <1>5. ~Loaded(p)
    BY DEF Loaded
  <1>6. ASSUME NEW x, proc' = [proc EXCEPT ![p] = x], x.at # "use" PROVE FALSE
    BY <1>6, Stood
  <1>7. ~Install(p)
    <2> DEFINE x == [proc[p] EXCEPT !.at = "look", !.left = @ \ {proc[p].file}]
    <2>1. Install(p) => proc' = [proc EXCEPT ![p] = x]
      BY DEF Install
    <2>2. x.at = "look"
      BY Stood DEF Stands
    <2> HIDE DEF x
    <2> QED
      BY <1>6, <2>1, <2>2
  <1>8. ~(Stage(p) \/ Fetch(p) \/ Unpack(p) \/ Marked(p))
    <2> SUFFICES ASSUME Stage(p) \/ Fetch(p) \/ Unpack(p) \/ Marked(p) PROVE FALSE
      OBVIOUS
    <2>1. \/ Ends(p) \/ To(p, "install") \/ To(p, "unpack") \/ To(p, "rename") \/ To(p, "files")
          \/ To(p, "fetch") \/ To(p, "files again") \/ To(p, "remove")
      BY DEF Stage, Fetch, Unpack, Marked
    <2> QED
      BY <2>1, ToStands, EndStands
  <1>9. ~(Unlink(p) \/ Clear(p) \/ Tidy(p) \/ Mkdir(p))
    <2> SUFFICES ASSUME Unlink(p) \/ Clear(p) \/ Tidy(p) \/ Mkdir(p) PROVE FALSE
      OBVIOUS
    <2>1. \/ UNCHANGED proc \/ To(p, "rename again") \/ To(p, "rename") \/ To(p, "mkdir")
          \/ To(p, "link") \/ Ends(p)
      BY DEF Unlink, Clear, Tidy, Mkdir, RemoveBeside
    <2> QED
      BY <2>1, ToStands, EndStands
  <1>10. ~Link(p)
    <2> SUFFICES ASSUME Link(p) PROVE FALSE
      OBVIOUS
    <2>1. proc[p].at = "link"
      BY DEF Link, At
    <2>2. (\E f : proc' = [proc EXCEPT ![p].left = @ \ {f}]) \/ To(p, "remove") \/ To(p, "tidy")
      BY DEF Link
    <2>3. ASSUME NEW f, proc' = [proc EXCEPT ![p].left = @ \ {f}] PROVE FALSE
      <3> DEFINE x == [proc[p] EXCEPT !.left = @ \ {f}]
      <3>1. proc' = [proc EXCEPT ![p] = x]
        BY <2>3
      <3>2. x.at = "link"
        BY <2>1, Stood DEF Stands
      <3> HIDE DEF x
      <3> QED
        BY <1>6, <3>1, <3>2
    <2> QED
      BY <2>2, <2>3, ToStands
  <1>11. ASSUME NEW need \in Needs, NEW k \in Kinfers, Begin(p, need, k) PROVE FALSE
    <2> DEFINE x == [of |-> k, at |-> "look", need |-> need, file |-> "", ver |-> manifest,
                     left |-> IF need = "links" THEN Layers ELSE LibFiles]
    <2>1. proc' = [proc EXCEPT ![p] = x]
      BY <1>11 DEF Begin
    <2>2. x.at = "look"
      OBVIOUS
    <2> HIDE DEF x
    <2> QED
      BY <1>6, <2>1, <2>2
  <1> QED
    BY <1>3, <1>4, <1>5, <1>7, <1>8, <1>9, <1>10, <1>11

LEMMA SameNeed ==
    ASSUME DirsInv, [CachesNext]_cacheVars, NEW p \in Procs, proc'[p].at = "use", proc[p].at # "use"
    PROVE  proc'[p].need = proc[p].need
  <1>1. CASE Compare(p)
    <2>1. proc[p] \in Stands /\ \A x : proc' = [proc EXCEPT ![p] = x] => proc'[p] = x
      BY Stood
    <2>2. ASSUME NEW f, proc' = [proc EXCEPT ![p].at = "stage", ![p].file = f]
          PROVE  proc'[p].need = proc[p].need
      <3> DEFINE x == [proc[p] EXCEPT !.at = "stage", !.file = f]
      <3>1. x.need = proc[p].need
        BY <2>1 DEF Stands
      <3>2. proc' = [proc EXCEPT ![p] = x]
        BY <2>2
      <3> HIDE DEF x
      <3> QED
        BY <2>1, <3>1, <3>2
    <2>3. ASSUME NEW f, proc' = [proc EXCEPT ![p].left = @ \ {f}]
          PROVE  proc'[p].need = proc[p].need
      <3> DEFINE x == [proc[p] EXCEPT !.left = @ \ {f}]
      <3>1. x.need = proc[p].need
        BY <2>1 DEF Stands
      <3>2. proc' = [proc EXCEPT ![p] = x]
        BY <2>3
      <3> HIDE DEF x
      <3> QED
        BY <2>1, <3>1, <3>2
    <2> QED
      BY <1>1, <2>2, <2>3, Stood DEF Compare, To
  <1>2. CASE CompleteFiles(p) \/ Rename(p) \/ LookStamp(p) \/ RenameLinks(p)
    <2>1. Ends(p) \/ \E at : To(p, at)
      BY <1>2 DEF CompleteFiles, Rename, LookStamp, RenameLinks
    <2> QED
      BY <2>1, EndStands, Stood DEF To
  <1> QED
    BY <1>1, <1>2, OwnStep

LEMMA GivenStep ==
    ASSUME DirsInv, [CachesNext]_cacheVars, NEW p \in Procs, proc'[p].at = "use"
    PROVE  Given(p)
  <1>1. DirsInv'
    BY DirsInvInductive
  <1>2. proc'[p].need \in Needs
    BY <1>1 DEF DirsInv, Types, Stands
  <1>3. CASE proc'[p].need = "libs"
    <2>1. \A f \in LibFiles : lib'[f] = "whole"
      BY <1>1, <1>3 DEF DirsInv, Compared, Right
    <2> QED
      BY <1>3, <2>1 DEF Given
  <1>4. CASE proc'[p].need = "mlx"
    <2>1. CASE proc[p].at = "use"
      BY <1>4, <2>1 DEF Given
    <2>2. CASE proc[p].at # "use"
      <3>1. CompleteFiles(p) \/ Rename(p)
        <4>1. proc'[p].need = proc[p].need
          BY <2>2, SameNeed
        <4>2. ~(Compare(p) \/ LookStamp(p) \/ RenameLinks(p))
          BY <1>4, <4>1 DEF Compare, LookStamp, RenameLinks, At
        <4> QED
          BY <2>2, <4>2, OwnStep
      <3>2. LibFiles \subseteq mlx'.files
        <4>1. CASE CompleteFiles(p)
          <5>1. LibFiles \subseteq mlx.files \/ To(p, "fetch") \/ To(p, "remove")
            BY <4>1 DEF CompleteFiles
          <5> QED
            BY <4>1, <5>1, ToStands DEF CompleteFiles
        <4>2. CASE Rename(p)
          <5>1. mlx' = Package
            <6>1. mlx' = Package \/ To(p, "again") \/ Ends(p)
              BY <4>2 DEF Rename
            <6> QED
              BY <6>1, ToStands, EndStands
          <5> QED
            BY <5>1 DEF Package
        <4> QED
          BY <3>1, <4>1, <4>2
      <3> QED
        BY <1>4, <3>2 DEF Given
    <2> QED
      BY <2>1, <2>2
  <1>5. CASE proc'[p].need = "links"
    <2>1. CASE proc[p].at = "use"
      BY <1>5, <2>1 DEF Given
    <2>2. CASE proc[p].at # "use"
      <3>1. LookStamp(p) \/ RenameLinks(p)
        <4>1. proc'[p].need = proc[p].need
          BY <2>2, SameNeed
        <4>2. ~(Compare(p) \/ CompleteFiles(p) \/ Rename(p))
          BY <1>5, <4>1 DEF Compare, CompleteFiles, Rename, At
        <4> QED
          BY <2>2, <4>2, OwnStep
      <3>2. proc[p].at # "out" /\ ~Removing(p) /\ proc[p].need = "links"
        BY <3>1 DEF LookStamp, RenameLinks, At, Removing
      <3>3. (UNCHANGED links /\ Stamped(p)) \/ links' = LinksOf(proc[p].ver) \/ spoiled # {}
        <4>1. CASE LookStamp(p)
          BY <2>2, <4>1, ToStands DEF LookStamp
        <4>2. CASE RenameLinks(p)
          <5>1. spoiled = {} => tmp[proc[p].of] = LinksOf(proc[p].ver)
            BY <4>2 DEF DirsInv, Built, Has, RenameLinks, At
          <5>2. links' = tmp[proc[p].of] \/ (UNCHANGED links /\ Stamped(p)) \/ To(p, "tidy")
            BY <4>2 DEF RenameLinks
          <5> QED
            BY <5>1, <5>2, ToStands
        <4> QED
          BY <3>1, <4>1, <4>2
      <3>4. Stamped(p) => \/ links = LinksOf(proc[p].ver) \/ spoiled # {} \/ Replacing(p, "links")
        BY <3>2 DEF DirsInv, Compared, Right, Stamps, Stamped, Replacing, Removing
      <3> QED
        BY <1>5, <3>3, <3>4 DEF Given, LinksOf
    <2> QED
      BY <2>1, <2>2
  <1> QED
    BY <1>2, <1>3, <1>4, <1>5 DEF Needs

\* What a request is given is whole, for any other requests and kinfers that
\* start, build, are killed or lose power meanwhile (nativelib.go, libs.go,
\* ollama.go); links, as long as no two of one kinfer built them at once and
\* nobody was killed removing them.
THEOREM WholeWhenGiven == CachesSpec => GivenWhole
  <1>1. DirsInv /\ [CachesNext]_cacheVars => [\A p \in Procs : proc'[p].at = "use" => Given(p)]_cacheVars
    BY GivenStep
  <1> QED
    BY <1>1, InitDirsInv, DirsInvInductive, PTL DEF CachesSpec, GivenWhole
============================================================================
