------------------------ MODULE EmbeddingProofs ------------------------
(***************************************************************************)
(* That an embedding model is open exactly while the server or a request   *)
(* has it, and that a request is answered with what its own texts give,    *)
(* for any number of requests, models and texts.                           *)
(*                                                                         *)
(* The count alone is not inductive.  A load may give its lease two        *)
(* references because nobody had that lease before (Fresh) and no other    *)
(* model was loaded meanwhile (Swapping); a release may drop one because   *)
(* its request was counted as a user (Holding).  Of the answers: a pass    *)
(* starts in a cleared context (Results), with the texts that follow those *)
(* made (Underway), on the model named (Named).                            *)
(***************************************************************************)
EXTENDS Embedding, FiniteSetTheorems, SequenceTheorems, TLAPS

Using == {"leased", "embed", "passes"}
Places == Using \cup {"idle", "acquire", "retiring", "unload", "draining", "done"}
Keeps == {KeepAlive(a.keep) : a \in Asks} \cup {"default"}
Leases == [path : Names \cup {Nobody}, refs : Nat, keep : Keeps, open : BOOLEAN]

Types ==
    /\ ask \in [Requests -> Asks \cup {Nobody}]
    /\ pc \in [Requests -> Places]
    /\ lease \in [Requests -> Requests \cup {Nobody}]
    /\ turn \in [Requests -> Requests \cup {Nobody}]
    /\ emb \in Requests \cup {Nobody}
    /\ timer \in Requests \cup {Nobody}
    /\ leases \in [Requests -> Leases]

Asking == \A r \in Requests : pc[r] # "idle" => ask[r] \in Asks
Holding == \A r \in Requests : pc[r] \in Using => lease[r] \in Requests
Fresh ==
    \A r \in Requests : pc[r] \in {"idle", "acquire", "retiring"} => emb # r /\ Users(r) = {}
Swapping ==
    \A r \in Requests : pc[r] = "retiring" =>
        embLoading /\ emb = Nobody /\ \A u \in Requests : pc[u] = "retiring" => u = r

Ours(l) == IF emb = l THEN 1 ELSE 0
Counted == \A l \in Requests : leases[l].refs = Cardinality(Users(l)) + Ours(l)
OpenIfCounted == \A l \in Requests : leases[l].open <=> leases[l].refs > 0
Turns ==
    \A l \in Requests : turn[l] # Nobody => turn[l] \in Users(l) /\ pc[turn[l]] = "passes"

IInv == Types /\ Asking /\ Holding /\ Fresh /\ Swapping /\ Counted /\ OpenIfCounted /\ Turns

-----------------------------------------------------------------------------
(* Users come and go one at a time.                                        *)

LEMMA UsersFinite ==
  \A l : IsFiniteSet(Users(l)) /\ Cardinality(Users(l)) \in Nat
         /\ Cardinality(Users(l)) <= Cardinality(Requests)
  BY EmbeddingAssumption, FS_Subset, FS_CardinalityType DEF Users

LEMMA OneComes ==
  ASSUME NEW S, NEW x, IsFiniteSet(S), x \notin S
  PROVE  Cardinality(S \cup {x}) = Cardinality(S) + 1
  BY FS_AddElement

LEMMA OneGoes ==
  ASSUME NEW S, NEW x \in S, IsFiniteSet(S)
  PROVE  Cardinality(S \ {x}) = Cardinality(S) - 1
  BY FS_RemoveElement

\* What letting go of a lease leaves of the others and of its own.
LEMMA DroppedIs ==
  ASSUME NEW ls \in [Requests -> Leases], NEW l \in Requests, ls[l].refs > 0
  PROVE  /\ Dropped(ls, l) \in [Requests -> Leases]
         /\ Dropped(ls, l)[l].refs = ls[l].refs - 1
         /\ Dropped(ls, l)[l].open <=> ls[l].open /\ ls[l].refs > 1
         /\ \A k \in Requests \ {l} : Dropped(ls, l)[k] = ls[k]
  <1>1. PICK o \in BOOLEAN : o = (ls[l].open /\ ls[l].refs > 1)
    OBVIOUS
  <1>2. PICK n \in Nat : n = ls[l].refs - 1
    BY DEF Leases
  <1>3. PICK after : after = Dropped(ls, l)
    OBVIOUS
  <1>4. after = [ls EXCEPT ![l].refs = n, ![l].open = o]
    BY <1>1, <1>2, <1>3 DEF Dropped
  <1>5. /\ after \in [Requests -> Leases]
        /\ after[l].refs = n /\ after[l].open = o
        /\ \A k \in Requests \ {l} : after[k] = ls[k]
    BY <1>4 DEF Leases
  <1> QED
    BY <1>1, <1>2, <1>3, <1>5

LEMMA ArmIs == \A e, ls : ArmEmbedIdle(e, ls) \in {e, Nobody}
  BY DEF ArmEmbedIdle

\* Only the clock, or what nothing here looks at, changes.
LEMMA SameUsers ==
  ASSUME pc' = pc, lease' = lease
  PROVE  \A l : Users(l)' = Users(l)
  BY DEF Users

\* A request goes from one place to another without a lease at either.
LEMMA UsersStay ==
  ASSUME Types, NEW r \in Requests, pc[r] \notin Using, pc'[r] \notin Using,
         \A u \in Requests \ {r} : pc'[u] = pc[u] /\ lease'[u] = lease[u]
  PROVE  \A l : Users(l)' = Users(l)
  BY DEF Users, Using

\* The loaded model let go of by the server, its requests as they were.
LEMMA RetireKeeps ==
  ASSUME Types, Counted, OpenIfCounted, emb # Nobody, RetireEmbedder,
         \A l : Users(l)' = Users(l)
  PROVE  /\ leases' \in [Requests -> Leases] /\ emb' = Nobody /\ timer' = Nobody
         /\ Counted' /\ OpenIfCounted'
  <1>1. emb \in Requests
    BY DEF Types
  <1>2. Cardinality(Users(emb)) \in Nat /\ leases[emb].refs = Cardinality(Users(emb)) + 1
    BY <1>1, UsersFinite DEF Counted, Ours
  <1>3. /\ emb' = Nobody
        /\ leases' = Dropped(leases, emb)
        /\ timer' = Nobody
    BY DEF RetireEmbedder, DropEmbedder, State, ArmEmbedIdle
  <1>4. /\ leases' \in [Requests -> Leases]
        /\ leases'[emb].refs = leases[emb].refs - 1
        /\ leases'[emb].open <=> leases[emb].open /\ leases[emb].refs > 1
        /\ \A k \in Requests \ {emb} : leases'[k] = leases[k]
    BY <1>1, <1>2, <1>3, DroppedIs DEF Types
  <1>5. Counted'
    <2> SUFFICES ASSUME NEW l \in Requests
                 PROVE  leases'[l].refs = Cardinality(Users(l)) + 0
      BY <1>3, EmbeddingAssumption DEF Counted, Ours
    <2>1. CASE l = emb
      BY <2>1, <1>2, <1>4
    <2>2. CASE l # emb
      BY <2>2, <1>4 DEF Counted, Ours
    <2> QED
      BY <2>1, <2>2
  <1>6. OpenIfCounted'
    <2> SUFFICES ASSUME NEW l \in Requests
                 PROVE  leases'[l].open <=> leases'[l].refs > 0
      BY DEF OpenIfCounted
    <2>1. CASE l = emb
      BY <2>1, <1>1, <1>2, <1>4 DEF OpenIfCounted
    <2>2. CASE l # emb
      BY <2>2, <1>4 DEF OpenIfCounted
    <2> QED
      BY <2>1, <2>2
  <1> QED
    BY <1>3, <1>4, <1>5, <1>6

-----------------------------------------------------------------------------
(* One step at a time.                                                     *)

LEMMA InitHolds == Init => IInv
  <1> SUFFICES ASSUME Init PROVE IInv
    OBVIOUS
  <1>1. \A l : Users(l) = {}
    BY DEF Init, Users
  <1>2. Types
    BY DEF Init, Types, Places, Leases, NoLease, Keeps
  <1>3. Cardinality({}) = 0 /\ emb = Nobody
    BY FS_EmptySet DEF Init
  <1>4. \A l \in Requests : leases[l].refs = 0 /\ leases[l].open = FALSE
    BY DEF Init, NoLease
  <1>5. Counted
    BY <1>1, <1>3, <1>4, EmbeddingAssumption DEF Counted, Ours
  <1>6. OpenIfCounted
    BY <1>4 DEF OpenIfCounted
  <1> QED
    BY <1>5, <1>6, <1>1, <1>2, EmbeddingAssumption DEF IInv, Init, Asking, Holding, Fresh, Swapping, Turns, Using

\* A handler that begins holds nothing.
LEMMA ArriveKeeps ==
  ASSUME IInv, NEW r \in Requests, Arrive(r)
  PROVE  IInv'
  <1>1. /\ pc[r] = "idle" /\ pc' \in [Requests -> Places]
        /\ pc'[r] \in {"done", "acquire", "unload"}
        /\ \A u \in Requests \ {r} : pc'[u] = pc[u]
    BY DEF Arrive, Embeds, Generates, Serves, Fails, Answers, Goes, IInv, Types, Places
  <1>2. PICK a \in Asks : ask' = [ask EXCEPT ![r] = a]
    BY DEF Arrive
  <1>3. UNCHANGED <<lease, emb, leases, embLoading, timer, turn>>
    BY DEF Arrive, server, engine
  <1>4. \A l : Users(l)' = Users(l)
    BY <1>1, <1>3, UsersStay DEF IInv, Using
  <1>5. Types'
    BY <1>1, <1>2, <1>3 DEF IInv, Types
  <1>6. Asking' /\ Holding'
    BY <1>1, <1>2, <1>3 DEF IInv, Types, Asking, Holding, Using
  <1>7. Fresh' /\ Swapping'
    BY <1>1, <1>3, <1>4 DEF IInv, Types, Fresh, Swapping
  <1>8. Counted' /\ OpenIfCounted'
    BY <1>3, <1>4 DEF IInv, Counted, OpenIfCounted, Ours
  <1>9. Turns'
    BY <1>1, <1>3, <1>4 DEF IInv, Types, Turns, Users, Using
  <1> QED
    BY <1>5, <1>6, <1>7, <1>8, <1>9 DEF IInv

\* A request more that has the loaded model.
LEMMA ShareKeeps ==
  ASSUME IInv, NEW r \in Requests, Share(r)
  PROVE  IInv'
  <1>1. /\ pc[r] = "acquire" /\ emb \in Requests
        /\ leases' = [leases EXCEPT ![emb].refs = @ + 1]
        /\ lease' = [lease EXCEPT ![r] = emb] /\ pc' = [pc EXCEPT ![r] = "leased"]
        /\ timer' = Nobody
        /\ UNCHANGED <<ask, emb, embLoading, turn>>
    BY DEF Share, Goes, engine, IInv, Types
  <1>2. /\ r \notin Users(emb) /\ Users(emb)' = Users(emb) \cup {r}
        /\ \A l \in Requests \ {emb} : Users(l)' = Users(l)
    BY <1>1 DEF Users, IInv, Types
  <1>3. Cardinality(Users(emb)') = Cardinality(Users(emb)) + 1
    BY <1>2, UsersFinite, OneComes
  <1>4. /\ leases' \in [Requests -> Leases] /\ leases'[emb].refs = leases[emb].refs + 1
        /\ leases'[emb].open = leases[emb].open
        /\ \A l \in Requests \ {emb} : leases'[l] = leases[l]
    BY <1>1 DEF IInv, Types, Leases
  <1>5. Types'
    BY <1>1, <1>4 DEF IInv, Types, Places, Using
  <1>6. Asking' /\ Holding'
    BY <1>1 DEF IInv, Types, Asking, Holding, Using
  <1>7. Fresh' /\ Swapping'
    BY <1>1, <1>2, EmbeddingAssumption DEF IInv, Types, Fresh, Swapping
  <1>8. Counted' /\ OpenIfCounted'
    <2> SUFFICES ASSUME NEW l \in Requests
                 PROVE  /\ leases'[l].refs = Cardinality(Users(l)') + Ours(l)
                        /\ leases'[l].open <=> leases'[l].refs > 0
      BY <1>1 DEF Counted, OpenIfCounted, Ours
    <2>1. CASE l = emb
      BY <2>1, <1>1, <1>3, <1>4, UsersFinite DEF IInv, Counted, OpenIfCounted, Ours
    <2>2. CASE l # emb
      BY <2>2, <1>2, <1>4 DEF IInv, Counted, OpenIfCounted
    <2> QED
      BY <2>1, <2>2
  <1>9. Turns'
    BY <1>1, <1>2 DEF IInv, Types, Turns
  <1> QED
    BY <1>5, <1>6, <1>7, <1>8, <1>9 DEF IInv

\* The server lets go, and a request swaps, unloads, or a callback did it.
LEMMA MakeRoomKeeps ==
  ASSUME IInv, NEW r \in Requests, MakeRoom(r)
  PROVE  IInv'
  <1>1. /\ pc[r] = "acquire" /\ ~embLoading /\ embLoading' = TRUE
        /\ lease' = [lease EXCEPT ![r] = emb] /\ pc' = [pc EXCEPT ![r] = "retiring"]
        /\ UNCHANGED <<ask, turn>>
    BY DEF MakeRoom, Goes, engine
  <1>2. \A l : Users(l)' = Users(l)
    BY <1>1, UsersStay DEF IInv, Types, Using
  <1>3. /\ leases' \in [Requests -> Leases] /\ emb' = Nobody /\ timer' = Nobody
        /\ Counted' /\ OpenIfCounted'
    <2>1. CASE emb = Nobody
      BY <2>1, <1>2 DEF MakeRoom, State, IInv, Types, Counted, OpenIfCounted, Ours
    <2>2. CASE emb # Nobody
      BY <2>2, <1>2, RetireKeeps DEF MakeRoom, IInv
    <2> QED
      BY <2>1, <2>2
  <1>4. Types'
    BY <1>1, <1>3 DEF IInv, Types, Places
  <1>5. Asking' /\ Holding'
    BY <1>1 DEF IInv, Types, Asking, Holding, Using
  <1>6. Fresh' /\ Swapping'
    BY <1>1, <1>2, <1>3, EmbeddingAssumption DEF IInv, Types, Fresh, Swapping
  <1>7. Turns'
    BY <1>1, <1>2 DEF IInv, Types, Turns
  <1> QED
    BY <1>3, <1>4, <1>5, <1>6, <1>7 DEF IInv

LEMMA UnloadKeeps ==
  ASSUME IInv, NEW r \in Requests, Unload(r)
  PROVE  IInv'
  <1>1. /\ pc[r] = "unload" /\ pc' \in [Requests -> Places] /\ pc'[r] \in {"draining", "done"}
        /\ \A u \in Requests \ {r} : pc'[u] = pc[u]
        /\ lease' \in {lease, [lease EXCEPT ![r] = emb]}
        /\ UNCHANGED <<ask, embLoading, turn>>
    BY DEF Unload, Goes, Answers, engine, IInv, Types, Places
  <1>2. \A l : Users(l)' = Users(l)
    BY <1>1, UsersStay DEF IInv, Types, Using
  <1>3. /\ leases' \in [Requests -> Leases] /\ emb' \in {emb, Nobody} /\ timer' \in {timer, Nobody}
        /\ Counted' /\ OpenIfCounted'
    <2>1. CASE UNCHANGED <<emb, leases, timer>>
      BY <2>1, <1>2 DEF IInv, Types, Counted, OpenIfCounted, Ours
    <2>2. CASE emb # Nobody /\ RetireEmbedder
      BY <2>2, <1>2, RetireKeeps DEF IInv
    <2> QED
      BY <2>1, <2>2 DEF Unload
  <1>4. Types'
    BY <1>1, <1>3 DEF IInv, Types
  <1>5. Asking' /\ Holding'
    BY <1>1 DEF IInv, Types, Asking, Holding, Using
  <1>6. Fresh' /\ Swapping'
    BY <1>1, <1>2, <1>3, EmbeddingAssumption DEF IInv, Types, Fresh, Swapping
  <1>7. Turns'
    BY <1>1, <1>2 DEF IInv, Types, Turns, Users, Using
  <1> QED
    BY <1>3, <1>4, <1>5, <1>6, <1>7 DEF IInv

LEMMA CallbackKeeps ==
  ASSUME IInv, NEW r \in Requests, Callback(r)
  PROVE  IInv'
  <1>1. UNCHANGED <<ask, pc, lease, embLoading, turn>>
    BY DEF Callback, engine
  <1>2. \A l : Users(l)' = Users(l)
    BY <1>1, SameUsers
  <1>3. /\ leases' \in [Requests -> Leases] /\ emb' \in {emb, Nobody} /\ timer' \in {timer, Nobody}
        /\ Counted' /\ OpenIfCounted'
    <2>1. CASE UNCHANGED <<emb, leases, timer>>
      BY <2>1, <1>2 DEF IInv, Types, Counted, OpenIfCounted, Ours
    <2>2. CASE emb = r /\ RetireEmbedder
      BY <2>2, <1>2, RetireKeeps, EmbeddingAssumption DEF IInv
    <2> QED
      BY <2>1, <2>2 DEF Callback
  <1> QED
    BY <1>1, <1>2, <1>3, EmbeddingAssumption DEF IInv, Types, Asking, Holding, Fresh, Swapping, Turns

\* Nobody had the lease a load makes, and no other model is loaded beside it.
LEMMA LoadKeeps ==
  ASSUME IInv, NEW r \in Requests, Load(r)
  PROVE  IInv'
  <1>1. /\ pc[r] = "retiring" /\ embLoading /\ emb = Nobody
        /\ Users(r) = {} /\ \A u \in Requests : pc[u] = "retiring" => u = r
    BY DEF Load, IInv, Fresh, Swapping
  <1>2. UNCHANGED <<ask, timer, turn>>
    BY DEF Load, engine
  <1>3. CASE /\ ask[r].model \in Embedders /\ Goes(r, "leased")
             /\ leases' = [leases EXCEPT ![r] = [path |-> ask[r].model, refs |-> 2, keep |-> "default", open |-> TRUE]]
             /\ emb' = r /\ lease' = [lease EXCEPT ![r] = r]
    <2>1. pc' = [pc EXCEPT ![r] = "leased"] /\ lease' = [lease EXCEPT ![r] = r]
      BY <1>3 DEF Goes
    <2>2. [path |-> ask[r].model, refs |-> 2, keep |-> "default", open |-> TRUE] \in Leases
      BY <1>3, EmbeddingAssumption DEF Leases, Keeps
    <2>3. /\ leases' \in [Requests -> Leases] /\ leases'[r].refs = 2 /\ leases'[r].open = TRUE
          /\ \A l \in Requests \ {r} : leases'[l] = leases[l]
      BY <1>3, <2>2 DEF IInv, Types
    <2>4. Users(r)' = {r} /\ \A l \in Requests \ {r} : Users(l)' = Users(l)
      BY <1>1, <2>1 DEF Users, IInv, Types
    <2>5. Cardinality(Users(r)') = 1
      BY <2>4, FS_Singleton
    <2>6. Types'
      BY <1>2, <1>3, <2>1, <2>3 DEF IInv, Types, Places, Using
    <2>7. Asking' /\ Holding'
      BY <1>1, <1>2, <2>1 DEF IInv, Types, Asking, Holding, Using
    <2>8. Fresh' /\ Swapping'
      BY <1>1, <1>3, <2>1, <2>4 DEF IInv, Types, Fresh, Swapping
    <2>9. Counted' /\ OpenIfCounted'
      <3> SUFFICES ASSUME NEW l \in Requests
                   PROVE  /\ leases'[l].refs = Cardinality(Users(l)') + Ours(l)'
                          /\ leases'[l].open <=> leases'[l].refs > 0
        BY DEF Counted, OpenIfCounted
      <3>1. CASE l = r
        BY <3>1, <1>3, <2>3, <2>5 DEF Ours
      <3>2. CASE l # r
        <4>1. Ours(l) = 0 /\ Ours(l)' = 0
          BY <3>2, <1>1, <1>3, EmbeddingAssumption DEF Ours
        <4> QED
          BY <3>2, <4>1, <2>3, <2>4 DEF IInv, Counted, OpenIfCounted
      <3> QED
        BY <3>1, <3>2
    <2>10. Turns'
      BY <1>1, <1>2, <2>1, <2>4 DEF IInv, Types, Turns
    <2> QED
      BY <2>6, <2>7, <2>8, <2>9, <2>10 DEF IInv
  <1>4. CASE /\ pc' = [pc EXCEPT ![r] = "done"] /\ lease' = [lease EXCEPT ![r] = Nobody]
             /\ UNCHANGED <<leases, emb>>
    <2>1. \A l : Users(l)' = Users(l)
      BY <1>1, <1>4, UsersStay DEF IInv, Types, Using
    <2>2. Types'
      BY <1>2, <1>4 DEF IInv, Types, Places
    <2>3. Asking' /\ Holding'
      BY <1>1, <1>2, <1>4 DEF IInv, Types, Asking, Holding, Using
    <2>4. Fresh' /\ Swapping'
      BY <1>1, <1>4, <2>1 DEF IInv, Types, Fresh, Swapping
    <2>5. Counted' /\ OpenIfCounted'
      BY <1>4, <2>1 DEF IInv, Counted, OpenIfCounted, Ours
    <2>6. Turns'
      BY <1>1, <1>2, <1>4, <2>1 DEF IInv, Types, Turns
    <2> QED
      BY <2>2, <2>3, <2>4, <2>5, <2>6 DEF IInv
  <1> QED
    BY <1>3, <1>4 DEF Load, Fails, Answers, Goes

LEMMA UnloadedKeeps ==
  ASSUME IInv, NEW r \in Requests, Unloaded(r)
  PROVE  IInv'
  <1>1. /\ pc[r] = "draining" /\ pc' = [pc EXCEPT ![r] = "done"]
        /\ lease' = [lease EXCEPT ![r] = Nobody]
        /\ UNCHANGED <<ask, emb, leases, embLoading, timer, turn>>
    BY DEF Unloaded, Answers, Goes, server, engine
  <1>2. \A l : Users(l)' = Users(l)
    BY <1>1, UsersStay DEF IInv, Types, Using
  <1>3. Types'
    BY <1>1 DEF IInv, Types, Places
  <1>4. Asking' /\ Holding'
    BY <1>1 DEF IInv, Types, Asking, Holding, Using
  <1>5. Fresh' /\ Swapping'
    BY <1>1, <1>2 DEF IInv, Types, Fresh, Swapping
  <1>6. Counted' /\ OpenIfCounted'
    BY <1>1, <1>2 DEF IInv, Counted, OpenIfCounted, Ours
  <1>7. Turns'
    BY <1>1, <1>2 DEF IInv, Types, Turns
  <1> QED
    BY <1>3, <1>4, <1>5, <1>6, <1>7 DEF IInv

\* A request stays with its lease, and may take its turn.
LEMMA MovesKeep ==
  ASSUME IInv, NEW r \in Requests, Check(r) \/ Take(r) \/ Pass(r)
  PROVE  IInv'
  <1>1. /\ pc[r] \in Using /\ pc' \in [Requests -> Places] /\ pc'[r] \in Using
        /\ \A u \in Requests \ {r} : pc'[u] = pc[u]
        /\ UNCHANGED <<ask, lease, emb, leases, embLoading, timer>>
        /\ \/ UNCHANGED turn /\ (pc'[r] = pc[r] \/ pc[r] = "leased")
           \/ turn' = [turn EXCEPT ![lease[r]] = r] /\ pc'[r] = "passes"
    BY DEF Check, Take, Pass, Goes, server, engine, IInv, Types, Places, Using
  <1>2. \A l : Users(l)' = Users(l)
    BY <1>1 DEF Users, Using
  <1>3. lease[r] \in Requests /\ r \in Users(lease[r])
    BY <1>1 DEF IInv, Holding, Users, Using
  <1>4. Types'
    BY <1>1, <1>3 DEF IInv, Types
  <1>5. Asking' /\ Holding'
    BY <1>1 DEF IInv, Types, Asking, Holding, Using
  <1>6. Fresh' /\ Swapping'
    BY <1>1, <1>2 DEF IInv, Types, Fresh, Swapping, Using
  <1>7. Counted' /\ OpenIfCounted'
    BY <1>1, <1>2 DEF IInv, Counted, OpenIfCounted, Ours
  <1>8. Turns'
    <2> SUFFICES ASSUME NEW l \in Requests, turn'[l] # Nobody
                 PROVE  turn'[l] \in Users(l) /\ pc'[turn'[l]] = "passes"
      BY <1>2 DEF Turns
    <2>1. CASE turn'[l] = turn[l]
      BY <2>1, <1>1 DEF IInv, Types, Turns, Users
    <2>2. CASE turn'[l] # turn[l]
      BY <2>2, <1>1, <1>3 DEF IInv, Types
    <2> QED
      BY <2>1, <2>2
  <1> QED
    BY <1>4, <1>5, <1>6, <1>7, <1>8 DEF IInv

\* A user goes: the count drops by the one it was.
LEMMA ReleaseKeeps ==
  ASSUME IInv, NEW r \in Requests, Return(r) \/ Finish(r)
  PROVE  IInv'
  <1>0. PICK l \in Requests : l = lease[r]
    BY DEF Return, Finish, IInv, Holding, Using
  <1> DEFINE noted == IF emb = l THEN [leases EXCEPT ![emb].keep = KeepAlive(ask[r].keep)] ELSE leases
  <1>1. /\ pc[r] \in {"leased", "passes"} /\ pc' = [pc EXCEPT ![r] = "done"]
        /\ lease' = [lease EXCEPT ![r] = Nobody]
        /\ UNCHANGED <<ask, embLoading>>
        /\ \/ UNCHANGED turn /\ pc[r] = "leased"
           \/ turn' = [turn EXCEPT ![l] = Nobody]
        /\ DropEmbedder(emb, noted, l)
    BY <1>0 DEF Return, Finish, Release, Answers, Goes, engine
  <1>2. r \in Users(l)
    BY <1>0, <1>1 DEF Users
  <1>3. /\ Users(l)' = Users(l) \ {r}
        /\ \A k \in Requests \ {l} : Users(k)' = Users(k)
    BY <1>1, <1>2 DEF Users, IInv, Types
  <1>4. /\ Cardinality(Users(l)') = Cardinality(Users(l)) - 1
        /\ Cardinality(Users(l)) \in Nat /\ Cardinality(Users(l)') \in Nat
    BY <1>2, <1>3, UsersFinite, OneGoes, FS_CardinalityType, FS_RemoveElement
  <1>5. /\ noted \in [Requests -> Leases]
        /\ \A k \in Requests : noted[k].refs = leases[k].refs /\ noted[k].open = leases[k].open
    <2>1. ask[r] \in Asks
      BY <1>1 DEF IInv, Asking
    <2>2. KeepAlive(ask[r].keep) \in Keeps
      BY <2>1 DEF Keeps
    <2> QED
      BY <2>2, <1>2 DEF IInv, Types, Leases
  <1> HIDE DEF noted
  <1>6. noted[l].refs = Cardinality(Users(l)) + Ours(l) /\ noted[l].refs > 0
    BY <1>2, <1>4, <1>5 DEF IInv, Counted, Ours
  <1>7. /\ emb' = emb /\ leases' = Dropped(noted, l) /\ timer' \in {emb, Nobody}
    BY <1>1, ArmIs DEF DropEmbedder, State
  <1>8. /\ leases' \in [Requests -> Leases]
        /\ leases'[l].refs = noted[l].refs - 1
        /\ leases'[l].open <=> noted[l].open /\ noted[l].refs > 1
        /\ \A k \in Requests \ {l} : leases'[k] = noted[k]
    BY <1>2, <1>5, <1>6, <1>7, DroppedIs
  <1>9. Types'
    BY <1>1, <1>2, <1>7, <1>8 DEF IInv, Types, Places
  <1>10. Asking' /\ Holding'
    BY <1>1 DEF IInv, Types, Asking, Holding, Using
  <1>11. Fresh' /\ Swapping'
    <2>1. \A k \in Requests : Users(k)' \subseteq Users(k)
      BY <1>3
    <2> QED
      BY <1>1, <1>7, <2>1 DEF IInv, Types, Fresh, Swapping
  <1>12. Counted' /\ OpenIfCounted'
    <2> SUFFICES ASSUME NEW k \in Requests
                 PROVE  /\ leases'[k].refs = Cardinality(Users(k)') + Ours(k)
                        /\ leases'[k].open <=> leases'[k].refs > 0
      BY <1>7 DEF Counted, OpenIfCounted, Ours
    <2>1. CASE k = l
      <3>1. Ours(l) \in 0..1
        BY DEF Ours
      <3>2. noted[l].open
        BY <1>5, <1>6 DEF IInv, OpenIfCounted
      <3>3. leases'[l].refs = Cardinality(Users(l)') + Ours(l)
        BY <3>1, <1>4, <1>6, <1>8
      <3>4. leases'[l].open <=> noted[l].refs > 1
        BY <3>2, <1>8
      <3>5. noted[l].refs > 1 <=> leases'[l].refs > 0
        BY <3>1, <1>4, <1>6, <1>8
      <3> QED
        BY <2>1, <3>3, <3>4, <3>5
    <2>2. CASE k # l
      <3>1. /\ leases'[k].refs = leases[k].refs /\ leases'[k].open = leases[k].open
            /\ Users(k)' = Users(k)
        BY <2>2, <1>3, <1>5, <1>8
      <3> QED
        BY <3>1 DEF IInv, Counted, OpenIfCounted
    <2> QED
      BY <2>1, <2>2
  <1>13. Turns'
    <2> SUFFICES ASSUME NEW k \in Requests, turn'[k] # Nobody
                 PROVE  turn'[k] \in Users(k)' /\ pc'[turn'[k]] = "passes"
      BY DEF Turns
    <2>1. turn'[k] = turn[k] /\ (k = l => pc[r] = "leased")
      BY <1>1, <1>2 DEF IInv, Types
    <2>2. turn[k] \in Users(k) /\ pc[turn[k]] = "passes"
      BY <2>1 DEF IInv, Turns
    <2>3. turn[k] # r
      BY <1>0, <2>1, <2>2 DEF Users
    <2> QED
      BY <2>1, <2>2, <2>3, <1>1, <1>3 DEF IInv, Types, Users
  <1> QED
    BY <1>9, <1>10, <1>11, <1>12, <1>13 DEF IInv

LEMMA NextKeeps == IInv /\ [Next]_vars => IInv'
  <1> SUFFICES ASSUME IInv, [Next]_vars PROVE IInv'
    OBVIOUS
  <1>1. ASSUME NEW r \in Requests, Arrive(r) PROVE IInv'
    BY <1>1, ArriveKeeps
  <1>2. ASSUME NEW r \in Requests, Step(r) PROVE IInv'
    BY <1>2, ShareKeeps, MakeRoomKeeps, LoadKeeps, UnloadKeeps, UnloadedKeeps, MovesKeep, ReleaseKeeps
       DEF Step
  <1>3. ASSUME NEW r \in Requests, Callback(r) PROVE IInv'
    BY <1>3, CallbackKeeps
  <1>4. CASE UNCHANGED <<ask, pc, lease, emb, leases, embLoading, turn>> /\ timer' \in {timer, Nobody}
    <2>1. \A l : Users(l)' = Users(l)
      BY <1>4, SameUsers
    <2> QED
      BY <1>4, <2>1 DEF IInv, Types, Asking, Holding, Fresh, Swapping, Counted, OpenIfCounted, Ours, Turns
  <1> QED
    BY <1>1, <1>2, <1>3, <1>4 DEF Next, Fire, engine, vars

LEMMA ImpliesOpen == IInv => OpenWhileHeld
  <1> SUFFICES ASSUME IInv PROVE OpenWhileHeld
    OBVIOUS
  <1>1. TypeOK
    <2>1. ASSUME NEW l \in Requests PROVE leases[l].refs \in 0..(Cardinality(Requests) + 1)
      BY <2>1, UsersFinite, EmbeddingAssumption, FS_CardinalityType DEF IInv, Counted, Ours
    <2> QED
      BY <2>1 DEF IInv, Types, TypeOK, Places, Using
  <1> QED
    BY <1>1 DEF IInv, Counted, OpenIfCounted, Turns, Ours, OpenWhileHeld

\* An embedding model is open exactly while the server or a request has it, its
\* count is the number of those, and who has its context is using it, whatever
\* the requests, the models, and the callbacks of timers that come late
\* (embed.go's acquireEmbedder, dropEmbedderLocked, armEmbedIdleLocked).
THEOREM HeldWhileUsed == Spec => []OpenWhileHeld
  <1>1. IInv /\ [Next]_vars => IInv'
    BY NextKeeps
  <1> QED
    BY <1>1, InitHolds, ImpliesOpen, PTL DEF Spec

-----------------------------------------------------------------------------
(* What a request is answered.                                             *)

Texts == Seq(Tokens)
Readable(a) ==
    a.inputs # <<>> /\ \A i \in 1..Len(a.inputs) : ~Unreadable(a.inputs[i], a.truncate)

\* A text as it is read: whole, or cut to the limit.
ReadOf(toks, of) ==
    /\ of \in Texts /\ Len(of) = (IF Len(toks) > Limit THEN Limit ELSE Len(toks))
    /\ IsPrefix(Front(of), toks) /\ (Last(of) = Last(toks) \/ IsPrefix(of, toks))

Matches(r) ==
    reply[r].status = 200 /\ ask[r].api # "generate" =>
        /\ Len(reply[r].vecs) = Len(ask[r].inputs)
        /\ \A i \in 1..Len(reply[r].vecs) :
              LET toks == ask[r].inputs[i] of == reply[r].vecs[i].of IN
              /\ Len(of) = (IF Len(toks) > Limit THEN Limit ELSE Len(toks))
              /\ IsPrefix(Front(of), toks) /\ (Last(of) = Last(toks) \/ IsPrefix(of, toks))
        /\ reply[r].tokens = TokensOf([i \in 1..Len(reply[r].vecs) |-> reply[r].vecs[i].of])

\* How far its handler is with a request.
Made(d, texts) == d \in Seq(Texts) /\ Len(d) <= Len(texts) /\ \A i \in 1..Len(d) : d[i] = texts[i]
Underway(r) ==
    /\ pc[r] \in {"unload", "draining"} => ask[r].api = "generate"
    /\ pc[r] \in {"embed", "passes"} => ask[r].api # "generate" /\ Readable(ask[r])
    /\ pc[r] \notin {"passes", "done"} => done[r] = <<>>
    /\ pc[r] = "passes" => Made(done[r], Read(ask[r]))
    /\ pc[r] # "done" => reply[r].status = 0
Named == \A r \in Requests : pc[r] \in Using => leases[lease[r]].path = ask[r].model
Results ==
    /\ reply = [r \in Requests |-> reply[r]] /\ done = [r \in Requests |-> done[r]]
    /\ memory = [l \in Requests |-> Empty]

AInv == Named /\ Results /\ \A r \in Requests : Underway(r) /\ Matches(r)

\* Nothing read is nothing counted.
LEMMA NoTokens == TokensOf(<<>>) = 0
  <1> DEFINE step(f) == [s \in SUBSET {} |->
                 IF s = {} THEN 0 ELSE LET x == Max(s) IN f[s \ {x}] + Len(<<>>[x])]
             it == CHOOSE f : f = step(f)
  <1>1. TokensOf(<<>>) = it[{}]
    <2>1. DOMAIN <<>> = {}
      OBVIOUS
    <2> QED
      BY <2>1 DEF TokensOf, FoldLeft, MapThenFoldSet
  <1>2. [s \in SUBSET {} |-> 0] = step([s \in SUBSET {} |-> 0])
    OBVIOUS
  <1>3. it = step(it)
    <2> HIDE DEF step
    <2> QED
      BY <1>2
  <1>4. it[{}] = 0
    <2> HIDE DEF it
    <2> QED
      BY <1>3
  <1> QED
    BY <1>1, <1>4

LEMMA PrefixOf ==
  ASSUME NEW t \in Texts, NEW n \in 0..Len(t)
  PROVE  /\ SubSeq(t, 1, n) \in Texts /\ Len(SubSeq(t, 1, n)) = n
         /\ \A i \in 1..n : SubSeq(t, 1, n)[i] = t[i]
         /\ IsPrefix(SubSeq(t, 1, n), t)
  <1>1. /\ SubSeq(t, 1, n) \in Texts /\ Len(SubSeq(t, 1, n)) = n
        /\ \A i \in 1..n : SubSeq(t, 1, n)[i] = t[i]
    BY SubSeqProperties DEF Texts
  <1>2. SubSeq(SubSeq(t, 1, n), 1, n) = SubSeq(t, 1, n)
    BY <1>1, SubSeqFull DEF Texts
  <1> QED
    BY <1>1, <1>2, LenProperties DEF Texts, IsPrefix

\* A text that is cut is one that was asked for, from its first token on; what
\* is left of it is as long as the limit and ends as it did, or where it was cut.
LEMMA CutReads ==
  ASSUME NEW t \in Texts, Len(t) > Limit
  PROVE  ReadOf(t, Cut(t, Limit))
  <1>1. Limit \in Nat \ {0} /\ Len(t) \in Nat
    BY EmbeddingAssumption, LenProperties DEF Texts
  <1> DEFINE a == SubSeq(t, 1, Limit) b == SubSeq(t, 1, Limit - 1)
  <1>2. a \in Texts /\ Len(a) = Limit /\ IsPrefix(a, t) /\ \A i \in 1..Limit : a[i] = t[i]
    BY <1>1, PrefixOf
  <1>3. b \in Texts /\ Len(b) = Limit - 1 /\ IsPrefix(b, t) /\ \A i \in 1..(Limit - 1) : b[i] = t[i]
    BY <1>1, PrefixOf
  <1>4. t[Len(t)] \in Tokens
    BY <1>1, ElementOfSeq DEF Texts
  <1>5. SubSeq(a, 1, Limit - 1) = b
    <2> HIDE DEF a, b
    <2>1. LET c == SubSeq(a, 1, Limit - 1) IN
          c \in Texts /\ Len(c) = Limit - 1 /\ \A i \in 1..(Limit - 1) : c[i] = a[i]
      BY <1>1, <1>2, PrefixOf
    <2>2. \A i \in 1..(Limit - 1) : SubSeq(a, 1, Limit - 1)[i] = b[i]
      BY <1>1, <1>2, <1>3, <2>1
    <2> QED
      BY <1>3, <2>1, <2>2, SeqEqual DEF Texts
  <1>6. CASE t[Len(t)] \notin Closing \/ Limit < 2
    <2>1. Cut(t, Limit) = a
      BY <1>6 DEF Cut
    <2> QED
      BY <1>1, <1>2, <1>3, <1>5, <2>1 DEF ReadOf, Front
  <1>7. CASE ~(t[Len(t)] \notin Closing \/ Limit < 2)
    <2> DEFINE c == Append(b, t[Len(t)])
    <2>1. Cut(t, Limit) = c
      BY <1>7 DEF Cut
    <2> HIDE DEF a, b
    <2>2. c \in Texts /\ Len(c) = Limit /\ c[Limit] = t[Len(t)] /\ \A i \in 1..(Limit - 1) : c[i] = b[i]
      BY <1>1, <1>3, <1>4, AppendProperties DEF Texts
    <2> HIDE DEF c
    <2>3. SubSeq(c, 1, Limit - 1) = b
      <3>1. LET e == SubSeq(c, 1, Limit - 1) IN
            e \in Texts /\ Len(e) = Limit - 1 /\ \A i \in 1..(Limit - 1) : e[i] = c[i]
        BY <1>1, <2>2, PrefixOf
      <3>2. \A i \in 1..(Limit - 1) : SubSeq(c, 1, Limit - 1)[i] = b[i]
        BY <1>1, <2>2, <3>1
      <3> QED
        BY <1>3, <3>1, <3>2, SeqEqual DEF Texts
    <2> QED
      BY <1>1, <1>3, <2>1, <2>2, <2>3 DEF ReadOf, Front, Last
  <1> QED
    BY <1>6, <1>7

LEMMA WholeReads ==
  ASSUME NEW t \in Texts, t # <<>>, Len(t) <= Limit
  PROVE  ReadOf(t, t)
  <1>1. Len(t) \in Nat \ {0} /\ Limit \in Nat
    BY LenProperties, EmptySeq, EmbeddingAssumption DEF Texts
  <1>2. IsPrefix(SubSeq(t, 1, Len(t) - 1), t)
    BY <1>1, PrefixOf
  <1> QED
    BY <1>1, <1>2 DEF ReadOf, Front, Last

\* What is read of the texts of a request, if each can be read.
LEMMA ReadIs ==
  ASSUME NEW a \in Asks
  PROVE  /\ Read(a) \in Seq(Texts) /\ Len(Read(a)) = Len(a.inputs) /\ Len(a.inputs) \in Nat
         /\ Readable(a) => \A i \in 1..Len(a.inputs) : ReadOf(a.inputs[i], Read(a)[i])
  <1>1. a.inputs \in Seq(Texts) /\ Len(a.inputs) \in Nat
    BY AsksAssumption, LenProperties DEF Texts
  <1>2. \A i \in 1..Len(a.inputs) : a.inputs[i] \in Texts
    BY <1>1, ElementOfSeq
  <1>3. \A i \in 1..Len(a.inputs) :
           Read(a)[i] = IF Len(a.inputs[i]) > Limit THEN Cut(a.inputs[i], Limit) ELSE a.inputs[i]
    BY DEF Read
  <1>4. \A i \in 1..Len(a.inputs) : Read(a)[i] \in Texts
    BY <1>2, <1>3, CutReads DEF ReadOf
  <1>5. Read(a) \in Seq(Texts) /\ Len(Read(a)) = Len(a.inputs)
    <2>1. Read(a) = [i \in 1..Len(a.inputs) |-> Read(a)[i]]
      BY DEF Read
    <2> QED
      BY <1>1, <1>4, <2>1, IsASeq, LenProperties
  <1>6. ASSUME Readable(a), NEW i \in 1..Len(a.inputs)
        PROVE  ReadOf(a.inputs[i], Read(a)[i])
    <2>1. a.inputs[i] \in Texts /\ a.inputs[i] # <<>> /\ Len(a.inputs[i]) \in Nat /\ Limit \in Nat
      BY <1>2, <1>6, LenProperties, EmbeddingAssumption DEF Readable, Unreadable, Texts
    <2>2. CASE Len(a.inputs[i]) > Limit
      BY <1>3, <2>1, <2>2, CutReads
    <2>3. CASE Len(a.inputs[i]) <= Limit
      BY <1>3, <2>1, <2>3, WholeReads
    <2> QED
      BY <2>1, <2>2, <2>3
  <1> QED
    BY <1>1, <1>5, <1>6

\* The texts of a pass: those that follow the ones made, one at least.
LEMMA PassIs ==
  ASSUME NEW texts \in Seq(Texts), NEW start \in 1..Len(texts)
  PROVE  LET pass == PassFrom(texts, start) IN
         /\ pass \in Seq(Texts) /\ Len(pass) \in 1..EmbedSeqs
         /\ start + Len(pass) - 1 <= Len(texts)
         /\ \A i \in 1..Len(pass) : pass[i] = texts[start + i - 1]
  <1> DEFINE fits == {e \in start..Len(texts) :
                         /\ e - start < EmbedSeqs
                         /\ e = start \/ TokensOf(SubSeq(texts, start, e)) <= Limit}
             n == Cardinality(fits)
  <1>1. Len(texts) \in Nat /\ start \in Nat \ {0} /\ EmbedSeqs \in Nat \ {0}
    BY LenProperties, EmbeddingAssumption
  <1>2. IsFiniteSet(start..Len(texts)) /\ Cardinality(start..Len(texts)) = Len(texts) - start + 1
    BY <1>1, FS_Interval
  <1>3. IsFiniteSet(start..(start + EmbedSeqs - 1)) /\ Cardinality(start..(start + EmbedSeqs - 1)) = EmbedSeqs
    <2>1. start + EmbedSeqs - 1 \in Int /\ start \in Int /\ ~(start > start + EmbedSeqs - 1)
          /\ (start + EmbedSeqs - 1) - start + 1 = EmbedSeqs
      BY <1>1
    <2> QED
      BY <2>1, FS_Interval
  <1>4. fits \subseteq start..Len(texts) /\ fits \subseteq start..(start + EmbedSeqs - 1) /\ start \in fits
    BY <1>1
  <1>5. PassFrom(texts, start) = SubSeq(texts, start, start + n - 1)
    BY DEF PassFrom
  <1> HIDE DEF fits
  <1>6. n \in Nat /\ n # 0 /\ n <= Len(texts) - start + 1 /\ n <= EmbedSeqs
    <2>1. IsFiniteSet(fits) /\ n <= Cardinality(start..Len(texts))
      BY <1>2, <1>4, FS_Subset
    <2>2. n <= Cardinality(start..(start + EmbedSeqs - 1))
      BY <1>3, <1>4, FS_Subset
    <2>3. n \in Nat /\ n # 0
      BY <1>4, <2>1, FS_CardinalityType, FS_EmptySet
    <2> HIDE DEF n
    <2> QED
      BY <1>2, <1>3, <2>1, <2>2, <2>3
  <1> HIDE DEF n
  <1>7. start + n - 1 \in start..Len(texts)
    BY <1>1, <1>6
  <1>8. LET pass == SubSeq(texts, start, start + n - 1) IN
        /\ pass \in Seq(Texts) /\ Len(pass) = n
        /\ \A i \in 1..n : pass[i] = texts[start + i - 1]
    <2> DEFINE last == start + n - 1
    <2>1. last \in Int /\ start \in Int /\ start <= last /\ last - start + 1 = n
      BY <1>1, <1>6
    <2>2. \A i \in start..last : texts[i] \in Texts
      BY <1>1, <1>7, ElementOfSeq
    <2> HIDE DEF last
    <2>3. LET pass == SubSeq(texts, start, last) IN
          /\ pass \in Seq(Texts) /\ Len(pass) = last - start + 1
          /\ \A i \in 1..(last - start + 1) : pass[i] = texts[start + i - 1]
      BY <2>1, <2>2, SubSeqProperties
    <2> QED
      BY <2>1, <2>3 DEF last
  <1> QED
    BY <1>1, <1>5, <1>6, <1>7, <1>8

\* A pass in a context cleared before it goes on with what the request asked.
LEMMA PassGoesOn ==
  ASSUME NEW texts \in Seq(Texts), NEW d, Made(d, texts), Len(d) < Len(texts)
  PROVE  LET pass == PassFrom(texts, Len(d) + 1)
             now == Decoded(Empty, pass)
         IN  Made(d \o [s \in 1..Len(pass) |-> now[s]], texts)
  <1> DEFINE pass == PassFrom(texts, Len(d) + 1)
             now == Decoded(Empty, pass)
             more == [s \in 1..Len(pass) |-> now[s]]
  <1>1. d \in Seq(Texts) /\ Len(d) \in Nat /\ Len(texts) \in Nat
    BY LenProperties DEF Made
  <1>2. /\ pass \in Seq(Texts) /\ Len(pass) \in 1..EmbedSeqs
        /\ Len(d) + 1 + Len(pass) - 1 <= Len(texts)
        /\ \A i \in 1..Len(pass) : pass[i] = texts[Len(d) + 1 + i - 1]
    BY <1>1, PassIs
  <1> HIDE DEF pass
  <1>3. \A s \in 1..Len(pass) : pass[s] \in Texts /\ now[s] = pass[s]
    <2> SUFFICES ASSUME NEW s \in 1..Len(pass) PROVE pass[s] \in Texts /\ now[s] = pass[s]
      OBVIOUS
    <2>1. pass[s] \in Texts
      BY <1>2, ElementOfSeq
    <2>2. s \in 1..EmbedSeqs
      BY <1>2, EmbeddingAssumption
    <2>3. now[s] = <<>> \o pass[s]
      BY <2>2 DEF Decoded, Empty
    <2> QED
      BY <2>1, <2>3, ConcatEmptySeq DEF Texts
  <1> HIDE DEF now
  <1>4. more \in Seq(Texts) /\ Len(more) = Len(pass) /\ \A s \in 1..Len(pass) : more[s] = pass[s]
    BY <1>2, <1>3, IsASeq, LenProperties
  <1> HIDE DEF more
  <1>5. /\ d \o more \in Seq(Texts) /\ Len(d \o more) = Len(d) + Len(pass)
        /\ \A i \in 1..(Len(d) + Len(pass)) :
              (d \o more)[i] = IF i <= Len(d) THEN d[i] ELSE more[i - Len(d)]
    <2>1. /\ d \o more \in Seq(Texts) /\ Len(d \o more) = Len(d) + Len(more)
          /\ \A i \in 1..(Len(d) + Len(more)) :
                (d \o more)[i] = IF i <= Len(d) THEN d[i] ELSE more[i - Len(d)]
      BY <1>1, <1>4, ConcatProperties
    <2> QED
      BY <1>4, <2>1
  <1>6. ASSUME NEW i \in 1..(Len(d) + Len(pass)) PROVE (d \o more)[i] = texts[i]
    <2>1. CASE i <= Len(d)
      BY <1>1, <1>5, <2>1 DEF Made
    <2>2. CASE i > Len(d)
      <3>1. i - Len(d) \in 1..Len(pass) /\ Len(d) + 1 + (i - Len(d)) - 1 = i
        BY <1>1, <1>2, <2>2
      <3> QED
        BY SMTT(30), <1>1, <1>2, <1>4, <1>5, <2>2, <3>1
    <2>3. i <= Len(d) \/ i > Len(d)
      BY <1>1, <1>2
    <2> QED
      BY <2>1, <2>2, <2>3
  <1>7. Made(d \o more, texts)
    BY <1>1, <1>2, <1>5, <1>6 DEF Made
  <1> QED
    BY <1>7 DEF more, now, pass

\* Who takes no part in a step is where he was, and so is the model he uses.
LEMMA OthersStay ==
  ASSUME NEW u \in Requests, Underway(u), Matches(u),
         ask'[u] = ask[u], pc'[u] = pc[u], reply'[u] = reply[u], done'[u] = done[u]
  PROVE  Underway(u)' /\ Matches(u)'
  BY DEF Underway, Matches, Readable, Read, Unreadable, Cut

LEMMA MatchStays ==
  ASSUME NEW u \in Requests, Matches(u), ask'[u] = ask[u], reply'[u] = reply[u]
  PROVE  Matches(u)'
  BY DEF Matches

LEMMA NamesStay ==
  ASSUME Named, NEW r \in Requests,
         \A u \in Requests \ {r} : ask'[u] = ask[u] /\ pc'[u] = pc[u] /\ lease'[u] = lease[u],
         \A u \in Requests \ {r} : pc[u] \in Using => leases'[lease[u]].path = leases[lease[u]].path,
         pc'[r] \in Using => leases'[lease'[r]].path = ask'[r].model
  PROVE  Named'
  BY DEF Named

\* Letting go of a lease changes no model's name.
LEMMA DropNames ==
  ASSUME NEW ls \in [Requests -> Leases], NEW l \in Requests
  PROVE  \A k \in Requests : Dropped(ls, l)[k].path = ls[k].path
  BY DEF Dropped, Leases
LEMMA RetireNames ==
  ASSUME Types, emb # Nobody, RetireEmbedder
  PROVE  \A k \in Requests : leases'[k].path = leases[k].path
  BY DropNames DEF Types, RetireEmbedder, DropEmbedder, State

LEMMA AsksStart == Init => AInv
  BY DEF Init, AInv, Named, Results, Underway, Matches, NoReply, Using

LEMMA AskedIs ==
  ASSUME IInv, NEW r \in Requests, pc[r] # "idle"
  PROVE  ask[r] \in Asks
  BY DEF IInv, Asking

\* A step of one request that leaves the leases in use their names, and what
\* was made and answered to the others.
LEMMA OneSteps ==
  ASSUME AInv, NEW r \in Requests,
         \A u \in Requests \ {r} : /\ ask'[u] = ask[u] /\ pc'[u] = pc[u] /\ lease'[u] = lease[u]
                                   /\ reply'[u] = reply[u] /\ done'[u] = done[u],
         \A u \in Requests \ {r} : pc[u] \in Using => leases'[lease[u]].path = leases[lease[u]].path,
         pc'[r] \in Using => leases'[lease'[r]].path = ask'[r].model,
         Results', Underway(r)', Matches(r)'
  PROVE  AInv'
  BY OthersStay, NamesStay DEF AInv

LEMMA ArriveAnswers ==
  ASSUME IInv, AInv, NEW r \in Requests, Arrive(r)
  PROVE  AInv'
  <1>1. PICK a \in Asks : ask' = [ask EXCEPT ![r] = a] /\ (Embeds(r, a) \/ Generates(r, a))
    BY DEF Arrive
  <1>2. pc[r] = "idle" /\ UNCHANGED <<lease, done, leases, memory>>
    BY DEF Arrive, server, engine
  <1>3. PICK where \in {"acquire", "unload", "done"} :
          /\ pc' = [pc EXCEPT ![r] = where]
          /\ where = "unload" => a.api = "generate"
          /\ \/ reply' = reply /\ where # "done"
             \/ \E st \in {400, 404, 501} : where = "done" /\
                    reply' = [reply EXCEPT ![r] = [status |-> st, vecs |-> <<>>, tokens |-> 0]]
    BY <1>1 DEF Embeds, Generates, Serves, Fails, Answers, Goes
  <1>4. reply[r].status = 0 /\ done[r] = <<>>
    BY <1>2 DEF AInv, Underway
  <1>5. Results'
    BY <1>2, <1>3 DEF AInv, Results
  <1>6. pc'[r] = where /\ ask'[r] = a
    BY <1>1, <1>3 DEF IInv, Types
  <1>7. reply'[r].status # 200 /\ (where # "done" => reply'[r].status = 0)
    BY <1>3, <1>4 DEF AInv, Results
  <1>8. Underway(r)' /\ Matches(r)'
    BY <1>2, <1>3, <1>4, <1>6, <1>7 DEF Underway, Matches
  <1>9. \A u \in Requests \ {r} : /\ ask'[u] = ask[u] /\ pc'[u] = pc[u] /\ lease'[u] = lease[u]
                                  /\ reply'[u] = reply[u] /\ done'[u] = done[u]
    <2>1. \A u \in Requests \ {r} : reply'[u] = reply[u]
      BY <1>3 DEF AInv, Results
    <2> QED
      BY <1>1, <1>2, <1>3, <2>1 DEF IInv, Types
  <1> QED
    BY <1>2, <1>3, <1>5, <1>6, <1>8, <1>9, OneSteps DEF Using

\* Of a request that comes to use a lease, and of one that lets go of all.
LEMMA ShareAnswers ==
  ASSUME IInv, AInv, NEW r \in Requests, Share(r)
  PROVE  AInv'
  <1>1. /\ emb \in Requests /\ leases[emb].path = ask[r].model /\ pc[r] = "acquire"
        /\ leases' = [leases EXCEPT ![emb].refs = @ + 1]
        /\ lease' = [lease EXCEPT ![r] = emb] /\ pc' = [pc EXCEPT ![r] = "leased"]
        /\ UNCHANGED <<ask, reply, done, memory>>
    BY DEF Share, engine, Goes, IInv, Types
  <1>2. \A k \in Requests : leases'[k].path = leases[k].path
    BY <1>1 DEF IInv, Types, Leases
  <1>3. \A u \in Requests : pc[u] \in Using => lease[u] \in Requests
    BY DEF IInv, Holding
  <1>4. Results' /\ Underway(r)' /\ Matches(r)'
    <2>1. Results'
      BY <1>1 DEF AInv, Results
    <2>2. Underway(r)'
      BY <1>1 DEF AInv, Underway, IInv, Types
    <2>3. Matches(r)'
      BY <1>1 DEF AInv, Matches
    <2> QED
      BY <2>1, <2>2, <2>3
  <1>5. leases'[lease'[r]].path = ask'[r].model
    BY <1>1, <1>2 DEF IInv, Types
  <1>6. \A u \in Requests \ {r} : pc'[u] = pc[u] /\ lease'[u] = lease[u]
    BY <1>1
  <1> QED
    BY <1>1, <1>2, <1>3, <1>4, <1>5, <1>6, OneSteps

LEMMA RoomAnswers ==
  ASSUME IInv, AInv, NEW r \in Requests, MakeRoom(r) \/ Unload(r)
  PROVE  AInv'
  <1>1. /\ pc[r] \in {"acquire", "unload"} /\ (pc[r] = "unload" => ask[r].api = "generate")
        /\ UNCHANGED <<ask, done, memory>>
        /\ (RetireEmbedder /\ emb # Nobody) \/ leases' = leases
        /\ \A u \in Requests \ {r} : lease'[u] = lease[u]
    <2>1. pc[r] = "unload" => ask[r].api = "generate"
      BY DEF AInv, Underway
    <2>2. CASE MakeRoom(r)
      BY <2>1, <2>2 DEF MakeRoom, engine, State, IInv, Types
    <2>3. CASE Unload(r)
      BY <2>1, <2>3 DEF Unload, engine, IInv, Types
    <2> QED
      BY <2>2, <2>3
  <1>2. \/ pc' = [pc EXCEPT ![r] = "retiring"] /\ reply' = reply /\ pc[r] = "acquire"
        \/ pc' = [pc EXCEPT ![r] = "draining"] /\ reply' = reply /\ pc[r] = "unload"
        \/ /\ pc' = [pc EXCEPT ![r] = "done"] /\ pc[r] = "unload"
           /\ reply' = [reply EXCEPT ![r] = [status |-> 200, vecs |-> <<>>, tokens |-> 0]]
    BY DEF MakeRoom, Unload, Answers, Goes
  <1>3. \A k \in Requests : leases'[k].path = leases[k].path
    BY <1>1, RetireNames DEF IInv
  <1>4. \A u \in Requests : pc[u] \in Using => lease[u] \in Requests
    BY DEF IInv, Holding
  <1>5. Results'
    BY <1>1, <1>2 DEF AInv, Results
  <1>6. pc'[r] \in {"retiring", "draining", "done"} /\ (pc'[r] = "draining" => pc[r] = "unload")
    BY <1>2 DEF IInv, Types
  <1>7. /\ \A u \in Requests \ {r} : pc'[u] = pc[u] /\ reply'[u] = reply[u]
        /\ pc'[r] # "done" => reply' = reply
        /\ pc'[r] = "done" => pc[r] = "unload"
    BY <1>2 DEF IInv, Types, AInv, Results
  <1>8. Underway(r)' /\ Matches(r)'
    <2>1. Underway(r)'
      BY <1>1, <1>6, <1>7 DEF AInv, Underway
    <2>2. Matches(r)'
      BY <1>1, <1>7 DEF AInv, Matches, Underway
    <2> QED
      BY <2>1, <2>2
  <1> QED
    BY <1>1, <1>3, <1>4, <1>5, <1>6, <1>7, <1>8, OneSteps DEF Using

LEMMA LoadAnswers ==
  ASSUME IInv, AInv, NEW r \in Requests, Load(r) \/ Unloaded(r)
  PROVE  AInv'
  <1>1. /\ pc[r] \in {"retiring", "draining"} /\ (pc[r] = "draining" => ask[r].api = "generate")
        /\ UNCHANGED <<ask, done, memory>>
        /\ \A u \in Requests \ {r} : lease'[u] = lease[u]
    <2>1. pc[r] = "draining" => ask[r].api = "generate"
      BY DEF AInv, Underway
    <2> QED
      BY <2>1 DEF Load, Unloaded, engine, IInv, Types
  <1>2. \/ /\ pc' = [pc EXCEPT ![r] = "leased"] /\ reply' = reply /\ lease' = [lease EXCEPT ![r] = r]
           /\ leases' = [leases EXCEPT ![r] = [path |-> ask[r].model, refs |-> 2, keep |-> "default", open |-> TRUE]]
           /\ pc[r] = "retiring"
        \/ /\ pc' = [pc EXCEPT ![r] = "done"] /\ leases' = leases
           /\ \E st \in {200, 400, 500} :
                  /\ reply' = [reply EXCEPT ![r] = [status |-> st, vecs |-> <<>>, tokens |-> 0]]
                  /\ st = 200 => pc[r] = "draining"
    BY DEF Load, Unloaded, Answers, Fails, Goes, server
  <1>3. \A u \in Requests : pc[u] \in Using => lease[u] \in Requests /\ (pc[r] = "retiring" => lease[u] # r)
    BY DEF IInv, Holding, Fresh, Users, Using
  <1>4. \A u \in Requests \ {r} : pc[u] \in Using => leases'[lease[u]].path = leases[lease[u]].path
    BY <1>2, <1>3 DEF IInv, Types
  <1>5. Results'
    BY <1>1, <1>2 DEF AInv, Results
  <1>6. /\ pc'[r] \in {"leased", "done"}
        /\ \A u \in Requests \ {r} : pc'[u] = pc[u] /\ reply'[u] = reply[u]
        /\ pc'[r] = "leased" => reply' = reply /\ leases'[lease'[r]].path = ask'[r].model
        /\ pc'[r] = "done" => (reply'[r].status = 200 => pc[r] = "draining")
    <2>1. CASE pc' = [pc EXCEPT ![r] = "leased"]
      BY <1>1, <1>2, <2>1 DEF IInv, Types
    <2>2. CASE pc' = [pc EXCEPT ![r] = "done"]
      <3>1. PICK st \in {200, 400, 500} :
                  /\ reply' = [reply EXCEPT ![r] = [status |-> st, vecs |-> <<>>, tokens |-> 0]]
                  /\ st = 200 => pc[r] = "draining"
        BY <1>2, <2>2 DEF IInv, Types
      <3> QED
        BY <2>2, <3>1 DEF IInv, Types, AInv, Results
    <2> QED
      BY <1>2, <2>1, <2>2
  <1>7. Underway(r)' /\ Matches(r)'
    <2>1. Underway(r)'
      BY <1>1, <1>6 DEF AInv, Underway
    <2>2. ASSUME pc'[r] = "leased" PROVE Matches(r)'
      <3>1. ask'[r] = ask[r] /\ reply'[r] = reply[r] /\ Matches(r)
        BY <1>1, <1>6, <2>2 DEF AInv
      <3> QED
        BY <3>1, MatchStays
    <2>3. ASSUME pc'[r] = "done" PROVE Matches(r)'
      <3>1. reply'[r].status = 200 => ask'[r].api = "generate"
        BY <1>1, <1>6, <2>3
      <3> QED
        BY <3>1 DEF Matches
    <2> QED
      BY <1>6, <2>1, <2>2, <2>3
  <1> QED
    BY <1>1, <1>4, <1>5, <1>6, <1>7, OneSteps DEF Using

LEMMA MovesAnswer ==
  ASSUME IInv, AInv, NEW r \in Requests, Check(r) \/ Take(r) \/ Pass(r)
  PROVE  AInv'
  <1>1. /\ pc[r] \in {"leased", "embed", "passes"} /\ UNCHANGED <<ask, lease, reply, leases>>
        /\ \A u \in Requests \ {r} : pc'[u] = pc[u] /\ done'[u] = done[u]
        /\ pc'[r] \in Using /\ pc[r] \in Using
    BY DEF Check, Take, Pass, Goes, server, IInv, Types, Using, AInv, Results
  <1>2. ask[r] \in Asks
    BY <1>1, AskedIs
  <1>3. lease[r] \in Requests /\ leases[lease[r]].path = ask[r].model
    BY <1>1 DEF IInv, Holding, AInv, Named
  <1>4. Results' /\ Underway(r)'
    <2>1. CASE Check(r)
      <3>1. /\ done[r] = <<>> /\ done' = done /\ memory' = memory /\ pc' = [pc EXCEPT ![r] = "embed"]
            /\ ask[r].api # "generate" /\ Readable(ask[r]) /\ reply[r].status = 0
        BY <2>1 DEF Check, Goes, engine, Readable, AInv, Underway
      <3> QED
        BY <1>1, <3>1 DEF Results, Underway, AInv, IInv, Types, Readable, Unreadable
    <2>2. CASE Take(r)
      <3>1. /\ done[r] = <<>> /\ done' = done /\ memory' = memory /\ pc' = [pc EXCEPT ![r] = "passes"]
            /\ ask[r].api # "generate" /\ Readable(ask[r]) /\ reply[r].status = 0
        BY <2>2 DEF Take, Goes, AInv, Underway
      <3>2. Made(<<>>, Read(ask[r]))
        BY <1>2, ReadIs, EmptySeq DEF Made
      <3>3. Results'
        BY <1>1, <3>1 DEF Results, AInv, IInv, Types
      <3>4. pc'[r] = "passes" /\ done'[r] = <<>> /\ reply'[r].status = 0
        BY <1>1, <3>1 DEF IInv, Types
      <3>5. Underway(r)'
        BY <1>1, <3>1, <3>2, <3>4 DEF Underway, Readable
      <3> QED
        BY <3>3, <3>5
    <2>3. CASE Pass(r)
      <3> DEFINE l == lease[r]
                 pass == PassFrom(Read(ask[r]), Len(done[r]) + 1)
                 now == Decoded(Empty, pass)
                 made == done[r] \o [s \in 1..Len(pass) |-> now[s]]
      <3>1. /\ pc' = pc /\ pc[r] = "passes" /\ Len(done[r]) < Len(ask[r].inputs)
            /\ memory[l] = Empty
        BY <1>3, <2>3 DEF Pass, AInv, Results
      <3>2. done' = [done EXCEPT ![r] = made] /\ memory' = [memory EXCEPT ![l] = Empty]
        BY <2>3, <3>1 DEF Pass, ClearMemory
      <3>3. Made(done[r], Read(ask[r])) /\ ask[r].api # "generate" /\ Readable(ask[r]) /\ reply[r].status = 0
        BY <3>1 DEF AInv, Underway
      <3>4. Made(made, Read(ask[r]))
        BY <1>2, <3>1, <3>3, ReadIs, PassGoesOn
      <3> HIDE DEF made
      <3>5. Results'
        BY <1>1, <3>2 DEF AInv, Results
      <3>6. done'[r] = made
        BY <3>2 DEF AInv, Results
      <3> QED
        BY <1>1, <3>1, <3>3, <3>4, <3>5, <3>6 DEF Underway
    <2> QED
      BY <2>1, <2>2, <2>3
  <1>5. Matches(r)'
    BY <1>1, MatchStays DEF AInv
  <1> QED
    BY <1>1, <1>3, <1>4, <1>5, OneSteps DEF AInv, Named

\* The answer: what was made of each text, if it was.
LEMMA AnswerMatches ==
  ASSUME NEW a \in Asks, NEW d, Made(d, Read(a)), Len(d) = Len(a.inputs), Readable(a)
  PROVE  LET vecs == [i \in 1..Len(d) |-> Vector(a, d[i])] IN
         /\ Len(vecs) = Len(a.inputs) /\ \A i \in 1..Len(vecs) : ReadOf(a.inputs[i], vecs[i].of)
         /\ TokensOf(Read(a)) = TokensOf([i \in 1..Len(vecs) |-> vecs[i].of])
  <1> DEFINE vecs == [i \in 1..Len(d) |-> Vector(a, d[i])]
             of == [i \in 1..Len(vecs) |-> vecs[i].of]
  <1>1. d \in Seq(Texts) /\ Len(d) \in Nat /\ Read(a) \in Seq(Texts) /\ Len(Read(a)) = Len(d)
    BY ReadIs, LenProperties DEF Made
  <1>2. DOMAIN vecs = 1..Len(d) /\ Len(vecs) = Len(d)
    BY <1>1
  <1>3. \A i \in 1..Len(d) : vecs[i].of = d[i]
    BY DEF Vector
  <1> HIDE DEF vecs
  <1>4. of = d
    <2>1. of = [i \in 1..Len(d) |-> d[i]]
      BY <1>2, <1>3
    <2>2. d = [i \in 1..Len(d) |-> d[i]]
      BY <1>1, LenProperties
    <2> QED
      BY <2>1, <2>2
  <1>5. d = Read(a)
    BY <1>1, SeqEqual DEF Made
  <1>6. \A i \in 1..Len(d) : ReadOf(a.inputs[i], d[i])
    BY <1>5, ReadIs
  <1> QED
    BY <1>2, <1>3, <1>4, <1>5, <1>6 DEF vecs

LEMMA ReleaseAnswers ==
  ASSUME IInv, AInv, NEW r \in Requests, Return(r) \/ Finish(r)
  PROVE  AInv'
  <1>1. /\ pc[r] \in {"leased", "passes"} /\ pc' = [pc EXCEPT ![r] = "done"]
        /\ lease' = [lease EXCEPT ![r] = Nobody] /\ UNCHANGED <<ask, done, memory>>
        /\ DropEmbedder(emb, IF emb = lease[r] THEN [leases EXCEPT ![emb].keep = KeepAlive(ask[r].keep)]
                             ELSE leases, lease[r])
    BY DEF Return, Finish, Release, Answers, Goes, engine
  <1>2. lease[r] \in Requests /\ ask[r] \in Asks
    BY <1>1, AskedIs DEF IInv, Holding, Using
  <1>3. \A k \in Requests : leases'[k].path = leases[k].path
    <2> DEFINE noted == IF emb = lease[r] THEN [leases EXCEPT ![emb].keep = KeepAlive(ask[r].keep)] ELSE leases
    <2>1. noted \in [Requests -> Leases] /\ \A k \in Requests : noted[k].path = leases[k].path
      BY <1>2 DEF IInv, Types, Leases, Keeps
    <2>2. leases' = Dropped(noted, lease[r])
      BY <1>1 DEF DropEmbedder, State
    <2> HIDE DEF noted
    <2> QED
      BY <1>2, <2>1, <2>2, DropNames
  <1> DEFINE all == [i \in 1..Len(done[r]) |-> Vector(ask[r], done[r][i])]
             read == TokensOf(Read(ask[r]))
             none(st) == [status |-> st, vecs |-> <<>>, tokens |-> 0]
  <1>4. \/ /\ reply' = [reply EXCEPT ![r] = [status |-> 200, vecs |-> all, tokens |-> read]]
           /\ pc[r] = "passes" /\ Len(done[r]) = Len(ask[r].inputs)
        \/ /\ reply' = [reply EXCEPT ![r] = none(200)]
           /\ ask[r].api = "generate" \/ ask[r].inputs = <<>>
        \/ reply' = [reply EXCEPT ![r] = none(400)]
        \/ reply' = [reply EXCEPT ![r] = none(500)]
    <2>1. CASE Return(r)
      BY <2>1 DEF Return, Release, Answers
    <2>2. CASE Finish(r)
      BY <2>2 DEF Finish, Release, Answers
    <2> QED
      BY <2>1, <2>2
  <1> HIDE DEF all, read, none
  <1>5. /\ \A u \in Requests \ {r} : reply'[u] = reply[u]
        /\ Results'
        /\ \/ /\ reply'[r] = [status |-> 200, vecs |-> all, tokens |-> read]
              /\ pc[r] = "passes" /\ Len(done[r]) = Len(ask[r].inputs)
           \/ reply'[r] = none(200) /\ (ask[r].api = "generate" \/ ask[r].inputs = <<>>)
           \/ reply'[r] = none(400)
           \/ reply'[r] = none(500)
    BY <1>1, <1>4 DEF AInv, Results
  <1>6. Underway(r)'
    BY <1>1 DEF Underway, IInv, Types
  <1>7. Matches(r)'
    <2>1. ASSUME ask[r].inputs = <<>>, reply'[r] = none(200) PROVE Matches(r)'
      <3>1. reply'[r].vecs = <<>> /\ reply'[r].tokens = 0 /\ Len(<<>>) = 0
            /\ [i \in 1..0 |-> reply'[r].vecs[i].of] = <<>>
        BY <2>1 DEF none
      <3> QED
        BY <1>1, <2>1, <3>1, NoTokens DEF Matches
    <2>2. ASSUME pc[r] = "passes", Len(done[r]) = Len(ask[r].inputs),
                 reply'[r] = [status |-> 200, vecs |-> all, tokens |-> read]
          PROVE  Matches(r)'
      <3>1. Made(done[r], Read(ask[r])) /\ Readable(ask[r])
        BY <2>2 DEF AInv, Underway
      <3>2. /\ Len(all) = Len(ask[r].inputs)
            /\ \A i \in 1..Len(all) : ReadOf(ask[r].inputs[i], all[i].of)
            /\ read = TokensOf([i \in 1..Len(all) |-> all[i].of])
        BY ZenonT(30), <1>2, <2>2, <3>1, AnswerMatches DEF all, read
      <3>3. reply'[r].vecs = all /\ reply'[r].tokens = read
        BY <2>2
      <3> QED
        BY <1>1, <3>2, <3>3 DEF Matches, ReadOf
    <2>3. ASSUME reply'[r].status = 200 => ask[r].api = "generate" PROVE Matches(r)'
      BY <1>1, <2>3 DEF Matches
    <2> QED
      BY <1>5, <2>1, <2>2, <2>3 DEF none
  <1>8. \A u \in Requests : pc[u] \in Using => lease[u] \in Requests
    BY DEF IInv, Holding
  <1>9. pc'[r] = "done" /\ \A u \in Requests \ {r} : pc'[u] = pc[u] /\ lease'[u] = lease[u]
    BY <1>1 DEF IInv, Types
  <1> QED
    BY <1>1, <1>3, <1>5, <1>6, <1>7, <1>8, <1>9, OneSteps DEF Using

LEMMA NextAnswers == IInv /\ AInv /\ [Next]_vars => AInv'
  <1> SUFFICES ASSUME IInv, AInv, [Next]_vars PROVE AInv'
    OBVIOUS
  <1>1. ASSUME NEW r \in Requests, Arrive(r) PROVE AInv'
    BY <1>1, ArriveAnswers
  <1>2. ASSUME NEW r \in Requests, Step(r) PROVE AInv'
    BY <1>2, ShareAnswers, RoomAnswers, LoadAnswers, MovesAnswer, ReleaseAnswers DEF Step
  <1>3. ASSUME UNCHANGED <<ask, pc, lease, reply, done, memory>>,
               \A k \in Requests : leases'[k].path = leases[k].path
        PROVE  AInv'
    <2>1. \A u \in Requests : Underway(u)' /\ Matches(u)'
      BY <1>3, OthersStay DEF AInv
    <2>2. Named'
      BY <1>3 DEF AInv, Named, IInv, Holding
    <2>3. Results'
      BY <1>3 DEF AInv, Results
    <2> QED
      BY <2>1, <2>2, <2>3 DEF AInv
  <1>4. ASSUME NEW l \in Requests, Callback(l) PROVE AInv'
    <2>1. UNCHANGED <<ask, pc, lease, reply, done, memory>>
      BY <1>4 DEF Callback, engine
    <2>2. \A k \in Requests : leases'[k].path = leases[k].path
      BY <1>4, RetireNames, EmbeddingAssumption DEF Callback, IInv
    <2> QED
      BY <1>3, <2>1, <2>2
  <1>5. CASE Fire \/ UNCHANGED vars
    BY <1>3, <1>5 DEF Fire, vars, engine
  <1> QED
    BY <1>1, <1>2, <1>4, <1>5 DEF Next

\* A request is answered with a vector of each of its texts, in their order,
\* read from that text alone by the model it named, and with the tokens of
\* them counted, whoever else uses the engine or swaps the model meanwhile
\* (engine/embed.go's Embed, and the handlers of server/embed.go).
THEOREM OwnAnswers == Spec => []AnswersMatch
  <1>1. Init => IInv /\ AInv
    BY InitHolds, AsksStart
  <1>2. IInv /\ AInv /\ [Next]_vars => (IInv /\ AInv)'
    BY NextKeeps, NextAnswers
  <1>3. IInv /\ AInv => AnswersMatch
    BY DEF AInv, Named, Using, Matches, AnswersMatch
  <1> QED
    BY <1>1, <1>2, <1>3, PTL DEF Spec
=============================================================================
