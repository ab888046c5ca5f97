--------------------------- MODULE Embedding ---------------------------
(***************************************************************************)
(* Embedding (internal/server: embed.go, keepalive.go's loadOrUnload;      *)
(* internal/engine: embed.go): one embedding model is kept loaded beside   *)
(* the chat model, leased to the requests that use it, swapped for another *)
(* when one is named, unloaded by its idle clock or when asked to.  An     *)
(* engine's passes embed as many texts as fit, and requests take turns.    *)
(*                                                                         *)
(* A request's texts are sequences of tokens, and a vector is what it was  *)
(* pooled from.  One of Requests asks once; a lease is named for the       *)
(* request that loaded it.  The server's mutex makes each step here one.   *)
(***************************************************************************)
EXTENDS Integers, Sequences, FiniteSets, SequencesExt

CONSTANTS
    Requests,
    Names,         \* the models named: those of Embedders embed
    Embedders,
    Asks,          \* what is asked: records [api, model, inputs, truncate, dims, keep]
    Vocabulary,    \* the tokens a model knows
    Closing,       \* of those, the markers that close a text
    Limit,         \* the longest text read, and the tokens of a pass (embedCtx)
    EmbedSeqs,     \* the texts of a pass
    Dims,          \* how long a vector is
    MaxCallbacks,  \* of one lease's timer that wait for the mutex at once
    Nobody

\* What texts are made of, known to a model or not.
Tokens == UNION {UNION {Range(a.inputs[i]) : i \in DOMAIN a.inputs} : a \in Asks}

ASSUME AsksAssumption == \A a \in Asks : a.inputs \in Seq(Seq(Tokens))
ASSUME EmbeddingAssumption ==
    /\ IsFiniteSet(Requests) /\ Limit \in Nat \ {0} /\ EmbedSeqs \in Nat \ {0} /\ Dims \in Nat \ {0} /\ MaxCallbacks \in Nat \ {0}
    /\ Embedders \subseteq Names /\ Closing \subseteq Vocabulary /\ Nobody \notin Requests

VARIABLES
    ask,        \* what each request asked
    pc,         \* where its handler is
    lease,      \* the lease it holds
    reply,      \* its answer
    done,       \* of an Embed under way: the vectors made so far
    emb,        \* the lease of the loaded model (s.emb)
    leases,     \* each lease: [path, refs, keep, open]
    embLoading, \* a request is swapping the model
    timer,      \* the lease whose unload countdown runs
    fired,      \* callbacks of timers that fired, waiting for the mutex
    turn,       \* of each engine, the request whose Embed it runs (e.mu)
    memory      \* of each engine, what is in its context, sequence by sequence

vars == <<ask, pc, lease, reply, done, emb, leases, embLoading, timer, fired, turn, memory>>
server == <<emb, leases, embLoading, timer, fired>>
engine == <<turn, memory>>

NoLease == [path |-> Nobody, refs |-> 0, keep |-> "default", open |-> FALSE]
NoReply == [status |-> 0, vecs |-> <<>>, tokens |-> 0]
Empty == [s \in 1..EmbedSeqs |-> <<>>]

Init ==
    /\ ask = [r \in Requests |-> Nobody] /\ pc = [r \in Requests |-> "idle"]
    /\ lease = [r \in Requests |-> Nobody] /\ reply = [r \in Requests |-> NoReply]
    /\ done = [r \in Requests |-> <<>>]
    /\ emb = Nobody /\ leases = [r \in Requests |-> NoLease]
    /\ embLoading = FALSE /\ timer = Nobody /\ fired = [r \in Requests |-> 0]
    /\ turn = [r \in Requests |-> Nobody] /\ memory = [r \in Requests |-> Empty]

Goes(r, where) == pc' = [pc EXCEPT ![r] = where]
Answers(r, status, vecs, tokens) ==
    /\ Goes(r, "done") /\ reply' = [reply EXCEPT ![r] = [status |-> status, vecs |-> vecs, tokens |-> tokens]]
Fails(r, status) == Answers(r, status, <<>>, 0)

-----------------------------------------------------------------------------
(* The leases.  Each operator gives what the mutex guards, after it.       *)

State(e, ls, t) == emb' = e /\ leases' = ls /\ timer' = t

\* Dropping a reference: the last closes the model, and the loaded one's
\* countdown starts again when only the server holds it.
Dropped(ls, l) == [ls EXCEPT ![l].refs = @ - 1, ![l].open = @ /\ ls[l].refs > 1]
\* Wrong: the server's own reference forgotten.
ArmEmbedUnheld(e, ls) ==
    IF e # Nobody /\ ls[e].refs = 0 /\ ls[e].keep # "forever" THEN e ELSE Nobody
ArmEmbedIdle(e, ls) ==
    IF e # Nobody /\ ls[e].refs = 1 /\ ls[e].keep # "forever" THEN e ELSE Nobody
DropEmbedder(e, ls, l) == LET after == Dropped(ls, l) IN State(e, after, ArmEmbedIdle(e, after))

\* The server lets go of the loaded model; its requests have it still.
\* Wrong: closed under the requests that use it.
RetireAtOnce == State(Nobody, [leases EXCEPT ![emb].refs = @ - 1, ![emb].open = FALSE], Nobody)
RetireEmbedder == DropEmbedder(Nobody, leases, emb)

-----------------------------------------------------------------------------
(* Requests.                                                               *)

\* keep_alive as a request writes it, in seconds or as a duration: less than
\* nothing, and more than a Duration holds, is for ever.
KeepAlive(written) ==
    CASE written = "absent" -> "default"
      [] written \in {"negative", "too long"} -> "forever"
      [] OTHER -> written

\* What the embedding handlers refuse before they need a model.
BadRequest(a) ==
    \/ a.keep = "malformed" \/ a.dims < 0
    \/ a.api = "openai" /\ a.inputs = <<>>

Serves(r, a, where) ==
    IF a.model \notin Names THEN Fails(r, 404) ELSE Goes(r, where) /\ UNCHANGED reply
Embeds(r, a) ==
    /\ a.api # "generate"
    /\ IF BadRequest(a) THEN Fails(r, 400) ELSE Serves(r, a, "acquire")

\* /api/generate writes no text: without a prompt it loads the model, or unloads
\* it for a keep_alive of nothing.
Generates(r, a) ==
    /\ a.api = "generate"
    /\ CASE a.inputs # <<>> -> Fails(r, 501)
         [] a.inputs = <<>> /\ a.keep = "malformed" -> Fails(r, 400)
         [] OTHER -> Serves(r, a, IF KeepAlive(a.keep) = "zero" THEN "unload" ELSE "acquire")

Arrive(r) ==
    /\ pc[r] = "idle"
    /\ \E a \in Asks : ask' = [ask EXCEPT ![r] = a] /\ (Embeds(r, a) \/ Generates(r, a))
    /\ UNCHANGED <<lease, done, server, engine>>

\* The loaded model, if it is the one named.
Share(r) ==
    /\ pc[r] = "acquire" /\ emb # Nobody /\ leases[emb].path = ask[r].model
    /\ leases' = [leases EXCEPT ![emb].refs = @ + 1]
    /\ timer' = Nobody /\ lease' = [lease EXCEPT ![r] = emb] /\ Goes(r, "leased")
    /\ UNCHANGED <<ask, reply, done, emb, embLoading, fired, engine>>

\* Otherwise one request at a time makes room for another, waiting until those
\* that use the old one are done with it, and loads it without the mutex.
MakeRoom(r) ==
    /\ pc[r] = "acquire" /\ ~embLoading
    /\ emb # Nobody => leases[emb].path # ask[r].model
    /\ embLoading' = TRUE /\ lease' = [lease EXCEPT ![r] = emb]
    /\ IF emb = Nobody THEN State(Nobody, leases, Nobody) ELSE RetireEmbedder
    /\ Goes(r, "retiring")
    /\ UNCHANGED <<ask, reply, done, fired, engine>>
\* Wrong: the server's reference, dropped already, waited for.
DrainedToOne(r) == lease[r] # Nobody => leases[lease[r]].refs = 1
Drained(r) == lease[r] # Nobody => leases[lease[r]].refs = 0
Load(r) ==
    /\ pc[r] = "retiring" /\ Drained(r) /\ embLoading' = FALSE
    /\ \/ /\ ask[r].model \in Embedders /\ Goes(r, "leased")
          /\ leases' = [leases EXCEPT ![r] = [path |-> ask[r].model, refs |-> 2, keep |-> "default", open |-> TRUE]]
          /\ emb' = r /\ lease' = [lease EXCEPT ![r] = r] /\ UNCHANGED reply
       \/ /\ Fails(r, IF ask[r].model \in Embedders THEN 500 ELSE 400)
          /\ lease' = [lease EXCEPT ![r] = Nobody] /\ UNCHANGED <<leases, emb>>
    /\ UNCHANGED <<ask, done, timer, fired, engine>>

\* The lease is handed back, with what the request asked of the idle clock.
Release(r, status, vecs, tokens) ==
    /\ DropEmbedder(emb, IF emb = lease[r] THEN [leases EXCEPT ![emb].keep = KeepAlive(ask[r].keep)] ELSE leases, lease[r])
    /\ Answers(r, status, vecs, tokens) /\ lease' = [lease EXCEPT ![r] = Nobody]
    /\ UNCHANGED <<ask, embLoading, fired>>

\* A model named with a keep_alive of nothing is unloaded at once - unless a
\* request is swapping, which is waited for.
Unload(r) ==
    /\ pc[r] = "unload" /\ ~embLoading
    /\ IF emb # Nobody /\ leases[emb].path = ask[r].model
       THEN RetireEmbedder /\ lease' = [lease EXCEPT ![r] = emb] /\ Goes(r, "draining") /\ UNCHANGED reply
       ELSE Answers(r, 200, <<>>, 0) /\ UNCHANGED <<emb, leases, timer, lease>>
    /\ UNCHANGED <<ask, done, embLoading, fired, engine>>
Unloaded(r) ==
    /\ pc[r] = "draining" /\ Drained(r)
    /\ Answers(r, 200, <<>>, 0) /\ lease' = [lease EXCEPT ![r] = Nobody]
    /\ UNCHANGED <<ask, done, server, engine>>

\* The countdown ends; its callback then needs the mutex, and stopping the
\* timer no longer stops it.
Fire ==
    /\ timer # Nobody /\ fired[timer] < MaxCallbacks
    /\ fired' = [fired EXCEPT ![timer] = @ + 1] /\ timer' = Nobody
    /\ UNCHANGED <<ask, pc, lease, reply, done, emb, leases, embLoading, engine>>
Callback(l) ==
    /\ fired[l] > 0 /\ fired' = [fired EXCEPT ![l] = @ - 1]
    /\ IF emb = l /\ leases[l].refs = 1 THEN RetireEmbedder ELSE UNCHANGED <<emb, leases, timer>>
    /\ UNCHANGED <<ask, pc, lease, reply, done, embLoading, engine>>

-----------------------------------------------------------------------------
(* Embed.                                                                  *)

\* A text too long is cut from its end, but for a marker that closes it.
Cut(toks, n) ==
    IF toks[Len(toks)] \notin Closing \/ n < 2 THEN SubSeq(toks, 1, n)
    ELSE Append(SubSeq(toks, 1, n - 1), toks[Len(toks)])
Unreadable(toks, truncate) ==
    \/ toks = <<>> \/ \E i \in 1..Len(toks) : toks[i] \notin Vocabulary
    \/ ~truncate /\ Len(toks) > Limit
Read(a) == [i \in 1..Len(a.inputs) |->
               IF Len(a.inputs[i]) > Limit THEN Cut(a.inputs[i], Limit) ELSE a.inputs[i]]
TokensOf(texts) == FoldLeft(LAMBDA n, t : n + Len(t), 0, texts)

\* The texts of the pass that starts at one of them: as many as fit.
PassFrom(texts, start) ==
    LET fits == {e \in start..Len(texts) :
                    /\ e - start < EmbedSeqs
                    /\ e = start \/ TokensOf(SubSeq(texts, start, e)) <= Limit}
    IN SubSeq(texts, start, start + Cardinality(fits) - 1)

Check(r) ==
    /\ pc[r] = "leased" /\ ask[r].api # "generate"
    /\ ask[r].inputs # <<>>
    /\ ~\E i \in 1..Len(ask[r].inputs) : Unreadable(ask[r].inputs[i], ask[r].truncate)
    /\ Goes(r, "embed")
    /\ UNCHANGED <<ask, lease, reply, done, server, engine>>
\* Nothing to embed, or a text that cannot be.
Return(r) ==
    /\ pc[r] = "leased"
    /\ \/ (ask[r].api = "generate" \/ ask[r].inputs = <<>>) /\ Release(r, 200, <<>>, 0)
       \/ /\ ask[r].api # "generate"
          /\ \E i \in 1..Len(ask[r].inputs) : Unreadable(ask[r].inputs[i], ask[r].truncate)
          /\ Release(r, 400, <<>>, 0)
    /\ UNCHANGED <<done, engine>>
Take(r) ==
    /\ pc[r] = "embed" /\ turn[lease[r]] = Nobody
    /\ turn' = [turn EXCEPT ![lease[r]] = r] /\ Goes(r, "passes")
    /\ UNCHANGED <<ask, lease, reply, done, server, memory>>

\* A pass decodes its texts, each in a sequence of its own, and reads a vector
\* of each; then the context is cleared.
Decoded(mem, pass) == [s \in 1..EmbedSeqs |-> IF s <= Len(pass) THEN mem[s] \o pass[s] ELSE mem[s]]
\* Wrong: a pass starts with what the one before left.
ClearNothing(mem) == mem
ClearMemory(mem) == Empty
Pass(r) ==
    /\ pc[r] = "passes" /\ Len(done[r]) < Len(ask[r].inputs)
    /\ LET l == lease[r]
           pass == PassFrom(Read(ask[r]), Len(done[r]) + 1)
           now == Decoded(memory[l], pass)
       IN /\ done' = [done EXCEPT ![r] = @ \o [s \in 1..Len(pass) |-> now[s]]]
          /\ memory' = [memory EXCEPT ![l] = ClearMemory(now)]
    /\ UNCHANGED <<ask, pc, lease, reply, server, turn>>

\* Vectors of unit length, as long as asked; the older call gives its own.
Vector(a, pooled) ==
    [of |-> pooled, unit |-> a.api # "embeddings",
     dims |-> IF a.api # "embeddings" /\ a.dims \in 1..(Dims - 1) THEN a.dims ELSE Dims]
Finish(r) ==
    /\ pc[r] = "passes" /\ turn' = [turn EXCEPT ![lease[r]] = Nobody]
    /\ \/ /\ Len(done[r]) = Len(ask[r].inputs)
          /\ Release(r, 200, [i \in 1..Len(done[r]) |-> Vector(ask[r], done[r][i])], TokensOf(Read(ask[r])))
       \* The client is gone, or a pass failed.
       \/ Len(done[r]) < Len(ask[r].inputs) /\ Release(r, 500, <<>>, 0)
    /\ UNCHANGED <<done, memory>>

Step(r) ==
    \/ Share(r) \/ MakeRoom(r) \/ Load(r) \/ Unload(r) \/ Unloaded(r)
    \/ Check(r) \/ Return(r) \/ Take(r) \/ Pass(r) \/ Finish(r)
Next == (\E r \in Requests : Arrive(r) \/ Step(r) \/ Callback(r)) \/ Fire

\* A handler goes on, a load and a pass return, a countdown ends.
Spec == Init /\ [][Next]_vars /\ WF_vars(Fire)
        /\ \A r \in Requests : WF_vars(Step(r)) /\ WF_vars(Callback(r))

-----------------------------------------------------------------------------
(* Properties.                                                             *)

TypeOK ==
    /\ \A r \in Requests : ask[r] \in Asks \cup {Nobody}
    /\ pc \in [Requests -> {"idle", "acquire", "retiring", "leased", "embed", "passes", "unload", "draining", "done"}]
    /\ emb \in Requests \cup {Nobody} /\ timer \in Requests \cup {Nobody}
    /\ lease \in [Requests -> Requests \cup {Nobody}] /\ turn \in [Requests -> Requests \cup {Nobody}]
    /\ \A l \in Requests : leases[l].refs \in 0..(Cardinality(Requests) + 1)

\* A model is open exactly while the server or a request has it, so that no
\* timer's late callback, swap or unload closes one a pass runs on, and none is
\* left open (embed.go's dropEmbedderLocked).
Users(l) == {r \in Requests : lease[r] = l /\ pc[r] \in {"leased", "embed", "passes"}}
OpenWhileHeld ==
    /\ TypeOK
    /\ \A l \in Requests :
          /\ leases[l].refs = Cardinality(Users(l)) + IF emb = l THEN 1 ELSE 0
          /\ leases[l].open <=> leases[l].refs > 0
          /\ turn[l] # Nobody => turn[l] \in Users(l) /\ pc[turn[l]] = "passes"

\* A request is answered with a vector of each of its texts, in their order and
\* of that text alone, by the model it named, whoever shares the engine, with
\* the tokens counted that were read (Embed's passes, engine/embed.go).
AnswersMatch ==
    \A r \in Requests :
       /\ pc[r] = "passes" => leases[lease[r]].path = ask[r].model
       /\ reply[r].status = 200 /\ ask[r].api # "generate" =>
             /\ Len(reply[r].vecs) = Len(ask[r].inputs)
             /\ \A i \in 1..Len(reply[r].vecs) :
                   LET toks == ask[r].inputs[i] of == reply[r].vecs[i].of IN
                   /\ Len(of) = (IF Len(toks) > Limit THEN Limit ELSE Len(toks))
                   /\ IsPrefix(Front(of), toks) /\ (Last(of) = Last(toks) \/ IsPrefix(of, toks))
             /\ reply[r].tokens = TokensOf([i \in 1..Len(reply[r].vecs) |-> reply[r].vecs[i].of])

\* A model nobody uses goes, unless the last to use it asked that it stay:
\* whatever started, stopped and fired meanwhile, a countdown is left that ends
\* with nobody using it (embed.go's idle clock).
AtRest == \A r \in Requests : pc[r] \in {"idle", "done"}
IdleUnloads == []<>(~AtRest \/ emb = Nobody \/ leases[emb].keep = "forever")

\* Every request is answered, those that wait for another's model and those
\* that wait for the one they unload too.
EveryoneAnswered == \A r \in Requests : pc[r] = "acquire" \/ pc[r] = "unload" ~> pc[r] = "done"


\* In the end everyone has an answer and the memory is free.
Settles == IdleUnloads /\ EveryoneAnswered
=============================================================================
