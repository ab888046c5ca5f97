----------------------------- MODULE MLXEngine -----------------------------
(***************************************************************************)
(* The MLX backend (internal/mlxengine: engine.go, prefix.go): one         *)
(* goroutine takes requests off a channel, reads each prompt alone, writes *)
(* a reply alone with drafts or in the batch, one token per row a step,    *)
(* and records a step before it has read the tokens of the one before.     *)
(*                                                                         *)
(* An action is what the goroutine does between two looks at the channels. *)
(* Left open: when requests come, when the engine is closed, what is       *)
(* drafted, and when a reply ends before its budget: an end token, a stop  *)
(* text, its deadline or its client gone.                                  *)
(***************************************************************************)
EXTENDS MLXBatch, FiniteSets, TLC

CONSTANTS
    Jobs,       \* requests, numbered as they come
    NoJob,      \* a nil *job
    Settings,   \* how an engine was opened: [drafts, prefix, mayFail]
    Prompts,    \* [tokens, marks]: marks are the checkpoints, [pos, shared]
    slots,      \* rows at most
    ctx,        \* tokens a prompt and its reply may have
    minPrefixMatch

IsPrompt(p) ==
    /\ p.tokens \in Seq(Nat \ {Blank}) /\ p.tokens # <<>>
    /\ p.marks \in Seq([pos : Nat, shared : BOOLEAN])
    /\ \A i \in DOMAIN p.marks :
        /\ p.marks[i].pos \in minPrefixMatch .. Len(p.tokens)
        /\ i > 1 => p.marks[i].pos > p.marks[i - 1].pos

ASSUME PromptsAssumption == Prompts # {} /\ \A p \in Prompts : IsPrompt(p)
ASSUME BoundsAssumption ==
    /\ Jobs \subseteq Nat /\ NoJob \notin Jobs
    /\ slots \in Nat \ {0} /\ ctx \in Nat /\ minPrefixMatch \in Nat \ {0}
    /\ \A s \in Settings : s.drafts \in Nat /\ s.prefix \in Nat /\ s.mayFail \in BOOLEAN

VARIABLES
    setting,
    \* the channels
    jobs, quit,
    \* the requests
    stage,      \* new, queued, running, done, or refused by a closed engine
    prompt, gen,
    ended,      \* how often finish closed its channels
    \* the goroutine
    at,         \* where it stands in its loop
    cur, cache, \* the request being admitted, and its cache
    batch, rows,
    pending,    \* the tokens of the step in flight, one per row; <<>> for none
    pool

request == <<stage, prompt, gen, ended>>
vars == <<setting, jobs, quit, stage, prompt, gen, ended, at, cur, cache, batch, rows,
          pending, pool>>

Init ==
    /\ setting \in Settings
    /\ jobs = <<>> /\ quit = FALSE
    /\ stage = [j \in Jobs |-> "new"]
    /\ prompt = [j \in Jobs |-> CHOOSE p \in Prompts : TRUE]
    /\ gen = [j \in Jobs |-> <<>>]
    /\ ended = [j \in Jobs |-> 0]
    /\ at = "admit" /\ cur = NoJob /\ cache = NewCache
    /\ batch = EmptyBatch /\ rows = <<>> /\ pending = <<>>
    /\ pool = [e \in 1 .. setting.prefix |->
                [tokens |-> <<>>, cache |-> NewCache, shared |-> FALSE, lastUse |-> 0]]

----------------------------------------------------------------------------
(* What the weights make of a text: some token, another for another text.   *)
(* A layer with keys and one with a state both have a say in it.            *)
Model(keys, state) ==
    LET text == keys \o state
        h[i \in 0 .. Len(text)] == IF i = 0 THEN 1 ELSE (7 * h[i - 1] + text[i] + 1) % 241
    IN 1 + h[Len(text)]

Says(text) == Model(text, text)

MaxGen(j) == ctx - Len(prompt[j].tokens)

Active == {r \in DOMAIN rows : rows[r] # NoJob}
Writing == {rows[r] : r \in Active}

\* finish, for every job of J.
Finish(J) ==
    /\ stage' = [j \in Jobs |-> IF j \in J THEN "done" ELSE stage[j]]
    /\ ended' = [j \in Jobs |-> IF j \in J THEN ended[j] + 1 ELSE ended[j]]

\* Wrong: the rows keep the jobs that were told of the failure.
FailKeepsRows ==
    /\ Finish(Writing)
    /\ batch' = EmptyBatch /\ pending' = <<>>
    /\ UNCHANGED <<rows, gen>>

\* fail: everything in the batch ends.
Fail ==
    /\ Finish(Writing)
    /\ rows' = <<>> /\ batch' = EmptyBatch /\ pending' = <<>>
    /\ UNCHANGED gen

\* leave: each row of batch b gets its token of toks; the replies of some, and
\* of those at their budget, end, and their rows are released.
Leave(b, toks) ==
    \E early \in SUBSET Active :
        LET full == {r \in Active : Len(gen[rows[r]]) + 1 >= MaxGen(rows[r])}
            gone == early \cup full
            rowOf(j) == CHOOSE r \in Active : rows[r] = j
        IN /\ gen' = [j \in Jobs |-> IF j \in Writing /\ rowOf(j) \notin early
                                     THEN Append(gen[j], toks[rowOf(j)]) ELSE gen[j]]
           /\ rows' = [r \in DOMAIN rows |-> IF r \in gone THEN NoJob ELSE rows[r]]
           /\ batch' = Release(b, gone)
           /\ Finish({rows[r] : r \in gone})

\* settle: the step in flight, if any, is read before the batch changes.
Settle ==
    IF pending = <<>> THEN UNCHANGED <<request, rows, batch, pending>>
    ELSE /\ UNCHANGED prompt
         /\ \/ Leave(batch, pending) /\ pending' = <<>>
            \/ setting.mayFail /\ Fail

----------------------------------------------------------------------------
(* ChatFull and Close.                                                      *)

Comes(j) == stage[j] = "new" /\ \A i \in Jobs : i < j => stage[i] # "new"

\* With the engine closed and room in the channel, select takes either case.
Submit(j) ==
    /\ Comes(j)
    /\ \E p \in Prompts : prompt' = [prompt EXCEPT ![j] = p]
    /\ stage' = [stage EXCEPT ![j] = "queued"]
    /\ jobs' = Append(jobs, j)
    /\ UNCHANGED <<setting, quit, gen, ended, at, cur, cache, batch, rows, pending, pool>>

Refused(j) ==
    /\ Comes(j) /\ quit
    /\ stage' = [stage EXCEPT ![j] = "refused"]
    /\ UNCHANGED <<setting, jobs, quit, prompt, gen, ended, at, cur, cache, batch, rows,
                   pending, pool>>

Close ==
    /\ ~quit /\ quit' = TRUE
    /\ UNCHANGED <<setting, jobs, request, at, cur, cache, batch, rows, pending, pool>>

----------------------------------------------------------------------------
(* Admission.                                                               *)

Take ==
    /\ at = "admit" /\ Cardinality(Active) < slots /\ jobs # <<>>
    /\ cur' = Head(jobs) /\ jobs' = Tail(jobs)
    /\ stage' = [stage EXCEPT ![Head(jobs)] = "running"]
    /\ at' = "settle"
    /\ UNCHANGED <<setting, quit, prompt, gen, ended, cache, batch, rows, pending, pool>>

\* Wrong: the channel is read for the last time without answering.
ReturnAtOnce ==
    /\ at = "admit" /\ Cardinality(Active) < slots /\ quit
    /\ Finish(Writing)
    /\ jobs' = <<>> /\ rows' = <<>> /\ batch' = EmptyBatch /\ pending' = <<>>
    /\ pool' = <<>> /\ at' = "returned"
    /\ UNCHANGED <<setting, quit, prompt, gen, cur, cache>>

\* Told to quit: drain, and the deferred calls of run.
Return ==
    /\ at = "admit" /\ Cardinality(Active) < slots /\ quit
    /\ Finish(Writing \cup ToSet(jobs))
    /\ jobs' = <<>> /\ rows' = <<>> /\ batch' = EmptyBatch /\ pending' = <<>>
    /\ pool' = <<>> /\ at' = "returned"
    /\ UNCHANGED <<setting, quit, prompt, gen, cur, cache>>

\* Wrong: a full engine waits at the channel for a row.
AdmitBlocks ==
    /\ at = "admit" /\ Active # {} /\ jobs = <<>> /\ ~quit
    /\ at' = "decode"
    /\ UNCHANGED <<setting, jobs, quit, request, cur, cache, batch, rows, pending, pool>>

\* Nothing to admit, or no row to admit it to.  An idle engine blocks instead.
Admitted ==
    /\ at = "admit"
    /\ Cardinality(Active) = slots \/ (Active # {} /\ jobs = <<>> /\ ~quit)
    /\ at' = "decode"
    /\ UNCHANGED <<setting, jobs, quit, request, cur, cache, batch, rows, pending, pool>>

SettleFirst ==
    /\ at = "settle" /\ at' = "prefill"
    /\ Settle
    /\ UNCHANGED <<setting, jobs, quit, cur, cache, pool>>

----------------------------------------------------------------------------
(* The pool (prefix.go).                                                    *)

Now(p) == Max({0} \cup {p[e].lastUse : e \in DOMAIN p}) + 1

\* match: the longest entry that tokens go on past.
Match(tokens) ==
    {e \in DOMAIN pool :
        /\ pool[e].tokens # <<>>
        /\ IsStrictPrefix(pool[e].tokens, tokens)
        /\ \A f \in DOMAIN pool : IsStrictPrefix(pool[f].tokens, tokens)
                => Len(pool[f].tokens) <= Len(pool[e].tokens)}

Touched(p, e) == [p EXCEPT ![e].lastUse = Now(p)]

Oldest(p, E) == CHOOSE e \in E : \A f \in E : p[e].lastUse <= p[f].lastUse

\* victim: the first entry that is empty, holds tokens already, or is one of
\* its own sort that tokens extend; else the oldest, conversations first.
Victim(p, tokens, shared) ==
    LET settles == {e \in DOMAIN p :
                        \/ p[e].tokens \in {<<>>, tokens}
                        \/ IsPrefix(p[e].tokens, tokens) /\ p[e].shared = shared}
        talk == {e \in DOMAIN p : ~p[e].shared}
    IN IF settles # {} THEN Min(settles)
       ELSE Oldest(p, IF talk # {} THEN talk ELSE DOMAIN p)

\* put: a clone of c, which has read exactly tokens.
Put(p, tokens, shared, c) ==
    IF p = <<>> THEN p
    ELSE LET e == Victim(p, tokens, shared) IN
         IF p[e].tokens = tokens THEN Touched(p, e)
         ELSE [p EXCEPT ![e] = [tokens |-> tokens, cache |-> c, shared |-> shared,
                                lastUse |-> Now(p)]]

----------------------------------------------------------------------------
(* prefill.                                                                 *)

\* What reading goes on from: the pool after match, and the cache adopted whole.
Begun(tokens, drafting) ==
    LET found == Match(tokens) IN
    IF found = {} THEN [pool |-> pool, cache |-> [NewCache EXCEPT !.drafting = drafting]]
    ELSE LET e == CHOOSE e \in found : TRUE IN
         [pool |-> Touched(pool, e), cache |-> [pool[e].cache EXCEPT !.drafting = drafting]]

\* Wrong: the prompt is pooled at a mark when all of it has been read.
ReadPast(r, tokens, mark) ==
    LET c == Read(r.cache, SubSeq(tokens, r.cache.offset + 1, Len(tokens))) IN
    IF mark.pos <= r.cache.offset THEN r
    ELSE [pool |-> Put(r.pool, SubSeq(tokens, 1, mark.pos), mark.shared, c), cache |-> c]

\* Read to exactly the mark, and pool what was read; marks behind are skipped.
ReadTo(r, tokens, mark) ==
    LET c == Read(r.cache, SubSeq(tokens, r.cache.offset + 1, mark.pos)) IN
    IF mark.pos <= r.cache.offset THEN r
    ELSE [pool |-> Put(r.pool, SubSeq(tokens, 1, mark.pos), mark.shared, c), cache |-> c]

\* After the first k marks.
ReadMarks(p, drafting, k) ==
    LET after[i \in 0 .. k] == IF i = 0 THEN Begun(p.tokens, drafting)
                               ELSE ReadTo(after[i - 1], p.tokens, p.marks[i])
    IN after[k]

\* And after all of the prompt.
ReadPrompt(p, drafting) ==
    LET r == ReadMarks(p, drafting, Len(p.marks)) IN
    IF r.cache.offset = Len(p.tokens) THEN r
    ELSE [r EXCEPT !.cache = Read(@, SubSeq(p.tokens, @.offset + 1, Len(p.tokens)))]

Alone == setting.drafts > 0 /\ Active = {} /\ jobs = <<>>

\* The client is gone already, or the prompt leaves no room for a reply.
NotRead ==
    /\ at = "prefill" /\ at' = "admit"
    /\ Finish({cur}) /\ cur' = NoJob
    /\ UNCHANGED <<setting, jobs, quit, prompt, gen, cache, batch, rows, pending, pool>>

\* A pass fails; the marks before it are pooled.
PrefillFails ==
    /\ at = "prefill" /\ setting.mayFail /\ MaxGen(cur) > 0
    /\ \E k \in 0 .. Len(prompt[cur].marks) : pool' = ReadMarks(prompt[cur], Alone, k).pool
    /\ Finish({cur}) /\ cur' = NoJob
    /\ at' = "admit"
    /\ UNCHANGED <<setting, jobs, quit, prompt, gen, cache, batch, rows, pending>>

Prefill ==
    /\ at = "prefill" /\ MaxGen(cur) > 0
    /\ LET r == ReadPrompt(prompt[cur], Alone) IN
        /\ pool' = r.pool
        /\ \/ \* the first token ends the reply
              /\ Finish({cur}) /\ cur' = NoJob
              /\ at' = "admit"
              /\ UNCHANGED <<gen, cache>>
           \/ /\ MaxGen(cur) > 1
              /\ gen' = [gen EXCEPT ![cur] = <<Model(Keys(r.cache), r.cache.state)>>]
              /\ cache' = r.cache
              /\ at' = IF Alone /\ HeadReady(r.cache) THEN "solo" ELSE "join"
              /\ UNCHANGED <<stage, ended, cur>>
    /\ UNCHANGED <<setting, jobs, quit, prompt, batch, rows, pending>>

----------------------------------------------------------------------------
(* solo.                                                                    *)

DraftsFor(j) == AtLeastZero(Min({setting.drafts, MaxGen(j) - Len(gen[j]) - 1}))

\* The n tokens the model writes once c has read t.
Writes(c, t, n) ==
    LET w[i \in 0 .. n] ==
            IF i = 0 THEN <<>>
            ELSE Append(w[i - 1], Model(Keys(c) \o <<t>> \o w[i - 1], c.state \o <<t>> \o w[i - 1]))
    IN w[n]

\* Another request waits, or the engine is being closed.
SoloEnds ==
    /\ at = "solo" /\ (jobs # <<>> \/ quit)
    /\ at' = "join"
    /\ UNCHANGED <<setting, jobs, quit, request, cur, cache, batch, rows, pending, pool>>

\* A pass over the token the reply is sure of and n drafts, of which it keeps
\* the first `kept`, with its own token after them.
SoloPass ==
    /\ at = "solo" /\ jobs = <<>> /\ ~quit
    /\ LET n == DraftsFor(cur) IN \E kept \in 0 .. n :
        LET toks == Writes(cache, Last(gen[cur]), kept + 1)
            pass == Read(cache, <<Last(gen[cur])>> \o SubSeq(toks, 1, kept) \o Blanks(n - kept))
        IN \/ /\ gen' = [gen EXCEPT ![cur] = @ \o toks]
              /\ Len(gen'[cur]) < MaxGen(cur)
              /\ cache' = Keep(pass, cache, kept)
              /\ UNCHANGED <<at, stage, ended, cur>>
           \/ \E m \in 0 .. kept + 1 :     \* ends, m of the tokens written
              /\ gen' = [gen EXCEPT ![cur] = @ \o SubSeq(toks, 1, m)]
              /\ Finish({cur}) /\ cur' = NoJob
              /\ at' = "admit" /\ UNCHANGED cache
    /\ UNCHANGED <<setting, jobs, quit, prompt, batch, rows, pending, pool>>

SoloFails ==
    /\ at = "solo" /\ setting.mayFail
    /\ Finish({cur}) /\ cur' = NoJob
    /\ at' = "admit"
    /\ UNCHANGED <<setting, jobs, quit, prompt, gen, cache, batch, rows, pending, pool>>

----------------------------------------------------------------------------
(* The batch.                                                               *)

\* Room for this burst: the rows in use, this one, and those queued behind.
BurstRoom == Min({slots, Cardinality(Active) + 1 + Len(jobs)})

Join ==
    /\ at = "join" /\ at' = "admit"
    /\ LET b == Add(batch, cache, BurstRoom) IN
        /\ batch' = b
        /\ rows' = [r \in 1 .. Width(b) |->
                      IF r = JoinsAt(batch) THEN cur
                      ELSE IF r \in DOMAIN rows THEN rows[r] ELSE NoJob]
    /\ cur' = NoJob /\ cache' = NewCache
    /\ UNCHANGED <<setting, jobs, quit, request, pending, pool>>

\* The arrays cannot be evaluated: the batch has the row, the engine has not.
JoinFails ==
    /\ at = "join" /\ setting.mayFail /\ Width(batch) > 0
    /\ batch' = Add(batch, cache, BurstRoom)
    /\ Finish({cur}) /\ cur' = NoJob
    /\ cache' = NewCache /\ at' = "admit"
    /\ UNCHANGED <<setting, jobs, quit, prompt, gen, rows, pending, pool>>

ShouldCompact ==
    LET free == Cardinality(FreeRows(batch)) IN
    free > 0 /\ free * 2 >= Width(batch) /\ jobs = <<>>

\* Drop the free rows, once the step in flight has been read.
Compact ==
    /\ at = "decode" /\ ShouldCompact
    /\ at' = "compact" /\ Settle
    /\ UNCHANGED <<setting, jobs, quit, cur, cache, pool>>

\* After a join that failed the batch can have live rows that rows does not
\* reach: rows[old] panics, and with it the process (README, Disagreements).
CompactSettled ==
    /\ at = "compact"
    /\ \/ /\ IF ToSet(Kept(batch)) \subseteq DOMAIN rows
             THEN /\ batch' = Compacted(batch)
                  /\ rows' = Taken(rows, Kept(batch))
                  /\ at' = IF Active = {} THEN "admit" ELSE "step"
             ELSE at' = "panicked" /\ UNCHANGED <<batch, rows>>
          /\ UNCHANGED <<pending, request>>
       \/ setting.mayFail /\ Fail /\ at' = "admit" /\ UNCHANGED prompt
    /\ UNCHANGED <<setting, jobs, quit, cur, cache, pool>>

\* What every row reads: the step in flight's tokens, or each reply's last.
Inputs ==
    IF pending # <<>> THEN pending
    ELSE [r \in DOMAIN rows |-> IF rows[r] = NoJob THEN Blank ELSE Last(gen[rows[r]])]

\* And what it gives: a free row's token is nobody's.
Outputs(b) ==
    [r \in DOMAIN rows |-> IF rows[r] = NoJob THEN Blank ELSE Model(RowKeys(b, r), b.state[r])]

AtStep == at = "step" \/ (at = "decode" /\ ~ShouldCompact)

\* Record a step, start it, then read the one before.
Step ==
    /\ AtStep /\ Len(rows) = Width(batch)
    /\ LET b == StepBatch(batch, Inputs) IN
        \/ /\ pending = <<>>
           /\ batch' = b /\ pending' = Outputs(b)
           /\ UNCHANGED <<request, rows>>
        \/ /\ pending # <<>>
           /\ Leave(b, pending) /\ pending' = Outputs(b)
           /\ UNCHANGED prompt
    /\ at' = "admit"
    /\ UNCHANGED <<setting, jobs, quit, cur, cache, pool>>

\* The step, or reading the one before, fails; as it must when a join that
\* failed left the batch wider than the engine's rows.
StepFails ==
    /\ AtStep /\ (setting.mayFail \/ Len(rows) # Width(batch))
    /\ Fail /\ at' = "admit"
    /\ UNCHANGED <<setting, jobs, quit, prompt, cur, cache, pool>>

----------------------------------------------------------------------------
Run ==
    \/ Take \/ Return \/ Admitted \/ SettleFirst
    \/ NotRead \/ PrefillFails \/ Prefill
    \/ SoloEnds \/ SoloPass \/ SoloFails
    \/ Join \/ JoinFails \/ Compact \/ CompactSettled \/ Step \/ StepFails

Next ==
    /\ at # "panicked"
    /\ \/ Run
       \/ \E j \in Jobs : Submit(j) \/ Refused(j)
       \/ Close

Spec == Init /\ [][Next]_vars

\* The goroutine goes on whenever it can.
FairSpec == Spec /\ WF_vars(Run)

----------------------------------------------------------------------------
(* Properties.                                                              *)

IsCache(c) ==
    /\ c.offset <= Len(c.keys) /\ Len(c.state) = c.offset
    /\ c.headOffset \in 0 .. c.offset

\* A width of columns for all rows, and none that attends to nothing.
IsBatch(b) ==
    /\ b.idx <= b.cap
    /\ Len(b.free) = Width(b) /\ Len(b.keys) = Width(b) /\ Len(b.state) = Width(b)
    /\ \A r \in 1 .. Width(b) : Len(b.keys[r]) = b.cap /\ b.pad[r] \in 0 .. b.idx

TypeOK ==
    /\ setting \in Settings
    /\ jobs \in Seq(Jobs) /\ quit \in BOOLEAN
    /\ stage \in [Jobs -> {"new", "queued", "running", "done", "refused"}]
    /\ prompt \in [Jobs -> Prompts]
    /\ gen \in [Jobs -> Seq(Nat)] /\ ended \in [Jobs -> Nat]
    /\ at \in {"admit", "settle", "prefill", "solo", "join", "decode", "compact", "step",
               "returned", "panicked"}
    /\ cur \in Jobs \cup {NoJob} /\ IsCache(cache)
    /\ IsBatch(batch) /\ rows \in Seq(Jobs \cup {NoJob}) /\ Len(rows) <= Width(batch)
    /\ pending # <<>> => Len(pending) = Len(rows)
    /\ \A e \in DOMAIN pool : IsCache(pool[e].cache)

\* A reply is what the model would write of its prompt alone, whoever it
\* shared the batch with, whichever rows it was moved to, whatever was drafted,
\* and whatever pooled prompt it began from.
RepliesAsAlone ==
    \A j \in Jobs : \A i \in DOMAIN gen[j] :
        gen[j][i] = Says(prompt[j].tokens \o SubSeq(gen[j], 1, i - 1))

\* A request's channels are closed once: a second close panics.
FinishedOnce == \A j \in Jobs : ended[j] = IF stage[j] = "done" THEN 1 ELSE 0

\* A pool entry's cache has read exactly the entry's tokens.
EntriesAreText ==
    \A e \in DOMAIN pool :
        Keys(pool[e].cache) = pool[e].tokens /\ pool[e].cache.state = pool[e].tokens

\* A reply, and what the pool keeps of its prompt for others, is the same as if
\* nobody else were served, and ends once.
ServedAsAlone == TypeOK /\ RepliesAsAlone /\ FinishedOnce /\ EntriesAreText

\* Every request is answered - "Close stops the engine, failing what is queued
\* or running" - but one that entered the queue of an engine that had returned
\* already: once those that came are served, none is left.
Unanswered == {j \in Jobs : stage[j] \in {"queued", "running"}}
CloseFailsAll == at' = "returned" /\ at # "returned" => Unanswered' = {}
EveryRequestEnds ==
    /\ [][CloseFailsAll]_vars
    /\ Unanswered # {} ~> Unanswered = {} \/ at \in {"returned", "panicked"}

\* Every cache in use still owns its head's arrays: reading on from a clone
\* frees the cache's handles, which a pass that drafts replaces.  With both a
\* pool and drafts it does not hold (README, Disagreements).
HeadHandlesLive ==
    cache.head # "freed" /\ \A e \in DOMAIN pool : pool[e].cache.head # "freed"
=============================================================================
