------------------------------ MODULE KVCache ------------------------------
(***************************************************************************)
(* What the cells of one context hold (internal/engine: scheduler.go,      *)
(* prefix.go, draft.go): each slot's sequence the text its reply stands    *)
(* on, each pool entry's the prompt it lends, and the MTP head's cache the *)
(* same as the model's, through adopted prefixes, checkpoints, drafts that *)
(* are accepted and rejected, replies moved down a slot, and failures.     *)
(*                                                                         *)
(* One goroutine does all of it, a step of the loop in phases.  Left open: *)
(* what the model samples, how much prompt a batch has room for, and when  *)
(* requests come and go.  A prompt with pictures is not modelled here.     *)
(***************************************************************************)
EXTENDS Naturals, Sequences, FiniteSets

CONSTANTS
    Tokens,       \* the vocabulary
    Loads,        \* how a model may be loaded, and the prompts it then gets:
                  \* [slots, entries, exact, drafts, prompts]
    PerSeq,       \* tokens a slot holds
    MinMatch,     \* the shortest prefix worth pooling or adopting
    DraftPass,    \* tokens a pass that checks drafts should read
    DraftingMost, \* how many may write at once for drafts to be made
    MayFail       \* decodes, the head's passes and going back may fail

\* A prompt, the reply it carries over, how much it may add (0: what fits), and
\* how much of it other conversations and its own next turn will open with.
IsPrompt(p) ==
    /\ p.tokens \in Seq(Tokens) /\ p.resume \in Seq(Tokens) /\ p.budget \in Nat
    /\ p.tokens # <<>> /\ Len(p.tokens) + Len(p.resume) < PerSeq
    /\ p.system \in 0 .. Len(p.tokens) - 1 /\ p.turn \in 0 .. Len(p.tokens) - 1

ASSUME LoadsAssumption ==
    \A l \in Loads : /\ l.slots \in Nat \ {0} /\ l.entries \in Nat
                     /\ l.exact \in BOOLEAN /\ l.drafts \in Nat
                     /\ \A p \in l.prompts : IsPrompt(p)
ASSUME BoundsAssumption ==
    /\ PerSeq \in Nat \ {0} /\ MinMatch \in Nat \ {0}
    /\ DraftPass \in Nat \ {0} /\ DraftingMost \in Nat /\ MayFail \in BOOLEAN

VARIABLES
    load,     \* how this model was loaded
    cache,    \* of each sequence id, what its cells hold and what the MTP head's do,
              \* how far the head has read it (at + 1), and whether it follows it
    slot,     \* the slots
    entry,    \* what each pool entry is said to hold
    recent,   \* the pool's entries, least recently used first
    phase     \* where the scheduler stands: admit, compact, step

pool == <<entry, recent>>
vars == <<load, cache, slot, pool, phase>>

Slots == 1 .. load.slots
Entries == 1 .. load.entries
SeqOf(e) == load.slots + e
Seqs == 1 .. load.slots + load.entries
Drafting == load.drafts > 0

Blank == [cells |-> <<>>, head |-> <<>>, upTo |-> 0, tracked |-> TRUE]
Free(seq) == [seq |-> seq, job |-> FALSE, prompt |-> <<>>, reply |-> <<>>, past |-> 0,
              maxGen |-> 0, points |-> <<>>, publish |-> <<>>, drafts |-> <<>>,
              logits |-> FALSE]   \* as release and occupy leave it
Empty == [tokens |-> <<>>, shared |-> FALSE]

Busy == {i \in Slots : slot[i].job}
Generating == {i \in Busy : slot[i].past >= Len(slot[i].prompt)}

Init ==
    /\ load \in Loads
    /\ cache = [s \in Seqs |-> Blank]
    /\ slot = [i \in Slots |-> Free(i)]
    /\ entry = [e \in Entries |-> Empty]
    /\ recent = <<>> /\ phase = "admit"

----------------------------------------------------------------------------
(* The two caches, c being what cache is at that point.                    *)

Smaller(a, b) == IF a <= b THEN a ELSE b
Upto(q, n) == SubSeq(q, 1, Smaller(n, Len(q)))
Largest(S) == CHOOSE n \in S : \A m \in S : m <= n
First(S) == CHOOSE n \in S : \A m \in S : n <= m

\* The cells of q a share of n positions copies: an exact pool says "all of it".
CopyBounds(q, n) == IF load.exact THEN q ELSE Upto(q, n)

\* Wrong: the head keeps what it read of the sequence.
ForgetModelOnly(c, seq) == [c EXCEPT ![seq].cells = <<>>]

Forget(c, seq) == [c EXCEPT ![seq] = Blank]

\* llama_memory_seq_cp adds to what dst holds.
Share(c, src, dst, n) ==
    [c EXCEPT ![dst] = [cells |-> c[dst].cells \o CopyBounds(c[src].cells, n),
                        head |-> c[dst].head \o CopyBounds(c[src].head, n),
                        upTo |-> n,
                        tracked |-> c[src].tracked]]

\* drafter.move, and compact's copy before it.
Move(c, src, dst) ==
    [c EXCEPT ![src] = Blank,
              ![dst] = [c[src] EXCEPT !.cells = c[dst].cells \o @,
                                      !.head = c[dst].head \o @]]

\* Wrong: only the model goes back over rejected drafts.
SettleNever(c, seq, n, may) == c

\* Wrong: the token the model wrote instead is taken for read.
TrimLate(c, seq, n) == [c EXCEPT ![seq].cells = Upto(@, n + 1)]

\* drafter.settle (may the head go back?) and the model's own trim.
Settle(c, seq, n, may) ==
    IF ~Drafting \/ ~c[seq].tracked THEN c
    ELSE IF ~may THEN [c EXCEPT ![seq].tracked = FALSE]
    ELSE [c EXCEPT ![seq].head = Upto(@, n), ![seq].upTo = n]
Trim(c, seq, n) == [c EXCEPT ![seq].cells = Upto(@, n)]

----------------------------------------------------------------------------
(* The prefix pool (prefix.go).                                            *)

CommonPrefix(a, b) ==
    Largest({n \in 0 .. Smaller(Len(a), Len(b)) : Upto(a, n) = Upto(b, n)})

Filled == {e \in Entries : entry[e].tokens # <<>>}

\* touch: e is now the one used last.
Touched(e) ==
    LET at == First({k \in DOMAIN recent : recent[k] = e} \cup {Len(recent) + 1})
    IN  Append(Upto(recent, at - 1) \o SubSeq(recent, at + 1, Len(recent)), e)

\* Wrong: a prompt may be adopted whole.
LendsWhole(e, tokens) ==
    LET n == CommonPrefix(entry[e].tokens, tokens)
    IN  IF load.exact /\ n # Len(entry[e].tokens) THEN 0 ELSE n

\* Wrong: recurrent state that has read more than the prompt is adopted.
LendsPart(e, tokens) == Smaller(CommonPrefix(entry[e].tokens, tokens), Len(tokens) - 1)

\* How much of a prompt entry e would lend: never all of it, for one token has
\* to be decoded.
Lends(e, tokens) ==
    LET n == Smaller(CommonPrefix(entry[e].tokens, tokens), Len(tokens) - 1)
    IN  IF load.exact /\ n # Len(entry[e].tokens) THEN 0 ELSE n

\* match: how much the best entry lends, 0 when that is not worth it.
Matched(tokens) ==
    LET best == Largest({0} \cup {Lends(e, tokens) : e \in Filled})
    IN  IF best < MinMatch THEN 0 ELSE best

Lender(tokens) == First({e \in Filled : Lends(e, tokens) = Matched(tokens)})

Continues(tokens, e) == CommonPrefix(entry[e].tokens, tokens) = Len(entry[e].tokens)

\* Where victim's search ends: an empty entry, or one the prompt repeats or
\* continues.
Ends(e, tokens, shared) ==
    \/ entry[e].tokens \in {<<>>, tokens}
    \/ Continues(tokens, e) /\ (load.exact => entry[e].shared = shared)

Oldest(S) == recent[First({i \in DOMAIN recent : recent[i] \in S})]

\* Wrong: the least recently used goes, a system prompt like any other.
VictimOldest(tokens, shared) ==
    LET ends == {e \in Entries : Ends(e, tokens, shared)}
    IN  IF ends # {} THEN First(ends) ELSE Oldest(Entries)

\* The entry to overwrite.  victim returns nil for one that holds the very
\* prompt, after touching it.
Victim(tokens, shared) ==
    LET ends == {e \in Entries : Ends(e, tokens, shared)}
        conversations == {e \in Entries : ~entry[e].shared}
    IN  IF ends # {} THEN First(ends)
        ELSE Oldest(IF load.exact /\ conversations # {} THEN conversations ELSE Entries)

\* Wrong: the entry's sequence is not emptied first.
PutOver(seq, tokens, shared) ==
    IF load.entries = 0 \/ Len(tokens) < MinMatch
    THEN UNCHANGED <<cache, pool>>
    ELSE LET e == Victim(tokens, shared)
         IN  /\ recent' = Touched(e)
             /\ cache' = Share(cache, seq, SeqOf(e), Len(tokens))
             /\ entry' = [entry EXCEPT ![e] = [tokens |-> tokens, shared |-> shared]]

\* put: what is now cached, and the pool.
Put(seq, tokens, shared) ==
    IF load.entries = 0 \/ Len(tokens) < MinMatch
    THEN UNCHANGED <<cache, pool>>
    ELSE LET e == Victim(tokens, shared)
         IN  /\ recent' = Touched(e)
             /\ IF entry[e].tokens = tokens
                THEN UNCHANGED <<cache, entry>>
                ELSE /\ cache' = Share(Forget(cache, SeqOf(e)), seq, SeqOf(e), Len(tokens))
                     /\ entry' = [entry EXCEPT ![e] = [tokens |-> tokens, shared |-> shared]]

----------------------------------------------------------------------------
(* Requests come, move and go.                                             *)

\* Slots the decode that landed has something for: a prompt to pool, logits.
Pending == {i \in Busy : slot[i].publish # <<>> \/ slot[i].logits}

Between == phase = "admit" /\ Pending = {}

\* Where an exact pool takes this prompt: at the end of the system prompt and
\* of the conversation so far.
Checkpoints(p, reused) ==
    LET worth(n) == n > reused /\ n >= MinMatch
        system == IF worth(p.system) THEN <<[pos |-> p.system, shared |-> TRUE]>> ELSE <<>>
    IN  IF worth(p.turn) /\ (system = <<>> \/ p.turn > p.system)
        THEN Append(system, [pos |-> p.turn, shared |-> FALSE])
        ELSE system

WholeOnly == load.entries > 0 /\ load.exact

\* startIn and occupy.
Admit(i, p) ==
    /\ Between /\ i \notin Busy /\ i = First(Slots \ Busy)
    /\ LET seq == slot[i].seq
           reused == Matched(p.tokens)
           lender == Lender(p.tokens)
           tokens == p.tokens \o p.resume
       IN  /\ IF reused > 0
              THEN /\ cache' = Share(Forget(cache, seq), SeqOf(lender), seq, reused)
                   /\ recent' = Touched(lender)
              ELSE cache' = Forget(cache, seq) /\ UNCHANGED recent
           /\ slot' = [slot EXCEPT ![i] =
                [Free(seq) EXCEPT !.job = TRUE, !.prompt = tokens, !.past = reused,
                                  !.maxGen = IF p.budget > 0 THEN p.budget ELSE PerSeq - Len(tokens),
                                  !.points = IF WholeOnly THEN Checkpoints(p, reused) ELSE <<>>]]
    /\ UNCHANGED <<load, entry, phase>>

\* Nobody is waiting, or every slot is taken.
Admitted ==
    /\ Between /\ Busy # {}
    /\ phase' = IF load.entries = 0 THEN "compact" ELSE "step"
    /\ UNCHANGED <<load, cache, slot, pool>>

\* Without a pool the highest slot in use moves into the lowest free one, until
\* there is no gap.
Gap == \E free \in Slots \ Busy, last \in Busy : free < last
Compact ==
    /\ phase = "compact"
    /\ IF Gap
       THEN LET free == First(Slots \ Busy)
                last == Largest(Busy)
                from == slot[last]
                to == slot[free]
            IN  /\ cache' = Move(cache, from.seq, to.seq)
                /\ slot' = [slot EXCEPT ![free] = [from EXCEPT !.seq = to.seq],
                                        ![last] = [to EXCEPT !.seq = from.seq]]
                /\ UNCHANGED phase
       ELSE phase' = "step" /\ UNCHANGED <<cache, slot>>
    /\ UNCHANGED <<load, pool>>

\* Wrong: what a reply held stays until its slot is given again.
ReleasedLater(S) ==
    /\ slot' = [i \in Slots |-> IF i \in S THEN Free(slot[i].seq) ELSE slot[i]]
    /\ UNCHANGED cache

\* release, of each of S.
Released(S) ==
    /\ cache' = [s \in Seqs |-> IF \E i \in S : slot[i].seq = s THEN Forget(cache, s)[s] ELSE cache[s]]
    /\ slot' = [i \in Slots |-> IF i \in S THEN Free(slot[i].seq) ELSE slot[i]]

\* A step ends the replies nobody waits for, and those that took too long.
Cancel(i) ==
    /\ phase = "step" /\ i \in Busy
    /\ Released({i})
    /\ UNCHANGED <<load, pool, phase>>

----------------------------------------------------------------------------
(* A step: drafts, one batch, and what comes of it.                        *)

\* draftsEach.
Each ==
    LET n == Cardinality(Generating)
    IN  IF n > DraftingMost THEN 0
        ELSE IF DraftPass \div n > 2 THEN DraftPass \div n - 1 ELSE 1

\* Wrong: the token that is read anyway takes no room.
AllowanceLoose(i) ==
    Smaller(PerSeq - slot[i].past, slot[i].maxGen - Len(slot[i].reply))

\* allowance: what still fits the context and the budget after the token read.
Allowance(i) ==
    Smaller(PerSeq - slot[i].past - 1, slot[i].maxGen - Len(slot[i].reply) - 1)

\* How many tokens propose may draft for a reply.
Drafts(i) ==
    LET c == cache[slot[i].seq]
    IN  IF Drafting /\ c.tracked /\ c.upTo = slot[i].past
        THEN Smaller(Smaller(Each, load.drafts), Allowance(i)) ELSE 0

\* Wrong: a batch runs over a checkpoint.
ReachEnd(i) == Len(slot[i].prompt)

\* How far a prompt may be read in one batch: to its next checkpoint.
Reach(i) ==
    IF slot[i].points = <<>> THEN Len(slot[i].prompt) ELSE slot[i].points[1].pos

\* What the batch may hold of a slot: a reply's next token and its drafts, or
\* nothing when there is no room left; a piece of a prompt.
Pieces(i) ==
    IF i \in Generating
    THEN {[drafts |-> <<>>, n |-> 0]}
         \cup {[drafts |-> d, n |-> Len(d) + 1] : d \in UNION {[1 .. k -> Tokens] : k \in 0 .. Drafts(i)}}
    ELSE {[drafts |-> <<>>, n |-> n] : n \in 0 .. Reach(i) - slot[i].past}

Batches ==
    {b \in [Busy -> UNION {Pieces(i) : i \in Busy}] :
        (\A i \in Busy : b[i] \in Pieces(i)) /\ (\E i \in Busy : b[i].n > 0)}

\* The text a slot stands on; one that writes has all of it cached but the end.
Written(i) == slot[i].prompt \o slot[i].reply

Piece(i, b) == SubSeq(Written(i) \o b[i].drafts, slot[i].past + 1, slot[i].past + b[i].n)

\* addDecode and addPrefill.
Read(i, b) ==
    LET sl == slot[i]
        past == sl.past + b[i].n
        atPoint == sl.points # <<>> /\ sl.points[1].pos = past
        ends == b[i].n > 0 /\ past >= Len(sl.prompt)
    IN  [sl EXCEPT !.past = past, !.drafts = b[i].drafts, !.logits = ends,
                   !.points = IF atPoint THEN Tail(@) ELSE @,
                   !.publish =
                       IF atPoint THEN <<sl.points[1]>>
                       ELSE IF ends /\ i \notin Generating /\ ~WholeOnly
                       THEN <<[pos |-> past, shared |-> FALSE]>> ELSE <<>>]

\* clear: a full cache is the pool's to give back.
Given(clear) ==
    IF clear THEN [s \in Seqs |-> IF \E e \in Filled : s = SeqOf(e) THEN Forget(cache, s)[s] ELSE cache[s]]
    ELSE cache

Cleared(clear) ==
    /\ clear => MayFail /\ Filled # {}
    /\ entry' = IF clear THEN [e \in Entries |-> Empty] ELSE entry
    /\ UNCHANGED recent

\* Slots the head stops following: those whose drafts it could not take back,
\* all of a batch it could not read, and all that write when they are many.
Lost(b) ==
    LET drafted == {i \in Busy : b[i].drafts # <<>>}
        failed == IF MayFail /\ Drafting THEN SUBSET drafted \cup {{i \in Busy : b[i].n > 0}} ELSE {{}}
        many == IF Generating # {} /\ Each = 0 THEN Generating ELSE {}
    IN  {f \cup many : f \in failed}

\* The model reads the batch, and the head after it (catchUp).
Caught(c, i, b, lost) ==
    LET read == Piece(i, b)
        q == c[slot[i].seq]
    IN  IF ~Drafting \/ ~q.tracked \/ i \in lost
        THEN [q EXCEPT !.cells = @ \o read, !.tracked = @ /\ ~(Drafting /\ i \in lost)]
        ELSE [q EXCEPT !.cells = @ \o read, !.head = @ \o read,
                       !.upTo = IF read = <<>> THEN @ ELSE slot[i].past + b[i].n]

Step ==
    /\ phase = "step" /\ phase' = "admit" /\ UNCHANGED load
    /\ \E b \in Batches, clear \in BOOLEAN :
        /\ Cleared(clear)
        /\ \E lost \in Lost(b) :
            cache' = [s \in Seqs |->
                        IF \E i \in Busy : slot[i].seq = s
                        THEN Caught(Given(clear), CHOOSE i \in Busy : slot[i].seq = s, b, lost)
                        ELSE Given(clear)[s]]
        /\ slot' = [i \in Slots |-> IF i \in Busy THEN Read(i, b) ELSE slot[i]]

\* Every reply it had was cancelled.
StepEmpty ==
    /\ phase = "step" /\ Busy = {} /\ phase' = "admit"
    /\ UNCHANGED <<load, cache, slot, pool>>

\* A decode failure is not attributable to one slot: all of them end.
StepFails ==
    /\ MayFail /\ phase = "step" /\ Busy # {} /\ phase' = "admit"
    /\ \E clear \in BOOLEAN :
        /\ Cleared(clear)
        /\ cache' = [s \in Seqs |-> IF \E i \in Busy : slot[i].seq = s THEN Blank ELSE Given(clear)[s]]
    /\ slot' = [i \in Slots |-> Free(slot[i].seq)]
    /\ UNCHANGED load

Turn(i) == Pending # {} /\ i = First(Pending)

\* A prompt read as far as a place it is pooled at.
Publish(i) ==
    /\ Turn(i) /\ slot[i].publish # <<>>
    /\ LET at == slot[i].publish[1] IN Put(slot[i].seq, Upto(slot[i].prompt, at.pos), at.shared)
    /\ slot' = [slot EXCEPT ![i].publish = <<>>]
    /\ UNCHANGED <<load, phase>>

Harvesting(i) == Turn(i) /\ slot[i].publish = <<>>

\* The model ends the reply, or its budget or context does (take).
Finish(i) ==
    /\ Harvesting(i)
    /\ Released({i})
    /\ UNCHANGED <<load, pool, phase>>

\* The reply goes on with the first m drafts and what the model wrote after.
GoesOn(i, m, tok) ==
    LET sl == slot[i]
        past == sl.past - Len(sl.drafts) + m   \* the last token kept is before this
        reply == sl.reply \o Upto(sl.drafts, m) \o <<tok>>
        rejected == m < Len(sl.drafts)
    IN  /\ Harvesting(i) /\ m <= Len(sl.drafts)
        /\ rejected => tok # sl.drafts[m + 1]
        /\ Len(reply) < sl.maxGen /\ past < PerSeq
        /\ IF rejected
           THEN \E may \in {TRUE, ~MayFail} :
                    cache' = Trim(Settle(cache, sl.seq, past, may), sl.seq, past)
           ELSE UNCHANGED cache
        /\ slot' = [slot EXCEPT ![i] = [sl EXCEPT !.past = past, !.reply = reply, !.drafts = <<>>,
                                                  !.logits = FALSE]]
        /\ UNCHANGED <<load, pool, phase>>

\* The model cannot go back over rejected drafts: the reply ends.
CannotGoBack(i) ==
    /\ MayFail /\ Harvesting(i) /\ slot[i].drafts # <<>>
    /\ Released({i})
    /\ UNCHANGED <<load, pool, phase>>

Next ==
    \/ \E i \in Slots, p \in load.prompts : Admit(i, p)
    \/ Admitted \/ Compact \/ Step \/ StepEmpty \/ StepFails
    \/ \E i \in Slots : Cancel(i) \/ Publish(i) \/ Finish(i) \/ CannotGoBack(i)
    \/ \E i \in Slots, m \in 0 .. load.drafts, tok \in Tokens : GoesOn(i, m, tok)

Spec == Init /\ [][Next]_vars

----------------------------------------------------------------------------
(* What has to hold.                                                       *)

\* Every variable holds values of its type; no slot is past its end.
TypeOK ==
    /\ load \in Loads
    /\ \A s \in Seqs : /\ cache[s].cells \in Seq(Tokens) /\ cache[s].head \in Seq(Tokens)
                       /\ cache[s].upTo \in 0 .. PerSeq /\ cache[s].tracked \in BOOLEAN
    /\ \A i \in Slots : /\ slot[i].past \in 0 .. PerSeq /\ slot[i].seq \in Slots
                        /\ slot[i].prompt \in Seq(Tokens) /\ slot[i].reply \in Seq(Tokens)
                        /\ slot[i].drafts \in Seq(Tokens)
    /\ \A e \in Entries : entry[e].tokens \in Seq(Tokens) /\ entry[e].shared \in BOOLEAN
    /\ recent \in Seq(Entries) /\ phase \in {"admit", "compact", "step"}

\* The cells of a reply are its own text as far as it was read and no other's:
\* part of the prompt while that is read, then all but the token to read next,
\* whatever was adopted, drafted, rejected or moved (slot.nPast,
\* scheduler.harvest).
CellsAreText ==
    \A i \in Busy :
        LET text == Written(i) \o slot[i].drafts
        IN  /\ cache[slot[i].seq].cells = Upto(text, slot[i].past)
            /\ IF slot[i].logits THEN slot[i].past = Len(text)
               ELSE IF slot[i].reply = <<>> THEN slot[i].past < Len(slot[i].prompt)
               ELSE slot[i].past = Len(text) - 1

\* A pool entry's cells are exactly the prompt it is said to hold, so that what
\* is adopted from it is what the prompt would have been read to
\* (prefixEntry).
EntriesAreText == \A e \in Entries : cache[SeqOf(e)].cells = entry[e].tokens

\* What the head is believed to follow it holds as the model does, slots' and
\* pool entries' alike, after failed passes, rejected drafts and adoption
\* (drafter: "that cache mirrors the model's").
HeadFollows ==
    Drafting => \A s \in Seqs :
        cache[s].tracked => cache[s].head = cache[s].cells /\ cache[s].upTo = Len(cache[s].cells)

\* Drafts never take a slot past what it holds, nor a reply past its budget
\* (scheduler.allowance, take).
WithinContext ==
    \A i \in Busy : /\ Len(cache[slot[i].seq].cells) <= PerSeq
                    /\ Len(slot[i].reply) < slot[i].maxGen \/ slot[i].reply = <<>>
                    /\ slot[i].drafts # <<>> => Len(slot[i].reply \o slot[i].drafts) < slot[i].maxGen

\* A slot without a reply holds no cells of either cache, wherever the reply
\* was moved or however it ended: cells that stay are room nobody gets back
\* (release, compact).
IdleHoldsNothing == \A i \in Slots \ Busy : cache[slot[i].seq] = Blank

\* Prefill never passes a checkpoint without pooling the prompt there: past it,
\* recurrent state is of no use to the next turn (slot.checkpoints).
PointsAhead ==
    \A i \in Busy : /\ \A k \in DOMAIN slot[i].points : slot[i].points[k].pos > slot[i].past
                    /\ WholeOnly /\ slot[i].publish # <<>> => slot[i].publish[1].pos = slot[i].past

\* An exact pool gives up a system prompt, which every conversation of its agent
\* opens with, only to a longer one that continues it, to a full cache, or when
\* it holds nothing but system prompts (victim).
Systems == {entry[e].tokens : e \in {f \in Entries : entry[f].shared}}
SystemPromptsStay ==
    [][load.exact /\ Filled' # {} =>
          \A p \in Systems : \/ \E q \in Systems' : Upto(q, Len(p)) = p
                             \/ \A e \in Entries : entry[e].shared]_vars


\* What a context holds is text: of replies, of pool entries, of nobody who left.
CachesAreText == TypeOK /\ CellsAreText /\ EntriesAreText /\ IdleHoldsNothing /\ PointsAhead
\* What drafting adds stays true to the model's cache and within its bounds.
DraftsFollow == HeadFollows /\ WithinContext
=============================================================================
