-------------------------- MODULE Conversation --------------------------
(***************************************************************************)
(* A client's conversation, turn after turn (internal/server: server.go,   *)
(* media.go, anthropic.go, responses.go; internal/engine: fit.go,          *)
(* scheduler.go): each request carries all of it again, in its dialect's   *)
(* shape; the server makes chat turns of it, and the scheduler drops the   *)
(* oldest of them until the prompt fits its slot - unless it shows         *)
(* pictures: such a conversation is read whole or not at all.              *)
(*                                                                         *)
(* What is said is a sequence of pieces [kind, id, size].  A piece keeps   *)
(* its identity through every shape, which is how it can be missed; a      *)
(* result has the id of the call it answers.  A prompt's tokens are its    *)
(* pieces' sizes and one for each turn the template writes.                *)
(***************************************************************************)
EXTENDS Integers, Sequences, SequencesExt

CONSTANTS
    Exchanges,   \* what may be said between two requests: sequences of [kind, size]
    Openings,    \* and before the first
    Slots,       \* what a request may run in: records [ctx, maxTokens, resume, projector]
    MaxRequests  \* requests of one conversation

Kinds == {"system", "user", "image", "badImage", "document",
          "said", "thought", "hosted", "call", "result"}

ASSUME ConversationAssumption ==
    /\ Exchanges \cup Openings \subseteq Seq([kind : Kinds, size : Nat \ {0}])
    /\ Slots \subseteq [ctx : Nat \ {0}, maxTokens : Nat, resume : Nat, projector : BOOLEAN]
    /\ MaxRequests \in Nat

VARIABLES
    dialect,   \* chat (Ollama's and OpenAI's), messages, responses
    slot,      \* what the requests run in
    history,   \* all that was said
    requests,  \* requests made
    turns,     \* the last one's turns
    kept,      \* those its prompt was made of
    verdict    \* whole, cut, tooLong, or refused: a picture nobody can read

vars == <<dialect, slot, history, requests, turns, kept, verdict>>

-----------------------------------------------------------------------------
(* What the client sends.                                                  *)

Speaker(p) == CASE p.kind \in {"said", "thought", "hosted", "call"} -> "assistant"
                [] p.kind = "system" -> "system"
                [] OTHER -> "user"

\* Pieces in a row of one speaker are a message: [role, blocks].
Grouped(h) ==
    FoldLeft(LAMBDA ms, p :
                IF ms # <<>> /\ Last(ms).role = Speaker(p) /\ p.kind # "system"
                THEN [ms EXCEPT ![Len(ms)].blocks = Append(@, p)]
                ELSE Append(ms, [role |-> Speaker(p), blocks |-> <<p>>]),
             <<>>, h)

Of(blocks, kinds) == SelectSeq(blocks, LAMBDA p : p.kind \in kinds)
Turn(role, text, calls) == [role |-> role, text |-> text, calls |-> calls, thinking |-> <<>>]
Readable(h) == \A i \in 1..Len(h) : h[i].kind # "badImage"

\* The system prompt ahead of a conversation, apart from it.
Leading(h) == CHOOSE n \in 0..Len(h) : /\ \A i \in 1..n : h[i].kind = "system"
                                       /\ n < Len(h) => h[n + 1].kind # "system"
System(h) == SubSeq(h, 1, Leading(h))
Spoken(h) == SubSeq(h, Leading(h) + 1, Len(h))

-----------------------------------------------------------------------------
(* The turns the server makes of it.                                       *)

\* Ollama's and OpenAI's messages are turns: an assistant's has its calls, a
\* result one of its own, a user's its pictures in the text where they were.
\* Only they carry the model's thinking, which few templates write.
ChatTurns(m) ==
    IF m.role # "user"
    THEN <<[Turn(m.role, Of(m.blocks, {"said", "system"}), Of(m.blocks, {"call"}))
            EXCEPT !.thinking = Of(m.blocks, {"thought"})]>>
    ELSE LET results == Of(m.blocks, {"result"})
             text == Of(m.blocks, {"user", "image", "document"})
         IN [i \in 1..Len(results) |-> Turn("tool", <<results[i]>>, <<>>)]
            \o (IF text = <<>> THEN <<>> ELSE <<Turn("user", text, <<>>)>>)
ToChatMessages(h) == LET ms == Grouped(h) IN FlattenSeq([i \in 1..Len(ms) |-> ChatTurns(ms[i])])

\* Anthropic's put results inside a user's message.  What was written before a
\* result is flushed as a turn ahead of it; an assistant's thinking is dropped,
\* and its message if that was all.
AnthropicAssistant(blocks) ==
    LET turn == Turn("assistant", Of(blocks, {"said"}), Of(blocks, {"call"}))
    IN IF turn.text = <<>> /\ turn.calls = <<>> THEN <<>> ELSE <<turn>>
Flush(role, s) == IF s.text = <<>> THEN s
                  ELSE [out |-> Append(s.out, Turn(role, s.text, <<>>)), text |-> <<>>]
\* Wrong: what follows the last result is never flushed.
AnthropicOtherUnflushed(role, blocks) ==
    FoldLeft(LAMBDA s, p :
                IF p.kind = "result"
                THEN [Flush(role, s) EXCEPT !.out = Append(@, Turn("tool", <<p>>, <<>>))]
                ELSE [s EXCEPT !.text = Append(@, p)],
             [out |-> <<>>, text |-> <<>>], blocks).out
AnthropicOther(role, blocks) ==
    Flush(role, FoldLeft(LAMBDA s, p :
                            IF p.kind = "result"
                            THEN [Flush(role, s) EXCEPT !.out = Append(@, Turn("tool", <<p>>, <<>>))]
                            ELSE [s EXCEPT !.text = Append(@, p)],
                         [out |-> <<>>, text |-> <<>>], blocks)).out
AnthropicToChat(h) ==
    LET ms == Grouped(Spoken(h))
        system == IF System(h) = <<>> THEN <<>> ELSE <<Turn("system", System(h), <<>>)>>
    IN system \o FlattenSeq([i \in 1..Len(ms) |->
           IF ms[i].role = "assistant" THEN AnthropicAssistant(ms[i].blocks)
           ELSE AnthropicOther(ms[i].role, ms[i].blocks)])

\* The Responses dialect sends each piece as an item.  A call joins the turn
\* before it if that is the assistant's; reasoning and hosted tools are no turns.
\* Wrong: a developer's message keeps a role no template knows.
ResponsesItemDeveloper(out, p) ==
    Append(out, Turn(IF p.kind = "system" THEN "developer" ELSE Speaker(p), <<p>>, <<>>))
ResponsesItem(out, p) ==
    CASE p.kind = "call" ->
            IF out # <<>> /\ Last(out).role = "assistant"
            THEN [out EXCEPT ![Len(out)].calls = Append(@, p)]
            ELSE Append(out, Turn("assistant", <<>>, <<p>>))
      [] p.kind = "result" -> Append(out, Turn("tool", <<p>>, <<>>))
      [] p.kind \in {"thought", "hosted"} -> out
      [] OTHER -> Append(out, Turn(Speaker(p), <<p>>, <<>>))
ResponsesToChat(h) == FoldLeft(ResponsesItem, <<>>, h)

ToChat(h) == CASE dialect = "chat" -> ToChatMessages(h)
               [] dialect = "messages" -> AnthropicToChat(h)
               [] dialect = "responses" -> ResponsesToChat(h)

-----------------------------------------------------------------------------
(* Fitting.                                                                *)

Sum(s) == FoldLeft(LAMBDA n, p : n + p.size, 0, s)
MessageSize(m) == Sum(m.text) + Sum(m.calls)
Tokens(ms) == FoldLeft(LAMBDA n, m : n + 1 + MessageSize(m), 0, ms)

\* Messages that go together, by their places: a result rides with its call,
\* text with the results it came with, an answer with what it answers.
\* Wrong: a result is a turn of its own.
RidesAlone(m, groups, prev) ==
    /\ groups # <<>>
    /\ (m.role = "user" /\ prev = "tool") \/ (m.role = "assistant" /\ m.calls = <<>>)
Rides(m, groups, prev) ==
    /\ groups # <<>>
    /\ \/ m.role = "tool"
       \/ m.role = "user" /\ prev = "tool"
       \/ m.role = "assistant" /\ m.calls = <<>>
Groups(ms) ==
    FoldLeft(LAMBDA g, i :
                IF ms[i].role = "system" THEN g
                ELSE [groups |-> IF Rides(ms[i], g.groups, g.prev)
                                 THEN [g.groups EXCEPT ![Len(g.groups)] = Append(@, i)]
                                 ELSE Append(g.groups, <<i>>),
                      prev |-> ms[i].role],
             [groups |-> <<>>, prev |-> ""], [i \in 1..Len(ms) |-> i]).groups

\* The request is the newest group a person started, or failing that the newest
\* with anything a person wrote; 0 is none.
RequestOf(ms, groups) ==
    LET started == {t \in 1..Len(groups) : ms[groups[t][1]].role = "user"}
        wrote == {t \in 1..Len(groups) :
                    \E j \in 1..Len(groups[t]) : ms[groups[t][j]].role = "user"}
    IN Max({0} \cup IF started # {} THEN started ELSE wrote)

\* The groups that may go, in the order they do: those before the request, then
\* those after it, never it or the newest.
\* Wrong: the oldest first, whatever they are.
DropOldest(ms) == LET groups == Groups(ms) IN SubSeq(groups, 1, Len(groups) - 1)
DropOrder(ms) ==
    LET groups == Groups(ms)
        newest == Len(groups)
        request == RequestOf(ms, groups)
        places(from, to) == SelectSeq([t \in 1..newest |-> t],
                                      LAMBDA t : from <= t /\ t <= to /\ t # request /\ t # newest)
        order == IF request = 0 THEN places(1, newest)
                 ELSE places(1, request) \o places(request + 1, newest)
    IN [k \in 1..Len(order) |-> groups[order[k]]]

GroupSize(ms, group) == FoldLeft(LAMBDA n, i : n + MessageSize(ms[i]), 0, group)

\* How many groups may go together: where the sizes first reach each multiple
\* of chunk, and all.
\* Wrong: the multiples are counted from the newest turn.
CutPointsFromNewest(ms, order, chunk) ==
    LET left(g) == FoldLeft(LAMBDA n, k : n + GroupSize(ms, order[k]), 0, [k \in 1..(Len(order) - g) |-> g + k])
    IN SelectSeq([g \in 1..Len(order) |-> g],
                 LAMBDA g : g = Len(order) \/ left(g) \div chunk # left(g - 1) \div chunk)
CutPoints(ms, order, chunk) ==
    FoldLeft(LAMBDA c, g :
                LET total == c.total + GroupSize(ms, order[g]) IN
                IF total >= c.next \/ g = Len(order)
                THEN [cuts |-> Append(c.cuts, g), total |-> total, next |-> chunk * (total \div chunk + 1)]
                ELSE [c EXCEPT !.total = total],
             [cuts |-> <<>>, total |-> 0, next |-> chunk], [g \in 1..Len(order) |-> g]).cuts

Without(ms, order, n) ==
    LET gone == UNION {ToSet(order[g]) : g \in 1..n}
        stay == SelectSeq([i \in 1..Len(ms) |-> i], LAMBDA i : i \notin gone)
    IN [k \in 1..Len(stay) |-> ms[stay[k]]]

\* The first cut whose prompt is within bound, by halving; 0 if none is.
Smallest(ms, order, cuts, bound) ==
    LET fits(c) == Tokens(Without(ms, order, cuts[c])) <= bound
        n == Len(cuts)
        halve[lo \in 1..n, hi \in 1..n] ==
            LET mid == (lo + hi) \div 2
            IN IF lo >= hi THEN lo ELSE IF fits(mid) THEN halve[lo, mid] ELSE halve[mid + 1, hi]
    IN IF n = 0 \/ ~fits(n) THEN 0 ELSE halve[1, n]

AtLeast(a, b) == IF a > b THEN a ELSE b
ReplyRoom(s) == IF s.maxTokens > 0 THEN Min({s.ctx \div 8, s.maxTokens}) ELSE s.ctx \div 8
Limit(s) == s.ctx - s.resume
Room(s) == Limit(s) - ReplyRoom(s)

Fitted(ms, verd) == [kept |-> ms, verdict |-> verd]
FitMessages(ms, s) ==
    LET order == DropOrder(ms)
        cuts == CutPoints(ms, order, AtLeast(Room(s) \div 4, 1))
        inRoom == Smallest(ms, order, cuts, Room(s))
        inLimit == Smallest(ms, order, cuts, Limit(s) - 1)
    IN CASE Tokens(ms) <= Room(s) -> Fitted(ms, "whole")
         [] Tokens(ms) > Room(s) /\ inRoom > 0 -> Fitted(Without(ms, order, cuts[inRoom]), "cut")
         [] OTHER -> IF Tokens(ms) < Limit(s) THEN Fitted(ms, "whole")
                     ELSE IF inLimit > 0 THEN Fitted(Without(ms, order, cuts[inLimit]), "cut")
                     ELSE Fitted(<<>>, "tooLong")

-----------------------------------------------------------------------------
(* Pictures.                                                               *)

ShowsPictures(ms) == \E i \in 1..Len(ms) : Of(ms[i].text, {"image"}) # <<>>

\* Wrong: a prompt with pictures is fitted like a text one.
StartMediaFitted(ms, s) == IF s.projector THEN FitMessages(ms, s) ELSE Fitted(<<>>, "refused")

\* A prompt with pictures is read by the model's projector, if it has one, and
\* whole: nothing is dropped to make room for the reply.
StartMedia(ms, s) ==
    CASE ~s.projector -> Fitted(<<>>, "refused")
      [] s.projector /\ Tokens(ms) <= Room(s) -> Fitted(ms, "whole")
      [] OTHER -> Fitted(<<>>, "tooLong")

Started(ms, s) == IF ShowsPictures(ms) THEN StartMedia(ms, s) ELSE FitMessages(ms, s)

-----------------------------------------------------------------------------
\* The pieces of an exchange get ids, a result its call's.
Numbered(h, exchange) ==
    FoldLeft(LAMBDA all, p :
                LET open == SelectSeq(all, LAMBDA c : c.kind = "call" /\ ~\E i \in 1..Len(all) :
                                                         all[i].kind = "result" /\ all[i].id = c.id)
                IN Append(all, [kind |-> p.kind, size |-> p.size,
                                id |-> IF p.kind = "result" /\ open # <<>> THEN open[1].id ELSE Len(all) + 1]),
             h, exchange)

Asked(h) ==
    /\ history' = h /\ requests' = requests + 1
    /\ IF ~Readable(h) THEN turns' = <<>> /\ kept' = <<>> /\ verdict' = "refused"
       ELSE LET ms == ToChat(h)
                fit == Started(ms, slot)
            IN turns' = ms /\ kept' = fit.kept /\ verdict' = fit.verdict
    /\ UNCHANGED <<dialect, slot>>

Init ==
    /\ dialect \in {"chat", "messages", "responses"} /\ slot \in Slots
    /\ history = <<>> /\ requests = 0 /\ turns = <<>> /\ kept = <<>> /\ verdict = "whole"

\* The client opens the conversation, and asks again with what was said since.
Opens == requests = 0 /\ \E o \in Openings : Asked(Numbered(<<>>, o))
GoesOn == requests \in 1..(MaxRequests - 1) /\ \E e \in Exchanges : Asked(Numbered(history, e))

Next == Opens \/ GoesOn
Spec == Init /\ [][Next]_vars

-----------------------------------------------------------------------------
(* Properties.                                                             *)

\* Every variable holds a value of its kind.
TypeOK ==
    /\ history \in Seq([kind : Kinds, size : Nat, id : Nat])
    /\ \A ms \in {turns, kept} : \A i \in 1..Len(ms) :
          ms[i].role \in {"system", "user", "assistant", "tool"}
    /\ requests \in 0..MaxRequests
    /\ verdict \in {"whole", "cut", "tooLong", "refused"}

PiecesOf(ms) == FlattenSeq([i \in 1..Len(ms) |-> ms[i].text \o ms[i].calls])
ReadyForModel == SelectSeq(history, LAMBDA p : p.kind \notin {"thought", "hosted"})

\* The turns say all that was said, once, in the order it was said - but for
\* the model's own reasoning and tools that ran elsewhere - whichever dialect
\* said it (toChatMessages, anthropicToChat, responsesToChat).
NothingLost == Readable(history) => PiecesOf(turns) = ReadyForModel

Answered(ms, i) == \E j \in 1..(i - 1) : /\ \E k \in 1..Len(ms[j].calls) : ms[j].calls[k].id = ms[i].text[1].id
                                         /\ \A k \in (j + 1)..(i - 1) : ms[k].role \in {"tool", "system"}
\* A call's results come right after it, in the turns and in what is kept of
\* them, and none of the two is kept without the other (dropOrder).
ResultsWithCalls ==
    /\ \A ms \in {turns, kept} : \A i \in 1..Len(ms) : ms[i].role = "tool" => Answered(ms, i)
    /\ verdict = "cut" =>
          LET all == ToSet(PiecesOf(turns))
              stay == ToSet(PiecesOf(kept))
          IN \A p \in {c \in all : c.kind \in {"call", "result"}}, q \in all :
                q.id = p.id => (p \in stay <=> q \in stay)

\* A prompt that is cut is in order, has every system turn, the newest turn and
\* the newest request - of the user turns that ride with no tool result
\* (fit.go:22) - fits with room to reply or at all, and was not cut while it
\* fitted; one refused does not fit with all that may go gone.
RidesWithResult(ms, i) == \E j \in 1..(i - 1) : /\ ms[j].role = "tool"
                                                /\ \A k \in (j + 1)..(i - 1) : ms[k].role = "system"
Requested(ms) == {i \in 1..Len(ms) : ms[i].role = "user" /\ ~RidesWithResult(ms, i)}
CutWell ==
    /\ \A i \in 1..Len(turns) : turns[i].role = "system" /\ verdict = "cut" => turns[i] \in ToSet(kept)
    /\ verdict = "cut" =>
          /\ kept # <<>> /\ turns # <<>> /\ Last(kept) = Last(turns)
          /\ Requested(turns) # {} => turns[Max(Requested(turns))] \in ToSet(kept)
          /\ LET stay == ToSet(PiecesOf(kept))
             IN SelectSeq(PiecesOf(turns), LAMBDA p : p \in stay) = PiecesOf(kept)
          /\ Tokens(kept) < Limit(slot) \/ Tokens(kept) <= Room(slot)
          /\ Tokens(turns) > Room(slot)
    /\ verdict = "whole" /\ requests > 0 => Tokens(turns) <= Room(slot) \/ Tokens(turns) < Limit(slot)
    /\ verdict = "tooLong" /\ ~ShowsPictures(turns) =>
          Tokens(Without(turns, DropOrder(turns), Len(DropOrder(turns)))) >= Limit(slot)

\* A conversation with pictures is never cut, whatever it was before the first
\* of them came: with room to reply it is read whole, and without it refused
\* (media.go:43, docs/serving.md:398).
PicturesWhole ==
    ShowsPictures(turns) /\ slot.projector =>
        \/ verdict = "whole" /\ kept = turns /\ Tokens(kept) + ReplyRoom(slot) <= Limit(slot)
        \/ verdict = "tooLong" /\ Tokens(turns) + ReplyRoom(slot) > Limit(slot)

\* What the model is given is a conversation still (fit.go).
KeptWell == TypeOK /\ CutWell /\ ResultsWithCalls /\ PicturesWhole

\* A conversation that grows past a cut can be cut at the same place again, for
\* as long as the request is the same, and before the request whichever is next:
\* what the pool keeps of a prompt is the beginning of the next (cutPoints).  Once
\* a picture came nothing is cut, and the pool keeps nothing.
Cuts(ms) == LET order == DropOrder(ms)
            IN {UNION {ToSet(order[g]) : g \in 1..n} :
                   n \in ToSet(CutPoints(ms, order, AtLeast(Room(slot) \div 4, 1))) \ {Len(order)}}
CutsStayPut == [][
    turns # <<>> /\ ~ShowsPictures(turns') =>
        LET groups == Groups(turns)
            request == RequestOf(turns, groups)
            older == UNION {ToSet(groups[t]) : t \in 1..(request - 1)}
            next == Cuts(turns')
        IN \A cut \in Cuts(turns) :
              (cut \subseteq older \/ request = RequestOf(turns', Groups(turns'))) => cut \in next]_vars

=============================================================================
