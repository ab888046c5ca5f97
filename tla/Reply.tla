------------------------------ MODULE Reply ------------------------------
(***************************************************************************)
(* One request from its handler to the tokens of its reply and back        *)
(* (internal/server: server.go, generate.go, anthropic.go, responses.go,   *)
(* busy.go, retry.go; internal/engine: engine.go, scheduler.go): the slot  *)
(* writes tokens, sends what is whole characters to the handler through a  *)
(* buffer and ends; the handler splits, shows and frames it in one of four *)
(* dialects; a backend that died is replaced and the reply goes on.        *)
(*                                                                         *)
(* Where a request waits is Scheduler's matter, what a reload does to the  *)
(* models Residency's: here an attempt is started, refused or lost.        *)
(***************************************************************************)
EXTENDS ReplyText

CONSTANTS
    Requests,      \* records [dialect, stream, format, tools, show, opens,
                   \* budget, faults, writes]: what is asked, of which model,
                   \* what may happen, and what the model would write
    MaxPiece,      \* symbols in a token at most
    MaxFragBuffer, \* maxFragBuffer: fragments queued of a reply with no budget
    Spare,         \* what a buffer has beyond the reply
    MaxReloads     \* maxReloads

Dialects == {"ollama", "openai", "messages", "responses"}
Refusals == {"busy", "stale", "tooLong", "picture"}
Recoverable == {"notStarted", "interrupted"}
Faults == Refusals \cup Recoverable \cup {"load", "late", "full", "unserved", "gone"}

ASSUME RequestsAssumption ==
    Requests \subseteq [dialect : Dialects, stream : BOOLEAN, format : {"none", "hermes", "dsml"},
                        tools : BOOLEAN, show : BOOLEAN, opens : BOOLEAN, budget : Nat,
                        faults : SUBSET Faults, writes : Text]
ASSUME BoundsAssumption ==
    MaxPiece \in Nat \ {0} /\ MaxFragBuffer \in Nat /\ Spare \in Nat /\ MaxReloads \in Nat

VARIABLES
    request,   \* what is asked
    phase,     \* arrived, submitted, running, over (the attempt), ended
    slot,      \* out, emitted, nGen, maxGen
    frags,     \* the channel from the slot to ChatFull
    err,       \* what the attempt ended with, "" for nothing
    text,      \* what ChatFull received, of all attempts
    stats,     \* tokens, truncated, timeout: carried over
    reloads,   \* replacement models loaded
    gone,      \* the client went away
    split,     \* the handler's ThinkSplitter
    calls,     \* and CallSplitter
    wire       \* what the client was sent

attempt == <<slot, frags, err>>
handler == <<split, calls>>
vars == <<request, phase, slot, frags, err, text, stats, reloads, gone, split, calls, wire>>

NoSlot == [out |-> <<>>, emitted |-> 0, nGen |-> 0, maxGen |-> 0]
NoStats == [tokens |-> 0, truncated |-> FALSE, timeout |-> FALSE]
\* status is 0 until a header is written; thinking, content and calls are what
\* arrived, events the order of frames, equal ones in a row told once; open is
\* the block or item being streamed, item its text, output the items closed.
NoWire == [status |-> 0, thinking |-> <<>>, content |-> <<>>, calls |-> 0, finish |-> "",
           events |-> <<>>, open |-> "", index |-> 0, item |-> <<>>, output |-> <<>>]

Init ==
    /\ request \in Requests
    /\ phase = "arrived" /\ slot = NoSlot /\ frags = <<>> /\ err = ""
    /\ text = <<>> /\ stats = NoStats /\ reloads = 0 /\ gone = FALSE
    /\ split = NewThinkSplitter /\ calls = NewCallSplitter /\ wire = NoWire

May(fault) == fault \in request.faults

-----------------------------------------------------------------------------
(* Frames.                                                                 *)

Put(w, event) == IF w.events # <<>> /\ Last(w.events) = event THEN w
                 ELSE [w EXCEPT !.events = Append(@, event)]
Refuse(w, status) == [w EXCEPT !.status = status, !.finish = "error"]

\* The header is written with the first thing sent, and what a stream of the
\* dialect starts with.
Header(w) == [w EXCEPT !.status = 200]
OllamaBegin(w) == IF w.status # 0 THEN w ELSE Header(w)
OpenAIBegin(w) == IF w.status # 0 THEN w ELSE Put(Header(w), <<"start", 0>>)
MessagesBegin(w) == IF w.status # 0 THEN w ELSE Put(Header(w), <<"start", 0>>)
ResponsesBegin(w) ==
    IF w.status # 0 THEN w ELSE Put(Put(Header(w), <<"start", 0>>), <<"in progress", 0>>)

\* One fragment of an Ollama stream: thinking and content in one object.
OllamaEmit(w, thinking, content) ==
    IF content = <<>> /\ (thinking = <<>> \/ ~request.show) THEN w
    ELSE [Put(OllamaBegin(w), <<"delta", 0>>) EXCEPT
             !.content = @ \o content,
             !.thinking = IF request.show THEN @ \o thinking ELSE @]

\* ... of an OpenAI stream: a chunk each.
OpenAIEmit(w, thinking, content) ==
    LET shown == [w EXCEPT !.content = @ \o content,
                           !.thinking = IF request.show THEN @ \o thinking ELSE @]
    IN IF shown = w THEN w ELSE Put([OpenAIBegin(w) EXCEPT !.content = shown.content,
                                                     !.thinking = shown.thinking], <<"delta", 0>>)

\* Anthropic's stream is of blocks, each opened, written and closed in turn.
CloseBlock(w) == IF w.open = "" THEN w
                 ELSE [Put(w, <<"close", w.index>>) EXCEPT !.open = "", !.index = @ + 1]
StartBlock(w, kind) ==
    LET c == CloseBlock(w) IN [Put(c, <<"open", c.index>>) EXCEPT !.open = kind]
BlockDelta(w) == Put(w, <<"delta", w.index>>)

MessagesThinking(w, t) ==
    LET b == MessagesBegin(w) IN
    [BlockDelta(IF b.open = "thinking" THEN b ELSE StartBlock(b, "thinking")) EXCEPT !.thinking = @ \o t]

\* A text block does not start with the spaces a template leaves.
MessagesContent(w, t) ==
    IF w.open = "text" THEN [BlockDelta(w) EXCEPT !.content = @ \o t]
    ELSE IF TrimLeft(t) = <<>> THEN w
    ELSE [BlockDelta(StartBlock(MessagesBegin(w), "text")) EXCEPT !.content = @ \o TrimLeft(t)]

\* A Responses stream is of items, and keeps them for its last event.
CloseItem(w) ==
    IF w.open = "" THEN w
    ELSE [Put(w, <<"close", w.index>>) EXCEPT !.output = Append(@, <<w.open, w.item>>),
             !.open = "", !.item = <<>>, !.index = @ + 1]
AddItem(w, kind) == LET c == CloseItem(w) IN [Put(c, <<"open", c.index>>) EXCEPT !.open = kind]
ItemDelta(w, t) == [Put(w, <<"delta", w.index>>) EXCEPT !.item = @ \o t]

ResponsesThinking(w, t) ==
    LET b == ResponsesBegin(w) IN
    [ItemDelta(IF b.open = "reasoning" THEN b ELSE AddItem(b, "reasoning"), t) EXCEPT !.thinking = @ \o t]

ResponsesContent(w, t) ==
    IF w.open = "message" THEN [ItemDelta(w, t) EXCEPT !.content = @ \o t]
    ELSE IF TrimLeft(t) = <<>> THEN w
    ELSE [ItemDelta(AddItem(ResponsesBegin(w), "message"), TrimLeft(t)) EXCEPT !.content = @ \o TrimLeft(t)]

\* generate's emit: the reasoning, then the prose.
OnThinking(w, t) == IF request.dialect = "messages" THEN MessagesThinking(w, t) ELSE ResponsesThinking(w, t)
OnContent(w, t)  == IF request.dialect = "messages" THEN MessagesContent(w, t) ELSE ResponsesContent(w, t)
GenerateEmit(w, thinking, content) ==
    LET first == IF thinking = <<>> THEN w ELSE OnThinking(w, thinking)
    IN IF content = <<>> THEN first ELSE OnContent(first, content)

Emit(w, thinking, content) ==
    CASE request.dialect = "ollama" -> OllamaEmit(w, thinking, content)
      [] request.dialect = "openai" -> OpenAIEmit(w, thinking, content)
      [] OTHER -> GenerateEmit(w, thinking, content)

\* The prose of content, as far as it can be shown now, and the call splitter.
Prose(c, content) == IF request.tools THEN CallNext(c, content) ELSE [split |-> c, prose |-> content]

\* What the splitters held, shown when no more is coming.
Flushed(w) ==
    LET f == ThinkFlush(split)
        c == Prose(calls, f.content)
        shown == Emit(w, f.thinking, c.prose)
    IN IF request.tools THEN Emit(shown, <<>>, CallFlush(c.split)) ELSE shown

-----------------------------------------------------------------------------
(* Endings.                                                                *)

Answer == SplitThinking(text).content
CallsMade == IF request.tools THEN Parse(request.format, Answer).calls ELSE 0

\* The status of a request that failed with nothing sent.
GenStatus(e) == CASE e = "tooLong" -> 413
                  [] e = "picture" -> 400
                  [] e \in {"busy", "stale"} -> 503
                  [] OTHER -> 500
RefusedBeforeStreaming(e, w) == w.status = 0 /\ e \in {"busy", "stale"}

\* Wrong: only the clock is told.
DoneReasonClock == IF stats.timeout THEN "timeout" ELSE "stop"
\* Why a reply ended, in each dialect's words.
DoneReason == CASE stats.timeout -> "timeout" [] stats.truncated -> "length" [] OTHER -> "stop"
OpenAIFinishReason == IF stats.timeout THEN "length" ELSE DoneReason
AnthropicStopReason == CASE CallsMade > 0 -> "tool_use"
                         [] CallsMade = 0 /\ (stats.truncated \/ stats.timeout) -> "max_tokens"
                         [] OTHER -> "end_turn"
ResponsesStatus == IF stats.truncated \/ stats.timeout THEN "incomplete" ELSE "completed"
OrCalls(reason) == IF CallsMade > 0 THEN "tool_calls" ELSE reason

\* Each call a block of its own, after the last block of text.
CallBlocks(w) ==
    [w EXCEPT !.calls = CallsMade, !.index = @ + CallsMade,
        !.events = @ \o FlattenSeq([k \in 1..CallsMade |->
            LET i == w.index + k - 1 IN <<<<"open", i>>, <<"delta", i>>, <<"close", i>>>>]),
        !.output = IF request.dialect = "responses" THEN @ \o [k \in 1..CallsMade |-> <<"call", <<>>>>] ELSE @]

\* A reply nobody streams: whole, or a status.  Without tools declared nothing
\* in it is a call.
Whole(thinking, content, finish) ==
    [NoWire EXCEPT !.status = 200, !.thinking = thinking, !.content = content,
                   !.calls = CallsMade, !.finish = finish]
WithoutCalls == IF request.tools THEN Parse(request.format, Answer).content ELSE Answer
Thought == SplitThinking(text).thinking
ShownThought == IF request.show THEN Thought ELSE <<>>

OllamaWhole ==
    IF err # "" THEN Refuse(wire, GenStatus(err))
    ELSE Whole(ShownThought, WithoutCalls, OrCalls(DoneReason))
OpenAIWhole ==
    IF err # "" THEN Refuse(wire, GenStatus(err))
    ELSE Whole(ShownThought, WithoutCalls, OrCalls(OpenAIFinishReason))

\* The blocks or items of a whole reply: its reasoning, its text, each call.
Parts(thought, said) ==
    (IF Thought = <<>> THEN <<>> ELSE <<<<thought, Thought>>>>)
    \o (IF TrimSpace(WithoutCalls) = <<>> THEN <<>> ELSE <<<<said, TrimSpace(WithoutCalls)>>>>)
    \o [k \in 1..CallsMade |-> <<"call", <<>>>>]
MessagesWhole ==
    IF err # "" THEN Refuse(wire, GenStatus(err))
    ELSE [Whole(Thought, TrimSpace(WithoutCalls), AnthropicStopReason) EXCEPT !.output = Parts("thinking", "text")]
ResponsesWhole ==
    IF err # "" THEN Refuse(wire, GenStatus(err))
    ELSE [Whole(Thought, TrimSpace(WithoutCalls), ResponsesStatus) EXCEPT !.output = Parts("reasoning", "message")]

\* Ollama shows what was held back of a reply that failed as well.
OllamaEnds ==
    LET shown == Flushed(wire)
        last == Put(OllamaBegin(shown), <<"finish", 0>>)
    IN IF RefusedBeforeStreaming(err, shown) THEN Refuse(shown, GenStatus(err))
       ELSE IF err # "" THEN [last EXCEPT !.finish = "error"]
       ELSE [last EXCEPT !.calls = CallsMade, !.finish = OrCalls(DoneReason)]

OpenAIEnds ==
    IF err # ""
    THEN IF RefusedBeforeStreaming(err, wire) THEN Refuse(wire, GenStatus(err))
         ELSE [Put(Put(Put(OpenAIBegin(wire), <<"error", 0>>), <<"finish", 0>>), <<"stop", 0>>)
                  EXCEPT !.finish = "error"]
    ELSE LET shown == OpenAIBegin(Flushed(wire))
             called == IF CallsMade = 0 THEN shown
                       ELSE [Put(shown, <<"calls", 0>>) EXCEPT !.calls = CallsMade]
         IN [Put(Put(called, <<"finish", 0>>), <<"stop", 0>>) EXCEPT !.finish = OrCalls(OpenAIFinishReason)]

MessagesEnds ==
    IF err # ""
    THEN IF wire.status = 0 THEN Refuse(wire, GenStatus(err))
         ELSE [Put(CloseBlock(wire), <<"error", 0>>) EXCEPT !.finish = "error"]
    ELSE [Put(Put(CallBlocks(CloseBlock(MessagesBegin(Flushed(wire)))), <<"finish", 0>>), <<"stop", 0>>)
             EXCEPT !.finish = AnthropicStopReason]

\* A response that failed leaves its open item open.
ResponsesEnds ==
    IF err # ""
    THEN IF wire.status = 0 THEN Refuse(wire, GenStatus(err))
         ELSE [Put(wire, <<"error", 0>>) EXCEPT !.finish = "error"]
    ELSE [Put(CallBlocks(CloseItem(ResponsesBegin(Flushed(wire)))), <<"finish", 0>>) EXCEPT !.finish = ResponsesStatus]

Ending ==
    CASE request.dialect = "ollama"    -> IF request.stream THEN OllamaEnds ELSE OllamaWhole
      [] request.dialect = "openai"    -> IF request.stream THEN OpenAIEnds ELSE OpenAIWhole
      [] request.dialect = "messages"  -> IF request.stream THEN MessagesEnds ELSE MessagesWhole
      [] request.dialect = "responses" -> IF request.stream THEN ResponsesEnds ELSE ResponsesWhole

-----------------------------------------------------------------------------
(* The handler and retrying.ChatFull.                                      *)

\* A body that cannot be read, a model that cannot be had (acquireStatus), or
\* functions declared to a model that knows no way to call one.
Turned(status) ==
    /\ phase = "arrived"
    /\ phase' = "ended" /\ wire' = Refuse(wire, status)
    /\ UNCHANGED <<request, attempt, text, stats, reloads, gone, handler>>
Reject ==
    \/ May("unserved") /\ \E status \in {400, 404, 500} : Turned(status)
    \/ request.tools /\ request.format = "none" /\ Turned(400)

\* The budget left for an attempt, and the buffer it gets.
Budget == IF request.budget = 0 THEN 0 ELSE Max({request.budget - stats.tokens, 1})
FragBuffer == (IF Budget = 0 \/ Budget > MaxFragBuffer THEN MaxFragBuffer ELSE Budget) + Spare

Ask ==
    /\ phase = "arrived"
    /\ ~(request.tools /\ request.format = "none")
    /\ phase' = "submitted" /\ err' = ""
    /\ UNCHANGED <<request, slot, frags, text, stats, reloads, gone, handler, wire>>

\* A fragment is split and shown; a handler that does not stream only keeps it.
Receive ==
    /\ phase \in {"running", "over"} /\ frags # <<>>
    /\ frags' = Tail(frags) /\ text' = text \o Head(frags)
    /\ IF request.stream
       THEN LET s == ThinkNext(split, Head(frags))
                c == Prose(calls, s.content)
            IN /\ split' = [at |-> s.at, pending |-> s.pending]
               /\ calls' = c.split
               /\ wire' = Emit(wire, s.thinking, c.prose)
       ELSE UNCHANGED <<handler, wire>>
    /\ UNCHANGED <<request, phase, slot, err, stats, reloads, gone>>

\* The attempt is drained, and its counts are added to what went before.
CarriedOver == [stats EXCEPT !.tokens = @ + slot.nGen]
Drained == phase = "over" /\ frags = <<>>
Again == err \in Recoverable /\ reloads < MaxReloads /\ ~gone

\* What died is replaced, to run the request or to go on with its reply.
Reload ==
    /\ Drained /\ Again
    /\ reloads' = reloads + 1 /\ stats' = CarriedOver
    /\ phase' = "submitted" /\ err' = "" /\ slot' = NoSlot
    /\ UNCHANGED <<request, frags, text, gone, handler, wire>>
ReloadFails ==
    /\ Drained /\ Again /\ May("load")
    /\ err' = "load"
    /\ UNCHANGED <<request, phase, slot, frags, text, stats, reloads, gone, handler, wire>>
Respond ==
    /\ Drained /\ ~Again
    /\ phase' = "ended" /\ stats' = CarriedOver /\ wire' = Ending
    /\ UNCHANGED <<request, attempt, text, reloads, gone, handler>>

GoesAway ==
    /\ May("gone") /\ ~gone /\ phase \in {"submitted", "running", "over"}
    /\ gone' = TRUE
    /\ UNCHANGED <<request, phase, attempt, text, stats, reloads, handler, wire>>

-----------------------------------------------------------------------------
(* The slot.                                                               *)

Over(e) == phase' = "over" /\ err' = e

\* The scheduler ends a request before it has a slot.
NotRun(e) ==
    /\ phase = "submitted" /\ May(e)
    /\ Over(e)
    /\ UNCHANGED <<request, slot, frags, text, stats, reloads, gone, handler, wire>>
Refused == \E e \in Refusals \cup {"notStarted"} : NotRun(e)
\* The backend dies under a reply, which has sent what it sent.
Interrupted ==
    /\ phase = "running" /\ May("interrupted")
    /\ Over("interrupted")
    /\ UNCHANGED <<request, slot, frags, text, stats, reloads, gone, handler, wire>>
Cancelled ==
    /\ phase \in {"submitted", "running"} /\ gone
    /\ Over("cancelled")
    /\ UNCHANGED <<request, slot, frags, text, stats, reloads, gone, handler, wire>>
\* A reply past its deadline is cut, which is no error (Stats.Timeout).
RunsLate ==
    /\ phase = "running" /\ May("late")
    /\ Over("") /\ stats' = [stats EXCEPT !.timeout = TRUE]
    /\ UNCHANGED <<request, slot, frags, text, reloads, gone, handler, wire>>

\* Wrong: what the client has is sent again.
OccupyAgain ==
    /\ phase = "submitted"
    /\ phase' = "running"
    /\ slot' = [out |-> IF text # <<>> THEN text ELSE IF request.opens THEN ThinkOpen ELSE <<>>,
                emitted |-> 0, nGen |-> 0, maxGen |-> Budget]
    /\ UNCHANGED <<request, frags, err, text, stats, reloads, gone, handler, wire>>

\* A slot begins with what the client has (Resume), or with the tag the prompt
\* opened the reply's reasoning with.
Occupy ==
    /\ phase = "submitted"
    /\ phase' = "running"
    /\ slot' = [out |-> IF text # <<>> THEN text ELSE IF request.opens THEN ThinkOpen ELSE <<>>,
                emitted |-> Len(text), nGen |-> 0, maxGen |-> Budget]
    /\ UNCHANGED <<request, frags, err, text, stats, reloads, gone, handler, wire>>

\* What the model wrote of a reply, and what it writes next: it goes on from
\* the text it is given (resumeTokens), and so writes what it would have.
Written(out) == IF request.opens /\ IsPrefix(ThinkOpen, out) THEN After(out, Len(ThinkOpen)) ELSE out
Rest == After(request.writes, Len(Written(slot.out)))

\* Text not yet sent is sent if there is room, and else stays in out.
Send(s, queue, all) ==
    IF Len(all) > s.emitted /\ Len(queue) < FragBuffer
    THEN [slot |-> [s EXCEPT !.emitted = Len(all)], frags |-> Append(queue, After(all, s.emitted))]
    ELSE [slot |-> s, frags |-> queue]

\* finishSlot flushes, be it half a character.
FinishSlot(s, queue) ==
    LET last == Send(s, queue, TrimStop(s.out))
    IN Over("") /\ slot' = last.slot /\ frags' = last.frags

EndOfText ==
    /\ phase = "running" /\ Rest = <<>>
    /\ FinishSlot(slot, frags)
    /\ UNCHANGED <<request, text, stats, reloads, gone, handler, wire>>

Token(n) ==
    /\ phase = "running" /\ n <= Len(Rest)
    /\ LET out == slot.out \o First(Rest, n)
           all == TrimStop(out)
           took == [slot EXCEPT !.out = out, !.nGen = @ + 1]
           now == IF Valid(After(all, slot.emitted)) THEN Send(took, frags, all)
                  ELSE [slot |-> took, frags |-> frags]
           hitStop == Holds(out, StopMarker)
           full == slot.maxGen > 0 /\ slot.nGen + 1 >= slot.maxGen
       IN \/ /\ ~hitStop /\ ~full
             /\ slot' = now.slot /\ frags' = now.frags
             /\ UNCHANGED <<phase, err, stats>>
          \/ /\ hitStop
             /\ FinishSlot(now.slot, now.frags) /\ UNCHANGED stats
          \/ /\ ~hitStop /\ (full \/ May("full"))
             /\ FinishSlot(now.slot, now.frags)
             /\ stats' = [stats EXCEPT !.truncated = TRUE]
    /\ UNCHANGED <<request, text, reloads, gone, handler, wire>>

-----------------------------------------------------------------------------
Next ==
    \/ Reject \/ Ask \/ Receive \/ Reload \/ ReloadFails \/ Respond \/ GoesAway
    \/ Refused \/ Interrupted \/ Cancelled \/ RunsLate
    \/ Occupy \/ EndOfText \/ \E n \in 1..MaxPiece : Token(n)

Spec == Init /\ [][Next]_vars

-----------------------------------------------------------------------------
(* Properties.                                                             *)

\* Every variable holds a value of its kind, and the slot has sent no more
\* than there is and kept to its budget.
TypeOK ==
    /\ request \in Requests
    /\ phase \in {"arrived", "submitted", "running", "over", "ended"}
    /\ err \in {"", "load", "cancelled"} \cup Refusals \cup Recoverable
    /\ slot.nGen \in Nat /\ (slot.maxGen > 0 => slot.nGen <= slot.maxGen)
    /\ text \in Text /\ (frags # <<>> => phase \in {"running", "over"})
    /\ Len(frags) <= FragBuffer
    /\ reloads \in 0..MaxReloads /\ gone \in BOOLEAN
    /\ split.at \in {"before", "inside", "past"}
    /\ wire.status \in {0, 200, 400, 404, 413, 500, 503}

Squeeze(s) == SelectSeq(s, LAMBDA x : x # " ")

Served == phase = "ended" /\ err = "" /\ wire.status = 200
\* The reasoning and the rest of a reply, whatever was fragmented how.
Rested == IF Holds(text, ThinkOpen)
          THEN Before(text, ThinkOpen)
               \o (IF Holds(Beyond(text, ThinkOpen), ThinkClose)
                   THEN Beyond(Beyond(text, ThinkOpen), ThinkClose) ELSE <<>>)
          ELSE text
\* The prose ahead of the first marker, and behind the last call that ended.
MarkerAt == UNION {Places(Rested, OpenMarkers[i]) : i \in 1..Len(OpenMarkers)}
Ahead == First(Rested, Min(MarkerAt) - 1)
Behind == LET held == After(Rested, Min(MarkerAt) - 1)
              ends == Places(held, BlockClose(request.format))
          IN IF ends = {} THEN held ELSE BeyondLast(held, BlockClose(request.format))

\* A stream shows what the whole reply has, wherever fragments broke: the
\* reasoning as reasoning, the answer as answer, of a reply with calls the prose
\* before the first and after the last, and none of their syntax
\* (ThinkSplitter, CallSplitter against SplitThinking, Parse).
StreamShowsReply ==
    Served /\ request.stream =>
        /\ (request.show \/ request.dialect \in {"messages", "responses"})
              => Squeeze(wire.thinking) = Squeeze(SplitThinking(text).thinking)
        /\ Squeeze(wire.content) =
              Squeeze(IF ~request.tools \/ MarkerAt = {} THEN Rested ELSE Ahead \o Behind)

\* What one engine that never died would write.
OneEngine == TrimStop((IF request.opens THEN ThinkOpen ELSE <<>>) \o request.writes)
\* A marker that leaks in pieces is seen when it is whole.
Leaks == {OneEngine} \cup {OneEngine \o First(StopMarker, n) : n \in 1..(Len(StopMarker) - 1)}

\* However often its engine was replaced, a reply goes on where it was: nothing
\* is said twice or left out, and all attempts together keep to one budget
\* (retrying.ChatFull, occupy, resumeTokens).
GoesOn ==
    /\ \E whole \in Leaks : IsPrefix(text \o FlattenSeq(frags), whole)
    /\ request.budget > 0 /\ phase = "running" => stats.tokens + slot.nGen <= request.budget

\* A reply that ends as if the model had ended it is whole, as long as the
\* buffer held it: a cut is told (Truncated, Timeout).
CutIsTold ==
    Served /\ request.budget \in 1..MaxFragBuffer /\ wire.finish \in {"stop", "end_turn", "completed"}
        => text \in Leaks

\* A request that fails is told so once: by a status if nothing was sent, and
\* in the stream if something was; and one that did not fail never is.
ErrorTold ==
    phase = "ended" =>
        /\ wire.finish = "error" <=> (err # "" \/ wire.status # 200)
        /\ wire.status # 200 => wire.events = <<>> /\ wire.content = <<>> /\ wire.thinking = <<>>
        /\ err \in {"busy", "stale"} /\ wire.events = <<>> => wire.status = 503

\* Frames keep the dialect's grammar: it starts once, blocks open one by one in
\* order, are written while open and closed once, calls come last, and the
\* stream ends once; what a Responses stream says it sent is what it sent.
Nth(name) == {i \in 1..Len(wire.events) : wire.events[i][1] = name}
OpenBefore(i) == {n \in 0..Len(wire.events) :
                    \E j \in 1..(i - 1) : /\ wire.events[j] = <<"open", n>>
                                          /\ \A k \in j..(i - 1) : wire.events[k] # <<"close", n>>}
Blocks == request.dialect \in {"messages", "responses"}
Ends == Nth("error") \cup Nth("finish") \cup Nth("stop")
WellFramed ==
    wire.status = 200 /\ request.stream =>
        /\ request.dialect # "ollama" => Nth("start") = {1}
        /\ Blocks =>
              /\ \A i \in Nth("open") : /\ OpenBefore(i) = {}
                                        /\ wire.events[i][2] = Cardinality({j \in Nth("open") : j < i})
              /\ \A i \in Nth("delta") \cup Nth("close") : OpenBefore(i) = {wire.events[i][2]}
        /\ \A i \in Ends : \A j \in i..Len(wire.events) : j \in Ends
        /\ phase = "ended" =>
              /\ Ends # {} /\ \A name \in {"error", "finish", "stop"} : Cardinality(Nth(name)) <= 1
              /\ Blocks /\ err = "" => OpenBefore(Len(wire.events) + 1) = {}

\* The items of a response, and the blocks of a whole message, say what was
\* sent: its text, and a call each.
Said(kinds) == FlattenSeq([k \in 1..Len(wire.output) |->
                              IF wire.output[k][1] \in kinds THEN wire.output[k][2] ELSE <<>>])
Itemised ==
    phase = "ended" /\ err = "" /\ wire.status = 200 /\ Blocks
        /\ (request.dialect = "responses" \/ ~request.stream) =>
            /\ Said({"text", "message"}) = wire.content
            /\ Said({"thinking", "reasoning"}) = wire.thinking
            /\ Cardinality({k \in DOMAIN wire.output : wire.output[k][1] = "call"}) = wire.calls

\* A reply ends once and as it went: a cut or a failure is told, in frames of
\* the dialect's grammar, and every variable keeps its type.
EndsTruly == TypeOK /\ CutIsTold /\ ErrorTold /\ WellFramed /\ Itemised

=============================================================================
