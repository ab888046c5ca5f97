---------------------------- MODULE ReplyText ----------------------------
(***************************************************************************)
(* What is done to a reply's text (internal/chat: thinking.go, chat.go;    *)
(* internal/tools: stream.go, tools.go, dsml.go): the reasoning is told    *)
(* from the answer and the tool calls from the prose, of the whole text    *)
(* and of a stream that breaks anywhere.                                   *)
(*                                                                         *)
(* A text is a sequence of symbols.  A tag is several, because a fragment  *)
(* may end inside one, and all begin with "<", because that is what a      *)
(* splitter has to hold back.  "J" is a call that can be read (a JSON      *)
(* body, an invoke), any other symbol is prose or a call that cannot.      *)
(***************************************************************************)
EXTENDS Naturals, Sequences, SequencesExt

Text == Seq({"<", "/", "t", "c", "f", "d", "C", "|", "J", "a", "b", " ", "hi", "lo"})

ThinkOpen  == <<"<", "t">>
ThinkClose == <<"<", "/", "t">>
CallOpen   == <<"<", "c">>
CallClose  == <<"<", "/", "c">>
FnOpen     == <<"<", "f">>
DsmlOpen   == <<"<", "d">>
DsmlClose  == <<"<", "/", "d">>
StopMarker == <<"<", "|">>

\* The ways a call can begin, in the order they are looked for.
OpenMarkers == <<CallOpen, FnOpen, DsmlOpen>>

First(s, n) == SubSeq(s, 1, n)
After(s, n) == SubSeq(s, n + 1, Len(s))
Places(s, tag) == {i \in 1..(Len(s) - Len(tag) + 1) : SubSeq(s, i, i + Len(tag) - 1) = tag}
Holds(s, tag) == Places(s, tag) # {}
\* s before and beyond the first tag in it, and beyond the last.
Before(s, tag) == First(s, Min(Places(s, tag)) - 1)
Beyond(s, tag) == After(s, Min(Places(s, tag)) + Len(tag) - 1)
BeyondLast(s, tag) == After(s, Max(Places(s, tag)) + Len(tag) - 1)

Spaces(s) == {i \in 0..Len(s) : \A j \in 1..i : s[j] = " "}
TrimLeft(s) == After(s, Max(Spaces(s)))
TrimSpace(s) == Reverse(TrimLeft(Reverse(TrimLeft(s))))

Valid(s) == \A i \in 1..Len(s) : s[i] = "hi" => i < Len(s) /\ s[i + 1] = "lo"

\* Wrong: one symbol of a tag too few is held back.
PartialShort(s, tag) ==
    Max({n \in 0..(Len(tag) - 2) : n <= Len(s) /\ IsPrefix(After(s, Len(s) - n), tag)})

\* How much of the end of s could still grow into tag.
PartialSuffix(s, tag) ==
    Max({n \in 0..(Len(tag) - 1) : n <= Len(s) /\ IsPrefix(After(s, Len(s) - n), tag)})

\* s without what may be the beginning of a tag, and that.
Sure(s, keep) == First(s, Len(s) - keep)
Held(s, keep) == After(s, Len(s) - keep)

TrimStop(s) == IF Holds(s, StopMarker) THEN Before(s, StopMarker) ELSE s

-----------------------------------------------------------------------------
\* The reasoning and the answer of a whole reply.
SplitThinking(s) ==
    IF ~Holds(s, ThinkOpen) THEN [thinking |-> <<>>, content |-> s]
    ELSE LET rest == Beyond(s, ThinkOpen)
         IN IF ~Holds(rest, ThinkClose) THEN [thinking |-> TrimSpace(rest), content |-> <<>>]
            ELSE [thinking |-> TrimSpace(Before(rest, ThinkClose)),
                  content |-> TrimSpace(Before(s, ThinkOpen) \o Beyond(rest, ThinkClose))]

\* ... and of a stream: the splitter is before, inside or past the block.
NewThinkSplitter == [at |-> "before", pending |-> <<>>]

Inside(s) ==
    IF Holds(s, ThinkClose)
    THEN [at |-> "past", pending |-> <<>>, thinking |-> Before(s, ThinkClose), content |-> Beyond(s, ThinkClose)]
    ELSE LET keep == PartialSuffix(s, ThinkClose)
         IN [at |-> "inside", pending |-> Held(s, keep), thinking |-> Sure(s, keep), content |-> <<>>]

\* Only the first tag counts.
ThinkNext(split, frag) ==
    LET s == split.pending \o frag IN
    CASE split.at = "inside" -> Inside(s)
      [] split.at = "past"   -> [at |-> "past", pending |-> <<>>, thinking |-> <<>>, content |-> s]
      [] split.at = "before" ->
            IF Holds(s, ThinkOpen)
            THEN LET in == Inside(Beyond(s, ThinkOpen))
                 IN [in EXCEPT !.content = Before(s, ThinkOpen) \o @]
            ELSE LET keep == PartialSuffix(s, ThinkOpen)
                 IN [at |-> "before", pending |-> Held(s, keep), thinking |-> <<>>, content |-> Sure(s, keep)]

ThinkFlush(split) ==
    [at |-> split.at, pending |-> <<>>,
     thinking |-> IF split.at = "inside" THEN split.pending ELSE <<>>,
     content |-> IF split.at = "inside" THEN <<>> ELSE split.pending]

-----------------------------------------------------------------------------
\* Blocks of a whole reply between tags: the calls in them, and the text
\* without those that could be read.  f[s] is [content, calls].
HermesBody(body) == [calls |-> IF TrimSpace(body) = <<"J">> THEN 1 ELSE 0,
                     unread |-> TrimSpace(body) # <<"J">>]
DsmlBody(body)   == [calls |-> Len(SelectSeq(body, LAMBDA x : x = "J")),
                     unread |-> \E i \in 1..Len(body) : body[i] \notin {"J", " "}]

\* A DSML block is between tags named calls; other DSML tags are passed over.
BlockOpen(format)  == IF format = "dsml" THEN DsmlOpen \o <<"C">> ELSE CallOpen
BlockClose(format) == IF format = "dsml" THEN DsmlClose \o <<"C">> ELSE CallClose
Body(format, s)    == IF format = "dsml" THEN DsmlBody(s) ELSE HermesBody(s)

\* One block read: what is before it, and itself if it cannot be read, is text.
\* A block that does not end stays visible.
ParseBlocks(format, s) ==
    LET open == BlockOpen(format)
        close == BlockClose(format)
        read[n \in 0..Len(s)] ==
            IF n = 0 THEN [text |-> <<>>, calls |-> 0, rest |-> s, more |-> TRUE]
            ELSE LET r == read[n - 1]
                     inner == Beyond(r.rest, open)
                     body == Body(format, Before(inner, close))
                 IN CASE ~r.more -> r
                      [] r.more /\ ~(Holds(r.rest, open) /\ Holds(inner, close)) ->
                            [r EXCEPT !.text = @ \o r.rest, !.rest = <<>>, !.more = FALSE]
                      [] OTHER ->
                            [text |-> r.text \o Before(r.rest, open)
                                      \o (IF body.unread THEN open \o Before(inner, close) \o close ELSE <<>>),
                             calls |-> r.calls + body.calls,
                             rest |-> Beyond(inner, close),
                             more |-> TRUE]
    IN read[Len(s)]

Parse(format, s) ==
    IF format = "none" \/ (format = "hermes" /\ ~Holds(s, CallOpen)) THEN [content |-> s, calls |-> 0]
    ELSE LET all == ParseBlocks(format, s)
         IN [content |-> TrimSpace(all.text \o all.rest), calls |-> all.calls]

-----------------------------------------------------------------------------
\* Prose of a stream: from the first marker on all is held.  The first marker
\* of the list wins, not the first in the text.
NewCallSplitter == [pending |-> <<>>, inCall |-> FALSE, held |-> <<>>]

CallNext(split, frag) ==
    LET s == split.pending \o frag
        found == SelectSeq(OpenMarkers, LAMBDA m : Holds(s, m))
        keep == Max({PartialSuffix(s, OpenMarkers[i]) : i \in 1..Len(OpenMarkers)})
    IN IF split.inCall THEN [split |-> [split EXCEPT !.held = @ \o frag], prose |-> <<>>]
       ELSE IF found # <<>>
            THEN [split |-> [pending |-> <<>>, inCall |-> TRUE,
                             held |-> After(s, Min(Places(s, found[1])) - 1)],
                  prose |-> Before(s, found[1])]
            ELSE [split |-> [split EXCEPT !.pending = Held(s, keep)], prose |-> Sure(s, keep)]

\* What is still worth showing: prose after the last call, or all of what was
\* held when no call ended.
CallFlush(split) ==
    CASE ~split.inCall -> split.pending
      [] split.inCall /\ Holds(split.held, CallClose) -> BeyondLast(split.held, CallClose)
      [] OTHER -> IF IsPrefix(DsmlOpen, split.held) /\ Holds(split.held, BlockClose("dsml"))
                  THEN BeyondLast(split.held, BlockClose("dsml"))
                  ELSE split.held

=============================================================================
