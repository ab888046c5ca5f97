-------------------------- MODULE MCEmbedding --------------------------
(* Small instances of Embedding for TLC.                                   *)
EXTENDS Embedding, TLC

CONSTANTS r1, r2, r3

\* Three texts of which two fit a pass, with one that is too long and closed;
\* one text the model cannot read; nothing.
Several == <<<<"a">>, <<"b">>, <<"a", "b", "a", "end">>>>
Unknown == <<<<"a">>, <<"what">>>>
Asked == [api |-> "embed", model |-> "nomic", inputs |-> Several, truncate |-> TRUE, dims |-> 2, keep |-> "absent"]
Loads == [Asked EXCEPT !.api = "generate", !.inputs = <<>>]
Calls == {Asked, [Asked EXCEPT !.truncate = FALSE, !.keep = "too long"],
          [Asked EXCEPT !.api = "embeddings", !.inputs = <<<<"b">>>>, !.model = "bge", !.keep = "negative"],
          [Asked EXCEPT !.api = "openai", !.inputs = <<>>],
          [Asked EXCEPT !.model = "bge", !.inputs = Unknown, !.keep = "zero"], [Asked EXCEPT !.model = "chat"],
          [Loads EXCEPT !.keep = "negative"], [Loads EXCEPT !.keep = "zero"],
          [Loads EXCEPT !.keep = "malformed"], [Asked EXCEPT !.api = "generate"]}

=============================================================================
