------------------------- MODULE MCConversation -------------------------
(* Small instances of Conversation for TLC.                                *)
EXTENDS Conversation

P(kind) == [kind |-> kind, size |-> 1]
Long(kind) == [kind |-> kind, size |-> 4]

\* A system prompt or none, a picture, one that cannot be read, a conversation
\* that starts in the middle of the tools.
Beginnings == {<<P("user")>>, <<P("system"), P("user")>>,
               <<P("system"), P("system"), P("image"), Long("user")>>,
               <<P("badImage"), P("user")>>, <<P("said"), P("user")>>,
               <<P("system"), P("call"), P("result")>>}
\* A person answers, with a document, a picture or after a note of the client's;
\* the model calls tools, one or two, thinking or talking before, with a reminder
\* after.
Said == {<<P("said"), P("user")>>,
         <<P("said"), P("system"), P("document"), P("user")>>,
         <<P("thought"), P("user")>>,
         <<P("said"), P("image"), P("user")>>,
         <<P("call"), P("result")>>,
         <<P("said"), P("call"), P("thought"), P("call"), P("result"), Long("result")>>,
         <<P("thought"), P("hosted"), P("call"), Long("result"), P("user")>>,
         <<P("call"), P("system"), P("result")>>}
\* Windows that hold a few turns, some, or all; room kept for the answer; what is
\* left to resume; a model that sees and one that does not.
Windows == {[ctx |-> 16, maxTokens |-> 0, resume |-> 0, projector |-> TRUE],
            [ctx |-> 24, maxTokens |-> 2, resume |-> 3, projector |-> TRUE],
            [ctx |-> 16, maxTokens |-> 0, resume |-> 0, projector |-> FALSE],
            [ctx |-> 40, maxTokens |-> 0, resume |-> 0, projector |-> TRUE]}
=========================================================================
