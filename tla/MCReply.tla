----------------------------- MODULE MCReply -----------------------------
(* Small instances of Reply for TLC.                                       *)
EXTENDS Reply

Think(s) == ThinkOpen \o s \o ThinkClose
Call(s) == CallOpen \o s \o CallClose
Block(s) == DsmlOpen \o <<"C">> \o s \o DsmlClose \o <<"C">>

\* Reasoning that ends, that does not, that is quoted later, and none; a lone
\* "<", a character in two tokens, a stop marker that leaks.
Texts == {Think(<<"a">>) \o <<" ", "b">>,
          <<"b", " ">> \o ThinkOpen \o <<"a", "<">>,
          Think(<<"a", "<">>) \o <<"<", "t", "b">>,
          <<"a", "hi", "lo", "<", "b">>,
          <<"a", "<", "|", "b">>}
\* The prompt opened the reasoning.
Opened == {<<"a">> \o ThinkClose \o <<"b">>, <<"a", "hi", "lo">>}
\* Calls that are made, considered, cut off, spelled another way, and not one.
Calling == {<<"a">> \o Call(<<"J">>) \o <<"b">>,
            Think(Call(<<"J">>)) \o <<"a", "<">>,
            Call(<<" ", "J">>) \o <<"a">> \o Call(<<"J">>),
            <<"a">> \o CallOpen \o <<"J", "<">>,
            <<"a">> \o FnOpen \o <<"b">>}
Marked == {<<"a">> \o Block(<<"J", "J">>) \o <<"b">>,
           Block(<<"J">>) \o Block(<<"J", "b">>),
           DsmlOpen \o <<"b">>, <<"a", "<">> \o DsmlOpen \o <<"C", "J">>}

Asks(dialects, streams, tools, formats, opens, budgets, faults, texts) ==
    [dialect : dialects, stream : streams, tools : {tools}, format : formats, show : {TRUE},
     opens : {opens}, budget : budgets, faults : faults, writes : texts]

Dying == {"notStarted", "interrupted", "load"}
All == UNION {
    \* every text in every dialect, the engine dying once and again
    Asks(Dialects, {TRUE}, FALSE, {"hermes"}, FALSE, {3, 20}, {{"interrupted"}}, Texts),
    Asks(Dialects, {TRUE}, FALSE, {"hermes"}, TRUE, {0, 20}, {{"interrupted"}}, Opened),
    Asks(Dialects, {TRUE}, TRUE, {"hermes"}, FALSE, {20}, {{}}, Calling),
    Asks(Dialects, {FALSE}, TRUE, {"hermes"}, FALSE, {20}, {{}}, {<<"a">> \o Call(<<"J">>) \o <<"b">>}),
    Asks({"openai"}, {TRUE}, TRUE, {"dsml"}, FALSE, {20}, {{}}, Marked),
    Asks({"responses"}, {TRUE, FALSE}, TRUE, {"dsml"}, FALSE, {20}, {{}}, {Block(<<"J">>) \o Block(<<"J", "b">>)}),
    \* whatever can fail, with a budget that ends the reply and with none
    Asks(Dialects, {TRUE, FALSE}, FALSE, {"none"}, FALSE, {0, 2}, {Faults}, {<<"a", "hi", "lo">>, <<"<">>}),
    Asks({"ollama", "openai"}, {TRUE}, TRUE, {"none", "hermes"}, FALSE, {3}, {Dying}, {Call(<<"J">>)})}

=============================================================================
