---------------------------- MODULE MCMLXEngine ----------------------------
(* Small instances of MLXEngine for TLC.                                   *)
EXTENDS MLXEngine

Mark(pos, shared) == [pos |-> pos, shared |-> shared]

\* Two turns of a conversation, another of the same agent, and a short prompt
\* of nobody's.
First  == [tokens |-> <<1, 2>>, marks |-> <<Mark(1, TRUE)>>]
Second == [tokens |-> <<1, 2, 3>>, marks |-> <<Mark(1, TRUE), Mark(2, FALSE)>>]
Short  == [tokens |-> <<4>>, marks |-> <<>>]

MCPrompts == {First, Second, Short}

\* Without a head, and without a pool.
Apart == {[drafts |-> 0, prefix |-> 2, mayFail |-> FALSE],
          [drafts |-> 2, prefix |-> 0, mayFail |-> TRUE]}

\* With both: what the pool keeps of a prompt was read by the head too, and
\* HeadHandlesLive fails (README, Disagreements), so the run leaves it out.
Together == {[drafts |-> 2, prefix |-> 1, mayFail |-> FALSE]}
=============================================================================
