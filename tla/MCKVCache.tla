----------------------------- MODULE MCKVCache -----------------------------
(* A small instance of KVCache for TLC.                                    *)
EXTENDS KVCache, TLC

Prompt(tokens, system, turn) ==
    [tokens |-> tokens, resume |-> <<>>, budget |-> 1, system |-> system, turn |-> turn]

\* Two conversations of one agent, whose system prompt is <<1>>, and one of
\* another agent.
One == Prompt(<<1, 2, 2>>, 1, 2)
Other == Prompt(<<1, 1, 2>>, 1, 2)
Agent == [Prompt(<<2, 1>>, 0, 1) EXCEPT !.budget = 3]

\* One that names no budget, one that asks for more than the context has left,
\* and one that carries over the reply of a copy of the model that died.
Long == [One EXCEPT !.budget = 0]
Short == [Prompt(<<1>>, 0, 0) EXCEPT !.budget = 9]
Resumed == [Prompt(<<1, 2>>, 1, 0) EXCEPT !.resume = <<1>>, !.budget = 2]

\* A dense model with a head, a hybrid one, and one without a pool.
Three ==
    {[slots |-> 2, entries |-> 1, exact |-> FALSE, drafts |-> 2,
      prompts |-> {Long, Short, Resumed}],
     [slots |-> 2, entries |-> 2, exact |-> TRUE, drafts |-> 1,
      prompts |-> {One, Other, Agent}],
     [slots |-> 3, entries |-> 0, exact |-> FALSE, drafts |-> 1,
      prompts |-> {Resumed}]}

\* The state without what a head holds of a sequence it does not follow, which
\* nothing reads before the sequence is emptied.
Live == <<load, slot, pool, phase,
          [s \in Seqs |-> IF cache[s].tracked THEN cache[s]
                          ELSE <<cache[s].cells, cache[s].upTo>>]>>
=============================================================================
