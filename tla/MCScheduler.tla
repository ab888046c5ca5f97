---------------------------- MODULE MCScheduler ----------------------------
(* Small instances of Scheduler for TLC.                                   *)
EXTENDS Scheduler, TLC

Text(n) == [full |-> n, resume |-> 0, pictures |-> FALSE]

\* With three home slots of 8 that keep 1 to reply in: one that runs at home,
\* one that needs the 12 of two slots, one that needs the 24 of one, and one too
\* long for any; a prompt with pictures; and one with a reply carried over from
\* a copy of the model that died.
Texts == {Text(3), Text(8), Text(20), Text(30)}
         \cup {[full |-> 9, resume |-> 0, pictures |-> TRUE], [full |-> 3, resume |-> 7, pictures |-> FALSE]}

\* The state without what is only read of requests that wait.
Live == <<pc, answer, finished, queue, stop, broken, at, held, running, writing, nSlots,
          context, refused, fatal, gone \cap {j \in Jobs : pc[j] = "waiting"},
          late \cap {j \in Jobs : pc[j] = "waiting"},
          [j \in {k \in Jobs : pc[k] \in {"checked", "waiting"}} |-> <<prompt[j], want[j]>>],
          [j \in Jobs |-> fit[j] = "none"]>>
=============================================================================
