---------------------------- MODULE MCResidency ----------------------------
(* Small instances of Residency for TLC.                                   *)
EXTENDS Residency, TLC

Symmetry == Permutations(Reqs) \cup Permutations(Engines)

\* The state without what nothing can read any more: the lease of a copy that
\* was closed, and the locals of a goroutine that ended or has not begun.
Live == <<cur, swapping, idle, fired, asleep, open, refs, pc, held, old, Closed,
          [e \in open |-> <<path[e], keepAlive[e], health[e]>>],
          [t \in {u \in Reqs : pc[u] \notin {"idle", "done"}} |-> <<req[t], reloads[t]>>]>>
=============================================================================
