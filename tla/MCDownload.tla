----------------------------- MODULE MCDownload -----------------------------
(* Small instances of Download for TLC.                                    *)
EXTENDS Download, TLC

Symmetry == Permutations(Pulls) \cup Permutations(Conns)

\* Two versions of one size, in a whole piece and a part of one, and a third.
Sizes == [v \in Versions |-> IF v = 3 THEN 2 ELSE 3]

Says == [sized |-> TRUE, sum |-> TRUE, etag |-> TRUE, commit |-> TRUE, pinned |-> TRUE,
         flushed |-> TRUE, conns |-> Conns]
Load(s, pulls, pushes, cuts, removals) ==
    [setting |-> s,
     bound |-> [pulls |-> pulls, pushes |-> pushes, cuts |-> cuts, removals |-> removals]]
One == {CHOOSE c \in Conns : TRUE}

\* A file without a sha256, pulled again and again, the power cut once.
Unsummed == Load([Says EXCEPT !.sum = FALSE, !.conns = One], 2, 0, 1, 0)
\* ... and by two connections.
Parallel == Load([Says EXCEPT !.sum = FALSE], 2, 0, 0, 0)
\* A mirror that names no commit, pushed to in the middle of a pull.
Mirrored == Load([Says EXCEPT !.commit = FALSE], 1, 1, 0, 0)
\* Pulls that overlap, of a file that is pushed to and removed, from a server
\* that names neither sha256 nor etag.
Overlapping == Load([Says EXCEPT !.sum = FALSE, !.etag = FALSE, !.conns = One], 2, 1, 0, 1)
\* Where flush does not reach the disk, the sum finds what a power cut took.
Unflushed == Load([Says EXCEPT !.flushed = FALSE, !.conns = One], 2, 0, 1, 0)
\* A server that serves the file from main itself, pushed to meanwhile.
Unpinned == Load([Says EXCEPT !.pinned = FALSE], 1, 1, 0, 0)
\* ... or does not even say how long it is.
Unsized == Load([Says EXCEPT !.sized = FALSE, !.sum = FALSE, !.etag = FALSE, !.pinned = FALSE,
                             !.conns = One], 2, 1, 1, 0)
Seven == {Unsummed, Parallel, Mirrored, Overlapping, Unflushed, Unpinned, Unsized}
ASSUME SevenAreKept == Loads = Seven => Kept

\* A file without a sha256, pushed to between two pulls of it: RecordBehind fails
\* (README, Disagreements), so the run leaves it out.
Pushed == {Load([Says EXCEPT !.sum = FALSE, !.conns = One], 3, 1, 0, 0)}

\* ... and one removed when it was whole, by pulls of which one is killed before
\* it forgets the record, another before it saves its own: FinalWhole fails.
Removed == {Load([Says EXCEPT !.sum = FALSE, !.conns = One], 3, 0, 0, 1)}

\* A file without a sha256 that is served from main, and pushed to meanwhile.
Moved == {Load([Says EXCEPT !.sum = FALSE, !.pinned = FALSE, !.conns = One], 1, 1, 0, 0)}

\* What can still be read: nothing of a file no name or process leads to, and
\* of a pull's snapshot only while it is being saved.
Live == <<setting, main, part, final, rec, tmp, left,
          [p \in Pulls |-> IF pull[p].pc \in Saving THEN pull[p]
                           ELSE [pull[p] EXCEPT !.snap = <<>>, !.after = "run"]],
          [f \in {g \in Files : ~Unused(g)} |-> <<bytes[f], disk[f]>>]>>

=============================================================================
