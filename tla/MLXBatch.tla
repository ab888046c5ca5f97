------------------------------ MODULE MLXBatch ------------------------------
(***************************************************************************)
(* What the MLX backend's caches and its batch hold (internal/mlxmodel:    *)
(* qwen35.go, batch.go), as pure operators.                                *)
(*                                                                         *)
(* Tokens stand for what a layer computes of them.  A DeltaNet layer's     *)
(* state is the text it has read.  A key buffer is a sequence of columns.  *)
(* One layer of each sort stands for all: they are written alike.  Arrays  *)
(* are values, so what a cache and its clone share is not modelled; which  *)
(* handles of the MTP head a cache still owns is.                          *)
(***************************************************************************)
EXTENDS Integers, Sequences, FiniteSetsExt, SequencesExt

CONSTANT kvStep    \* columns a key buffer grows by

ASSUME StepAssumption == kvStep \in Nat \ {0}

\* A column of zeros, a token nobody reads, a draft the model does not agree with.
Blank == 0

AtLeastZero(n) == IF n < 0 THEN 0 ELSE n

\* roundUp.
RoundUp(n) == ((n + kvStep - 1) \div kvStep) * kvStep

Blanks(n) == [c \in 1 .. n |-> Blank]

\* A buffer of `cap` zeroed columns with columns from+1 .. to of buf after the
\* first `at`: what every growing, shifting and cutting of buffers comes to.
Place(buf, from, to, at, cap) ==
    Blanks(at) \o SubSeq(buf, from + 1, to) \o Blanks(cap - at - (to - from))

\* SliceUpdate: toks written into buf after its first `at` columns.
Written(buf, at, toks) ==
    [c \in 1 .. Len(buf) |->
        IF c \in at + 1 .. at + Len(toks) THEN toks[c - at] ELSE buf[c]]

----------------------------------------------------------------------------
(* A sequence's cache: keys (stale past `offset`), the DeltaNet state, and  *)
(* the MTP head's: whether its arrays exist, and how many tokens it read.   *)

NewCache == [keys |-> <<>>, state |-> <<>>, offset |-> 0,
             drafting |-> FALSE, head |-> "none", headOffset |-> 0]

Keys(c) == SubSeq(c.keys, 1, c.offset)

\* step: one pass over toks.  It frees the handles it began with, the head's
\* too, and only a drafting pass gives the cache new ones for the head.
Read(c, toks) ==
    LET end == c.offset + Len(toks) IN
    [c EXCEPT
        !.keys = Written(IF Len(@) < end THEN Place(@, 0, c.offset, 0, RoundUp(end)) ELSE @,
                         c.offset, toks),
        !.state = @ \o toks,
        !.offset = end,
        !.head = IF c.drafting THEN "live" ELSE IF @ = "none" THEN "none" ELSE "freed",
        !.headOffset = IF c.drafting THEN @ + Len(toks) ELSE @]

HeadReady(c) == c.drafting /\ c.head # "none" /\ c.headOffset = c.offset

\* Wrong: the states are left one token short of what the reply keeps.
KeepShort(c, mark, kept) ==
    IF kept < c.offset - mark.offset - 1
    THEN [c EXCEPT !.state = SubSeq(@, 1, mark.offset + kept),
                   !.offset = mark.offset + kept + 1,
                   !.headOffset = mark.headOffset + kept + 1]
    ELSE c

\* Keep: back to just after the kept-th draft of a pass begun at mark.  The
\* state after each token is there to go back to; the columns stay, stale.
Keep(c, mark, kept) ==
    IF kept < c.offset - mark.offset - 1
    THEN [c EXCEPT !.state = SubSeq(@, 1, mark.offset + kept + 1),
                   !.offset = mark.offset + kept + 1,
                   !.headOffset = mark.headOffset + kept + 1]
    ELSE c

----------------------------------------------------------------------------
(* The batch: rows that share one width of columns.  A row's text is right- *)
(* aligned at idx, its first pad columns masked out.                        *)

EmptyBatch == [idx |-> 0, cap |-> 0, pad |-> <<>>, free |-> <<>>, keys |-> <<>>, state |-> <<>>]

Width(b) == Len(b.pad)
FreeRows(b) == {r \in 1 .. Width(b) : b.free[r]}
LiveRows(b) == {r \in 1 .. Width(b) : ~b.free[r]}

\* What row r attends to.
RowKeys(b, r) == SubSeq(b.keys[r], b.pad[r] + 1, b.idx)

Release(b, S) == [b EXCEPT !.free = [r \in DOMAIN @ |-> @[r] \/ r \in S]]

\* Wrong: a free row's padding is cut like the others'.
TrimNegative(b, most) ==
    LET cut == Min({most} \cup {b.pad[r] : r \in LiveRows(b)})
        cap == RoundUp(b.idx - cut + 1)
    IN IF cut < kvStep THEN b
       ELSE [b EXCEPT !.idx = @ - cut, !.cap = cap,
                      !.pad = [r \in DOMAIN @ |-> @[r] - cut],
                      !.keys = [r \in DOMAIN @ |-> Place(@[r], cut, b.idx, 0, cap)]]

\* trim: cut the columns every live row has as padding, the first `most` at most.
Trim(b, most) ==
    LET cut == Min({most} \cup {b.pad[r] : r \in LiveRows(b)})
        cap == RoundUp(b.idx - cut + 1)
    IN IF cut < kvStep THEN b
       ELSE [b EXCEPT !.idx = @ - cut, !.cap = cap,
                      !.pad = [r \in DOMAIN @ |-> AtLeastZero(@[r] - cut)],
                      !.keys = [r \in DOMAIN @ |-> Place(@[r], cut, b.idx, 0, cap)]]

\* Wrong: the rows move right and their padding stays.
MakeRoomUnpadded(b, n) ==
    LET shift == AtLeastZero(n - b.idx)
        cap == Max({b.cap, RoundUp(b.idx + shift + 1)})
    IN [b EXCEPT !.idx = @ + shift, !.cap = cap,
                 !.keys = [r \in DOMAIN @ |-> Place(@[r], 0, b.idx, shift, cap)]]

\* makeRoom: every row moves right until n columns fit before idx, and the
\* buffers hold column idx.
MakeRoom(b, n) ==
    LET shift == AtLeastZero(n - b.idx)
        cap == Max({b.cap, RoundUp(b.idx + shift + 1)})
    IN IF shift = 0 /\ cap = b.cap THEN b
       ELSE [b EXCEPT !.idx = @ + shift, !.cap = cap,
                      !.pad = [r \in DOMAIN @ |-> @[r] + shift],
                      !.keys = [r \in DOMAIN @ |-> Place(@[r], 0, b.idx, shift, cap)]]

\* fill: c into free row r.
Fill(b, r, c) ==
    [b EXCEPT !.pad[r] = b.idx - c.offset, !.free[r] = FALSE,
              !.keys[r] = Written(@, b.idx - c.offset, Keys(c)),
              !.state[r] = c.state]

\* appendRows: c as a new row, then `extra` free ones of one column each.
AppendRows(b, c, extra) ==
    LET spare(x) == [k \in 1 .. extra |-> x] IN
    [b EXCEPT !.pad = @ \o <<b.idx - c.offset>> \o spare(AtLeastZero(b.idx - 1)),
              !.free = @ \o <<FALSE>> \o spare(TRUE),
              !.keys = @ \o <<Place(c.keys, 0, c.offset, b.idx - c.offset, b.cap)>>
                         \o spare(Blanks(b.cap)),
              !.state = @ \o <<c.state>> \o spare(<<>>)]

\* The row a newcomer gets.
JoinsAt(b) == IF FreeRows(b) # {} THEN Min(FreeRows(b)) ELSE Width(b) + 1

\* Add: an empty batch takes the cache's arrays for its own.
Add(b, c, room) ==
    IF Width(b) = 0
    THEN [idx |-> c.offset, cap |-> Len(c.keys), pad |-> <<0>>, free |-> <<FALSE>>,
          keys |-> <<c.keys>>, state |-> <<c.state>>]
    ELSE LET wide == MakeRoom(Trim(b, b.idx - c.offset), c.offset) IN
         IF FreeRows(b) # {} THEN Fill(wide, JoinsAt(b), c)
         ELSE AppendRows(wide, c, AtLeastZero(room - Width(b) - 1))

\* Remove the free rows; kept is where each of the others was.
Kept(b) ==
    LET upTo[r \in 0 .. Width(b)] ==
            IF r = 0 THEN <<>>
            ELSE IF b.free[r] THEN upTo[r - 1] ELSE Append(upTo[r - 1], r)
    IN upTo[Width(b)]
Taken(s, at) == [r \in DOMAIN at |-> s[at[r]]]

Compacted(b) ==
    LET kept == Kept(b)
        rest == [b EXCEPT !.pad = Taken(@, kept), !.free = Taken(@, kept),
                          !.keys = Taken(@, kept), !.state = Taken(@, kept)]
    IN IF kept = <<>> THEN EmptyBatch ELSE Trim(rest, b.idx)

\* Step: every row, free ones too, reads its token of `toks` into column idx.
StepBatch(b, toks) ==
    LET cap == IF b.cap > b.idx THEN b.cap ELSE RoundUp(b.idx + 1) IN
    [b EXCEPT !.idx = @ + 1, !.cap = cap,
              !.keys = [r \in DOMAIN @ |->
                          Written(Place(@[r], 0, b.idx, 0, cap), b.idx, <<toks[r]>>)],
              !.state = [r \in DOMAIN @ |-> Append(@[r], toks[r])]]
=============================================================================
