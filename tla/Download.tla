------------------------------ MODULE Download ------------------------------
(***************************************************************************)
(* Pulling one file of a model (internal/hub/download.go): a file fetched  *)
(* in pieces over several connections into name.part, a record of how far  *)
(* each piece has got in name.part.json, and the name the file takes once  *)
(* every byte is there.  Several processes may pull the same file, each    *)
(* may be killed between any two system calls, the power may go, and the   *)
(* repository may publish another version meanwhile.                       *)
(*                                                                         *)
(* One action is one system call, or one step of a connection.  A file is  *)
(* the sequence of its bytes, and a byte is the version it was served from *)
(* or Hole.  What the machine shows of a file (bytes) may be ahead of what *)
(* the disk holds of it (disk); names and the record are as the file       *)
(* system shows them.                                                      *)
(***************************************************************************)
EXTENDS Naturals, Sequences, FiniteSets

CONSTANTS
    Pulls,      \* processes that pull the file
    Conns,      \* identities of the connections of one pull
    Files,      \* identities of files; reused once nothing leads to them
    Versions,   \* contents the repository has had
    SizeOf,     \* their sizes
    PieceSize,  \* what one request asks for
    Loads,      \* settings, each with the bounds explored under it, below
    Hole,       \* a byte never written
    None

(***************************************************************************)
(* A setting: whether the server names the file's size, sha256, etag and   *)
(* commit, whether it redirects to an address of that version alone        *)
(* (pinned: the CDN's) or serves the file itself from the one it was asked *)
(* at, whether flush reaches the disk (fsync does on Linux, and on macOS   *)
(* only F_FULLFSYNC would), and the connections asked for.                 *)
(***************************************************************************)
Setting == [sized : BOOLEAN, sum : BOOLEAN, etag : BOOLEAN, commit : BOOLEAN, pinned : BOOLEAN,
            flushed : BOOLEAN, conns : (SUBSET Conns) \ {{}}]

\* How many pulls are begun, versions pushed, power cuts suffered and
\* finished files removed.
Bound == [pulls : Nat, pushes : Nat, cuts : Nat, removals : Nat]

\* There is always an identity no name and no other pull leads to.
ASSUME FilesAssumption ==
    IsFiniteSet(Pulls) /\ IsFiniteSet(Files) /\ Cardinality(Files) > Cardinality(Pulls) + 1
ASSUME SizesAssumption ==
    Versions # {} /\ SizeOf \in [Versions -> Nat \ {0}] /\ PieceSize \in Nat \ {0}
ASSUME LoadsAssumption == Loads \subseteq [setting : Setting, bound : Bound] /\ Loads # {}
ASSUME NoneAssumption == None \notin Files /\ Hole \notin Versions

VARIABLES
    setting,
    main,         \* the version the repository's main is at
    part, final,  \* the files name.part and name lead to
    rec, tmp,     \* name.part.json; whether name.part.json.tmp is there
    bytes, disk,  \* by file: what it reads as, and what a power cut leaves of it
    pull,         \* by process: the download under way
    left          \* how often each bounded thing may happen yet

names == <<part, final, rec, tmp>>
world == <<setting, main, left>>
vars == <<setting, main, part, final, rec, tmp, bytes, disk, pull, left>>

Pieces(v) == 1 .. (SizeOf[v] + PieceSize - 1) \div PieceSize
StartOf(i) == (i - 1) * PieceSize
PieceLen(v, i) ==
    IF i * PieceSize <= SizeOf[v] THEN PieceSize ELSE SizeOf[v] - StartOf(i)

Etag(v) == IF setting.etag THEN v ELSE None

Blank(n) == [i \in 1 .. n |-> Hole]
Whole(v) == [i \in 1 .. SizeOf[v] |-> v]
Nothing(v) == [i \in Pieces(v) |-> 0]

Free == [state |-> "free", piece |-> 0, from |-> None]
Ended == [state |-> "ended", piece |-> 0, from |-> None]

Longest == CHOOSE n \in {SizeOf[v] : v \in Versions} : \A v \in Versions : SizeOf[v] <= n

\* No download.  done is the empty sequence while the file is not in pieces;
\* the address url is of one version, or of whichever main is at (moving).
Off == [pc |-> "idle", want |-> None, url |-> None, moving |-> FALSE, fd |-> None,
        locked |-> FALSE, tries |-> 0, done |-> <<>>, snap |-> <<>>, after |-> "run", taken |-> 0,
        conn |-> [c \in Conns |-> IF c \in setting.conns THEN Free ELSE Ended],
        checked |-> 0, good |-> TRUE, cause |-> "none"]

Init ==
    /\ \E l \in Loads : setting = l.setting /\ left = l.bound
    /\ main = CHOOSE v \in Versions : TRUE
    /\ part = None /\ final = None /\ rec = None /\ tmp = FALSE
    /\ bytes = [f \in Files |-> <<>>] /\ disk = [f \in Files |-> <<>>]
    /\ pull = [p \in Pulls |-> Off]

At(p, pc) == pull[p].pc = pc
Goto(p, pc) == pull' = [pull EXCEPT ![p].pc = pc]
Exit(p) == pull' = [pull EXCEPT ![p] = Off]

----------------------------------------------------------------------------
(* Taking name.part.                                                       *)

\* resolveSoon: what main is at now.  Without a redirect the bytes are asked for
\* at main, also where the commit is known.
Start(p) ==
    /\ At(p, "idle") /\ left.pulls > 0
    /\ left' = [left EXCEPT !.pulls = @ - 1]
    /\ pull' = [pull EXCEPT ![p] = [Off EXCEPT !.pc = "open", !.want = main, !.url = main,
                                              !.moving = ~setting.pinned]]
    /\ UNCHANGED <<setting, main, names, bytes, disk>>

\* What a request made now is answered with.
Served(d) == IF d.moving THEN main ELSE d.url

Unused(f) == f \notin {part, final} /\ \A p \in Pulls : pull[p].fd # f

\* os.OpenFile with O_CREATE.
Open(p) ==
    /\ At(p, "open")
    /\ LET f == IF part = None THEN CHOOSE g \in Files : Unused(g) ELSE part IN
        /\ part' = f
        /\ IF part = None
           THEN bytes' = [bytes EXCEPT ![f] = <<>>] /\ disk' = [disk EXCEPT ![f] = <<>>]
           ELSE UNCHANGED <<bytes, disk>>
        /\ pull' = [pull EXCEPT ![p].pc = "lock", ![p].fd = f]
    /\ UNCHANGED <<world, final, rec, tmp>>

\* A file another process holds is its to pull.
Lock(p) ==
    /\ At(p, "lock")
    /\ IF \E q \in Pulls : pull[q].locked /\ pull[q].fd = pull[p].fd
       THEN Exit(p)
       ELSE pull' = [pull EXCEPT ![p].pc = "confirm", ![p].locked = TRUE]
    /\ UNCHANGED <<world, names, bytes, disk>>

\* Wrong: the file locked is taken for name.part whatever became of it.
ConfirmBlind(p) ==
    /\ At(p, "confirm")
    /\ Goto(p, "look")
    /\ UNCHANGED <<world, names, bytes, disk>>

\* The file locked is ours only while the name still leads to it.
Confirm(p) ==
    /\ At(p, "confirm")
    /\ IF part = pull[p].fd THEN Goto(p, "look")
       ELSE IF pull[p].tries = 2 THEN Exit(p)
       ELSE pull' = [pull EXCEPT ![p].pc = "open", ![p].fd = None, ![p].locked = FALSE,
                                 ![p].tries = @ + 1]
    /\ UNCHANGED <<world, names, bytes, disk>>

\* A file of the right size under the name is this one, pulled before.
Look(p) ==
    /\ At(p, "look")
    /\ IF setting.sized /\ final # None /\ Len(bytes[final]) = SizeOf[pull[p].want]
       THEN part' = None /\ Goto(p, "forget")
       ELSE UNCHANGED part /\ Goto(p, "prepare")
    /\ UNCHANGED <<world, final, rec, tmp, bytes, disk>>

\* Wrong: an etag nobody named is equal to another.
EarlierUnnamed(p) ==
    /\ rec # None /\ rec.size = SizeOf[pull[p].want] /\ rec.etag = Etag(pull[p].want)
    /\ Len(bytes[pull[p].fd]) = SizeOf[pull[p].want]

\* What an earlier pull of the same content left on record.
Earlier(p) ==
    /\ rec # None /\ rec.size = SizeOf[pull[p].want]
    /\ setting.etag /\ rec.etag = Etag(pull[p].want)
    /\ Len(bytes[pull[p].fd]) = SizeOf[pull[p].want]

\* prepare goes on from there, or empties the file and extends it with holes.
Prepare(p) ==
    LET d == pull[p] IN
    /\ At(p, "prepare")
    /\ CASE ~setting.sized -> Goto(p, "stream") /\ UNCHANGED bytes
         [] setting.sized /\ Earlier(p) ->
                /\ pull' = [pull EXCEPT ![p].pc = "run", ![p].done = rec.done]
                /\ UNCHANGED bytes
         [] OTHER ->
                /\ pull' = [pull EXCEPT ![p].pc = "extend", ![p].done = Nothing(d.want)]
                /\ bytes' = [bytes EXCEPT ![d.fd] = <<>>]
    /\ UNCHANGED <<world, names, disk>>

Extend(p) ==
    /\ At(p, "extend")
    /\ bytes' = [bytes EXCEPT ![pull[p].fd] = Blank(SizeOf[pull[p].want])]
    /\ pull' = [pull EXCEPT ![p].pc = "flush", ![p].snap = pull[p].done, ![p].after = "begin"]
    /\ UNCHANGED <<world, names, disk>>

----------------------------------------------------------------------------
(* The record.                                                             *)

Saving == {"flush", "write", "rename"}

\* save has read how far the pieces are; the file goes to disk first.
Flush(p) ==
    /\ At(p, "flush")
    /\ disk' = IF setting.flushed THEN [disk EXCEPT ![pull[p].fd] = bytes[pull[p].fd]] ELSE disk
    /\ Goto(p, "write")
    /\ UNCHANGED <<world, names, bytes>>

\* Wrong: how far the pieces are is read once the file has been flushed.
WriteLater(p) ==
    /\ At(p, "write")
    /\ tmp' = TRUE /\ pull' = [pull EXCEPT ![p].pc = "rename", ![p].snap = pull[p].done]
    /\ UNCHANGED <<world, part, final, rec, bytes, disk>>

Write(p) ==
    /\ At(p, "write")
    /\ tmp' = TRUE /\ Goto(p, "rename")
    /\ UNCHANGED <<world, part, final, rec, bytes, disk>>

\* The rename fails if another pull's forget removed the file just written.
Rename(p) ==
    LET d == pull[p] IN
    /\ At(p, "rename")
    /\ IF tmp
       THEN /\ rec' = [size |-> SizeOf[d.want], etag |-> Etag(d.want), done |-> d.snap]
            /\ tmp' = FALSE
            /\ Goto(p, IF d.after = "begin" THEN "run" ELSE d.after)
       ELSE /\ UNCHANGED <<rec, tmp>>
            /\ CASE d.after = "begin" -> Exit(p)
                 [] d.after = "failed" -> Goto(p, "failed")
                 [] OTHER -> pull' = [pull EXCEPT ![p].pc = "run",
                                        ![p].cause = IF @ = "none" THEN "other" ELSE @]
    /\ UNCHANGED <<world, part, final, bytes, disk>>

Forget == rec' = None /\ tmp' = FALSE

----------------------------------------------------------------------------
(* The connections.                                                        *)

\* run's goroutines work while its own loop ticks or saves.
Running(p) == At(p, "run") \/ (pull[p].pc \in Saving /\ pull[p].after = "run")

\* Wrong: a piece is taken for full one byte early.
FullEarly(d, i) == d.done[i] + 1 >= PieceLen(d.want, i)

Full(d, i) == d.done[i] = PieceLen(d.want, i)

Unfilled(d) == {i \in Pieces(d.want) : i > d.taken /\ ~Full(d, i)}

\* take: the next piece with bytes missing.
Take(p, c) ==
    LET d == pull[p] IN
    /\ Running(p) /\ d.conn[c].state = "free"
    /\ IF Unfilled(d) = {}
       THEN pull' = [pull EXCEPT ![p].conn[c] = Ended]
       ELSE \E i \in Unfilled(d) :
                /\ \A j \in Unfilled(d) : i <= j
                /\ pull' = [pull EXCEPT ![p].taken = i,
                        ![p].conn[c] = [state |-> "filling", piece |-> i, from |-> Served(d)]]
    /\ UNCHANGED <<world, names, bytes, disk>>

Filling(p, c) == Running(p) /\ pull[p].conn[c].state = "filling"

Lacks(p, c) == Filling(p, c) /\ ~Full(pull[p], pull[p].conn[c].piece)

\* get: what arrives, of this request or of another for the rest, is written ...
Put(p, c) ==
    LET d == pull[p]
        i == d.conn[c].piece
    IN
    /\ Lacks(p, c)
    /\ \E v \in {d.conn[c].from, Served(d)} :
        /\ StartOf(i) + d.done[i] < SizeOf[v]
        /\ bytes' = [bytes EXCEPT ![d.fd][StartOf(i) + d.done[i] + 1] = v]
        /\ pull' = [pull EXCEPT ![p].conn[c] = [state |-> "put", piece |-> i, from |-> v]]
    /\ UNCHANGED <<world, names, disk>>

\* ... and then counted.
Count(p, c) ==
    LET i == pull[p].conn[c].piece IN
    /\ Running(p) /\ pull[p].conn[c].state = "put"
    /\ pull' = [pull EXCEPT ![p].done[i] = @ + 1, ![p].conn[c].state = "filling"]
    /\ UNCHANGED <<world, names, bytes, disk>>

Filled(p, c) ==
    /\ Filling(p, c) /\ Full(pull[p], pull[p].conn[c].piece)
    /\ pull' = [pull EXCEPT ![p].conn[c] = Free]
    /\ UNCHANGED <<world, names, bytes, disk>>

EndsWith(p, c, cause) ==
    pull' = [pull EXCEPT ![p].conn[c] = Ended,
                         ![p].cause = IF @ = "none" THEN cause ELSE @]

\* An error asking again cannot fix, or patience is over; "noRanges" is a
\* server that answers with the whole file.
Fails(p, c) ==
    /\ Lacks(p, c)
    /\ \E cause \in {"other", "noRanges"} : EndsWith(p, c, cause)
    /\ UNCHANGED <<world, names, bytes, disk>>

\* refresh: the address expired, and a new one must serve the same file.  It is
\* asked for at the commit, where that is known.
Refresh(p, c) ==
    LET d == pull[p]
        v == IF setting.commit THEN d.want ELSE main
    IN
    /\ Lacks(p, c)
    /\ IF (setting.etag /\ v # d.want) \/ SizeOf[v] # SizeOf[d.want]
       THEN EndsWith(p, c, "other")
       ELSE pull' = [pull EXCEPT ![p].url = v,
                                 ![p].moving = ~setting.pinned /\ ~setting.commit]
    /\ UNCHANGED <<world, names, bytes, disk>>

\* The pull was cancelled: by another connection, the check or the user.
GivesUp(p, c) ==
    /\ Lacks(p, c) /\ pull[p].cause # "none"
    /\ EndsWith(p, c, "other")
    /\ UNCHANGED <<world, names, bytes, disk>>

----------------------------------------------------------------------------
(* The check, and the loop that waits for all of them.                     *)

\* ready: how far from its start the file is on disk without a gap.
Ready(d) ==
    LET lacking == {i \in Pieces(d.want) : ~Full(d, i)} IN
    IF lacking = {} THEN SizeOf[d.want]
    ELSE LET i == CHOOSE i \in lacking : \A j \in lacking : i <= j
         IN StartOf(i) + d.done[i]

Check(p) ==
    LET d == pull[p] IN
    /\ setting.sum /\ Running(p) /\ d.cause = "none"
    /\ d.checked < Ready(d)
    /\ pull' = [pull EXCEPT ![p].checked = @ + 1,
                            ![p].good = @ /\ bytes[d.fd][d.checked + 1] = d.want]
    /\ UNCHANGED <<world, names, bytes, disk>>

Mismatch(p) ==
    LET d == pull[p] IN
    /\ setting.sum /\ Running(p) /\ d.cause = "none"
    /\ d.checked = SizeOf[d.want] /\ ~d.good
    /\ pull' = [pull EXCEPT ![p].cause = "mismatch"]
    /\ UNCHANGED <<world, names, bytes, disk>>

CheckOver(d) ==
    \/ ~setting.sum
    \/ d.cause # "none"
    \/ d.checked = SizeOf[d.want] /\ d.good

\* Ctrl-C, a disk nearly full, a record that could not be written.
Stop(p) ==
    /\ Running(p) /\ pull[p].cause = "none"
    /\ pull' = [pull EXCEPT ![p].cause = "other"]
    /\ UNCHANGED <<world, names, bytes, disk>>

\* Every other second while the pieces arrive.
Tick(p) ==
    /\ At(p, "run")
    /\ pull' = [pull EXCEPT ![p].pc = "flush", ![p].snap = pull[p].done, ![p].after = "run"]
    /\ UNCHANGED <<world, names, bytes, disk>>

Over(p) ==
    LET d == pull[p] IN
    At(p, "run") /\ CheckOver(d) /\ \A c \in Conns : d.conn[c] = Ended

\* run returns, and DownloadAs goes by why.
RunEnds(p) ==
    LET d == pull[p] IN
    /\ Over(p)
    /\ CASE d.cause = "none" -> Goto(p, "sync")
         [] d.cause = "noRanges" -> Goto(p, "stream")
         [] d.cause = "mismatch" -> Goto(p, "failed")
         [] OTHER -> pull' = [pull EXCEPT ![p].pc = "flush", ![p].snap = d.done,
                                          ![p].after = "failed"]
    /\ UNCHANGED <<world, names, bytes, disk>>

----------------------------------------------------------------------------
(* One request for the whole file.                                         *)

\* stream forgets the pieces first ...
Stream(p) ==
    /\ At(p, "stream")
    /\ Forget
    /\ pull' = [pull EXCEPT ![p].pc = "empty", ![p].done = <<>>, ![p].checked = 0,
                            ![p].good = TRUE, ![p].cause = "none"]
    /\ UNCHANGED <<world, part, final, bytes, disk>>

\* ... then what they left in the file, and asks.
Empty(p) ==
    /\ At(p, "empty")
    /\ bytes' = [bytes EXCEPT ![pull[p].fd] = <<>>]
    /\ pull' = [pull EXCEPT ![p].pc = "streaming", ![p].url = Served(pull[p]), ![p].moving = FALSE]
    /\ UNCHANGED <<world, names, disk>>

\* The sum is of what arrives, not of what the file reads as.
Streams(p) ==
    LET d == pull[p] IN
    /\ At(p, "streaming") /\ Len(bytes[d.fd]) < SizeOf[d.url]
    /\ bytes' = [bytes EXCEPT ![d.fd] = Append(@, d.url)]
    /\ pull' = [pull EXCEPT ![p].good = @ /\ d.url = d.want]
    /\ UNCHANGED <<world, names, disk>>

StreamEnds(p) ==
    LET d == pull[p] IN
    /\ At(p, "streaming") /\ Len(bytes[d.fd]) = SizeOf[d.url]
    /\ IF setting.sum /\ ~d.good
       THEN pull' = [pull EXCEPT ![p].pc = "failed", ![p].cause = "mismatch"]
       ELSE Goto(p, "sync")
    /\ UNCHANGED <<world, names, bytes, disk>>

StreamFails(p) ==
    /\ At(p, "streaming")
    /\ Goto(p, "failed")
    /\ UNCHANGED <<world, names, bytes, disk>>

----------------------------------------------------------------------------
(* The end: finish, or failed.                                             *)

\* finish: on disk whole before it has its name.
Sync(p) ==
    /\ At(p, "sync")
    /\ disk' = [disk EXCEPT ![pull[p].fd] = bytes[pull[p].fd]]
    /\ Goto(p, "name")
    /\ UNCHANGED <<world, names, bytes>>

\* Wrong: the lock goes before the name is given.
NameUnlocked(p) ==
    /\ At(p, "name")
    /\ IF pull[p].locked
       THEN /\ pull' = [pull EXCEPT ![p].locked = FALSE]
            /\ UNCHANGED <<part, final>>
       ELSE /\ part # None /\ final' = part /\ part' = None
            /\ pull' = [pull EXCEPT ![p].pc = "close"]
    /\ UNCHANGED <<world, rec, tmp, bytes, disk>>

\* The file takes its name while it is still locked.
Name(p) ==
    /\ At(p, "name")
    /\ IF part = None THEN UNCHANGED <<part, final>> /\ Goto(p, "failed")
                      ELSE final' = part /\ part' = None /\ Goto(p, "close")
    /\ UNCHANGED <<world, rec, tmp, bytes, disk>>

Close(p) ==
    /\ At(p, "close")
    /\ pull' = [pull EXCEPT ![p].pc = "forget", ![p].fd = None, ![p].locked = FALSE]
    /\ UNCHANGED <<world, names, bytes, disk>>

Nobytes(d) == \A i \in DOMAIN d.done : d.done[i] = 0

\* What a ranged pull fetched is kept for the next one, unless it is wrong.
Failed(p) ==
    LET d == pull[p] IN
    /\ At(p, "failed")
    /\ IF Nobytes(d) \/ d.cause = "mismatch" THEN part' = None /\ Goto(p, "forget")
                                             ELSE UNCHANGED part /\ Exit(p)
    /\ UNCHANGED <<world, final, rec, tmp, bytes, disk>>

ForgetLast(p) ==
    /\ At(p, "forget")
    /\ Forget /\ Exit(p)
    /\ UNCHANGED <<world, part, final, bytes, disk>>

----------------------------------------------------------------------------
(* What happens to a pull.                                                 *)

Push ==
    /\ left.pushes > 0
    /\ left' = [left EXCEPT !.pushes = @ - 1]
    /\ main' \in Versions \ {main}
    /\ UNCHANGED <<setting, names, bytes, disk, pull>>

\* kinfer rm of the finished file.
Delete ==
    /\ left.removals > 0 /\ final # None
    /\ left' = [left EXCEPT !.removals = @ - 1]
    /\ final' = None
    /\ UNCHANGED <<setting, main, part, rec, tmp, bytes, disk, pull>>

\* The process dies; the system keeps what it wrote and drops its lock.
Killed(p) ==
    /\ ~At(p, "idle")
    /\ Exit(p)
    /\ UNCHANGED <<world, names, bytes, disk>>

\* Of what was not flushed, any part may be gone.
PowerCut ==
    /\ left.cuts > 0
    /\ left' = [left EXCEPT !.cuts = @ - 1]
    /\ \E lost \in SUBSET (1 .. Longest) :
        bytes' = [f \in Files |-> [i \in 1 .. Len(bytes[f]) |->
                    IF i \notin lost THEN bytes[f][i]
                    ELSE IF i <= Len(disk[f]) THEN disk[f][i] ELSE Hole]]
    /\ disk' = bytes'
    /\ pull' = [p \in Pulls |-> Off]
    /\ UNCHANGED <<setting, main, names>>

Connection(p, c) ==
    \/ Take(p, c) \/ Put(p, c) \/ Count(p, c) \/ Filled(p, c) \/ GivesUp(p, c)

Goes(p) ==
    \/ Open(p) \/ Lock(p) \/ Confirm(p) \/ Look(p) \/ Prepare(p) \/ Extend(p)
    \/ Flush(p) \/ Write(p) \/ Rename(p)
    \/ Check(p) \/ Mismatch(p) \/ RunEnds(p)
    \/ Stream(p) \/ Empty(p) \/ Streams(p) \/ StreamEnds(p)
    \/ Sync(p) \/ Name(p) \/ Close(p) \/ Failed(p) \/ ForgetLast(p)

Mishap(p) ==
    \/ \E c \in Conns : Fails(p, c) \/ Refresh(p, c)
    \/ Stop(p) \/ StreamFails(p) \/ Killed(p)

Next ==
    \/ \E p \in Pulls :
        \/ Start(p) \/ Goes(p) \/ Tick(p) \/ Mishap(p)
        \/ \E c \in Conns : Connection(p, c)
    \/ Push \/ Delete \/ PowerCut

Spec == Init /\ [][Next]_vars

----------------------------------------------------------------------------
TypeOK ==
    /\ setting \in Setting /\ left \in Bound /\ main \in Versions
    /\ {part, final} \subseteq Files \cup {None}
    /\ rec = None \/ \E v \in Versions :
                        /\ rec.size = SizeOf[v] /\ rec.etag = Etag(v)
                        /\ rec.done \in [Pieces(v) -> 0 .. PieceSize]
    /\ tmp \in BOOLEAN
    /\ \A f \in Files : {bytes[f], disk[f]} \subseteq Seq(Versions \cup {Hole})
    /\ \A p \in Pulls :
        LET d == pull[p] IN
        /\ d.fd \in Files \cup {None} /\ d.locked \in BOOLEAN
        /\ {d.want, d.url} \subseteq Versions \cup {None} /\ d.moving \in BOOLEAN
        /\ d.done # <<>> => \A i \in Pieces(d.want) : d.done[i] \in 0 .. PieceLen(d.want, i)
        /\ d.cause \in {"none", "other", "noRanges", "mismatch"}

\* What the sum or the disk vouches for.
Vouched == setting.sum \/ setting.flushed

\* Where the record can be trusted, when there is no sha256: it outlives its
\* file when a pull is killed after naming it, or while it readies the file for
\* another version (README, Disagreements), and is taken for the new file's if
\* the etag is the same; and a server that names no commit, or serves the file
\* from main itself, may change it under a pull.
Kept ==
    \A l \in Loads :
        l.setting.flushed /\ ~l.setting.sum /\ l.setting.sized =>
            /\ l.setting.etag => l.bound.pushes = 0 /\ l.bound.removals = 0
            /\ ~l.setting.etag /\ ~(l.setting.commit /\ l.setting.pinned) => l.bound.pushes = 0

\* A file under its final name is whole, of one version, and on the disk so:
\* whatever was interrupted, resumed, lost or pushed before.
FinalWhole ==
    Vouched /\ final # None =>
        \E v \in Versions : bytes[final] = Whole(v) /\ disk[final] = Whole(v)

\* "Every later request names this commit, so a push to the repo during the pull
\* cannot leave pieces of two versions in one file" (download.go:124).
OneVersion ==
    setting.commit /\ final # None =>
        \A m, n \in 1 .. Len(bytes[final]) : bytes[final][m] = bytes[final][n]

\* From its lock to its name, a pull has name.part to itself: nobody removes,
\* renames or replaces it, so what it removes and renames is its own.
Owner(p) == pull[p].locked /\ pull[p].pc \notin {"lock", "confirm", "close", "forget"}
PartIsOurs == \A p \in Pulls : Owner(p) => part = pull[p].fd

\* The record is never ahead of the file: what a pull counts as there, the
\* bytes it goes on from among it, was written.  Checked where there is no
\* sha256 to find it out and nothing but the record to go by.
Arrived(done, v, content) ==
    \A i \in Pieces(v) : \A k \in 1 .. done[i] :
        StartOf(i) + k <= Len(content) /\ content[StartOf(i) + k] = v
RecordBehind ==
    setting.flushed /\ ~setting.sum =>
        \A p \in Pulls : pull[p].done # <<>> /\ Owner(p) /\ pull[p].pc # "extend" =>
            Arrived(pull[p].done, pull[p].want, bytes[pull[p].fd])

\* A pull and its bytes: name.part is its own, and holds what it counts on.
PartHolds == TypeOK /\ PartIsOurs /\ RecordBehind
=============================================================================
