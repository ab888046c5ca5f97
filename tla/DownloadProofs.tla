--------------------------- MODULE DownloadProofs ---------------------------
(***************************************************************************)
(* What holds of the pulls of a file for every number of processes,        *)
(* connections, versions and sizes: from its lock to its name a pull has   *)
(* name.part to itself; what it counts as fetched is there, also after a   *)
(* kill or a power cut; and a file under its final name is whole, of one   *)
(* version, and on the disk.                                               *)
(***************************************************************************)
EXTENDS Download, FiniteSetTheorems, FunctionTheorems, SequenceTheorems,
        WellFoundedInduction, TLAPS

\* What a pull counts is all there is to go by; or something vouches for it.
Bare(s) == Kept /\ s.flushed /\ ~s.sum
Sure(s) == s.sum \/ Bare(s)

----------------------------------------------------------------------------
(* The invariant.                                                          *)

Early == {"open", "lock", "confirm", "look", "prepare"}
Ranged == {"run"} \cup Saving
Owning == {"look", "prepare", "extend", "stream", "empty", "streaming", "failed", "sync", "name"}
              \cup Ranged
PCs == {"idle", "open", "lock", "confirm", "close", "forget"} \cup Owning
Byte == Versions \cup {Hole}
Busy == {"filling", "put"}

\* How far the pieces of version v may be.
Within(done, v) ==
    done \in [Pieces(v) -> Nat] /\ \A i \in Pieces(v) : done[i] <= PieceLen(v, i)

Lanes == [state : {"free", "ended"} \cup Busy, piece : Nat, from : Versions \cup {None}]

Work ==
    [pc : PCs, want : Versions \cup {None}, url : Versions \cup {None}, moving : BOOLEAN,
     fd : Files \cup {None}, locked : BOOLEAN, tries : Nat,
     done : {<<>>} \cup UNION {[Pieces(v) -> Nat] : v \in Versions},
     snap : {<<>>} \cup UNION {[Pieces(v) -> Nat] : v \in Versions},
     after : {"begin", "run", "failed"}, taken : Nat,
     conn : [Conns -> Lanes],
     checked : Nat, good : BOOLEAN, cause : {"none", "other", "noRanges", "mismatch"}]

Types ==
    /\ setting \in Setting /\ left \in Bound /\ main \in Versions /\ tmp \in BOOLEAN
    /\ rec = None \/ \E v \in Versions :
                        rec.size = SizeOf[v] /\ rec.etag = Etag(v) /\ Within(rec.done, v)
    /\ bytes \in [Files -> Seq(Byte)] /\ disk \in [Files -> Seq(Byte)]
    /\ pull \in [Pulls -> Work]

\* Who has which file, and what its name is.
Locks ==
    /\ {part, final} \subseteq Files \cup {None} /\ (part # None => part # final)
    /\ \A p \in Pulls : LET d == pull[p] IN
        /\ d.pc \in {"idle", "open", "lock"} => ~d.locked
        /\ d.pc \in {"idle", "open"} => d.fd = None
        /\ d.pc = "lock" \/ d.locked => d.fd # None
        /\ d.pc \in Owning \cup {"confirm", "close"} => d.locked
        /\ d.pc \in Owning => part = d.fd
    /\ \A p, q \in Pulls :
        pull[p].locked /\ pull[q].locked /\ pull[p].fd = pull[q].fd => p = q

\* The connections of a pull work, or may.
Works(d) == d.pc = "run" \/ (d.pc \in Saving /\ d.after = "run")

Fresh(s, d) ==
    /\ d.taken = 0 /\ d.checked = 0 /\ d.cause = "none"
    /\ d.conn = [c \in Conns |-> IF c \in s.conns THEN Free ELSE Ended]

\* A piece is one connection's.
Lines(s, d) ==
    /\ \A c \in Conns \ s.conns : d.conn[c] = Ended
    /\ \A c \in Conns : d.conn[c].state \in Busy =>
        /\ Works(d) /\ d.conn[c].piece \in Pieces(d.want) /\ d.conn[c].piece <= d.taken
        /\ d.conn[c].state = "put" => ~Full(d, d.conn[c].piece)
        /\ d.conn[c].from \in Versions /\ (Bare(s) => d.conn[c].from = d.want)
        /\ \A e \in Conns :
            d.conn[e].state \in Busy /\ d.conn[e].piece = d.conn[c].piece => e = c

\* No piece is passed over.
NoneMissed(s, d) ==
    Works(d) /\ d.cause = "none" =>
        /\ \A i \in Pieces(d.want) : i <= d.taken =>
            Full(d, i) \/ \E c \in Conns : d.conn[c].state \in Busy /\ d.conn[c].piece = i
        /\ (\E c \in s.conns : d.conn[c].state = "ended") => Unfilled(d) = {}

\* A pull by itself.
Shape(s, d) ==
    /\ d.pc # "idle" => d.want \in Versions /\ d.url \in Versions
    /\ d.done # <<>> => d.want \in Versions /\ Within(d.done, d.want)
    /\ d.pc \in Early => d.done = <<>> /\ Fresh(s, d)
    /\ d.pc = "extend" => d.done = Nothing(d.want) /\ Fresh(s, d)
    /\ d.pc \in {"empty", "streaming"} => d.done = <<>>
    /\ d.pc \in Ranged \cup {"extend"} => s.sized /\ d.done # <<>>
    /\ d.pc \in Saving =>
        /\ d.snap \in [Pieces(d.want) -> Nat] /\ \A i \in Pieces(d.want) : d.snap[i] <= d.done[i]
        /\ d.after = "begin" => Fresh(s, d)
    /\ Lines(s, d) /\ NoneMissed(s, d)
    /\ Bare(s) /\ s.sized => d.url = d.want
    /\ d.moving => ~s.pinned
    /\ d.cause = "mismatch" => s.sum

\* A byte the pull counts.
Counts(d, n) == \E i \in Pieces(d.want) : \E k \in 1 .. d.done[i] : n = StartOf(i) + k

\* A pull and its file, which reads b and is k on the disk.
Holds(s, d, b, k) ==
    /\ d.pc = "extend" => b = <<>>
    /\ d.pc \in Ranged => Len(b) = SizeOf[d.want]
    /\ Bare(s) /\ d.done # <<>> /\ d.pc # "extend" => Arrived(d.done, d.want, b)
    /\ Bare(s) => \A c \in Conns : d.conn[c].state = "put" =>
        b[StartOf(d.conn[c].piece) + d.done[d.conn[c].piece] + 1] = d.want
    /\ Bare(s) /\ d.pc \in {"write", "rename"} => Arrived(d.snap, d.want, k)
    /\ s.sum /\ d.pc \in Ranged =>
        /\ d.checked <= SizeOf[d.want]
        /\ \A n \in 1 .. d.checked : Counts(d, n) /\ (d.good => b[n] = d.want)
    /\ d.pc = "streaming" => Len(b) <= SizeOf[d.url] /\ \A n \in 1 .. Len(b) : b[n] = d.url
    /\ Sure(s) /\ d.pc \in {"sync", "name"} => b = Whole(d.want) \/ b = Whole(d.url)
    /\ d.pc = "name" => k = b

Pulling ==
    \A p \in Pulls :
        /\ Shape(setting, pull[p])
        /\ pull[p].pc \in Owning => Holds(setting, pull[p], bytes[pull[p].fd], disk[pull[p].fd])

\* Where nothing else tells versions apart there is one.
Still ==
    Bare(setting) /\ setting.sized =>
        /\ setting.etag \/ ~(setting.commit /\ setting.pinned) =>
            left.pushes = 0 /\ \A p \in Pulls : pull[p].pc # "idle" => pull[p].want = main
        /\ setting.etag => left.removals = 0

\* The record is of name.part; or of nothing, or of the file that has its
\* name, which no pull then gets past.
Recorded ==
    Bare(setting) /\ setting.sized /\ setting.etag =>
        /\ final # None => /\ Len(bytes[final]) = SizeOf[main]
                           /\ \A p \in Pulls : pull[p].pc \in Owning => pull[p].pc = "look"
        /\ rec # None =>
            /\ rec.size = SizeOf[main] /\ rec.etag = main /\ Within(rec.done, main)
            /\ \/ \A i \in Pieces(main) : rec.done[i] = 0
               \/ final # None
               \/ /\ part # None /\ Len(bytes[part]) = SizeOf[main]
                  /\ Arrived(rec.done, main, bytes[part])
                  /\ Arrived(rec.done, main, disk[part])
            /\ \A p \in Pulls : pull[p].pc \in Owning \ {"look", "prepare"} =>
                pull[p].done # <<>> /\ \A i \in Pieces(main) : rec.done[i] <= pull[p].done[i]

FinalSure ==
    Sure(setting) /\ final # None =>
        \E v \in Versions : bytes[final] = Whole(v) /\ disk[final] = Whole(v)

IInv == Types /\ Locks /\ Pulling /\ Still /\ Recorded /\ FinalSure

----------------------------------------------------------------------------
(* Pieces and places.                                                      *)

LEMMA Dividing ==
    ASSUME NEW x \in Nat, NEW n \in Nat \ {0}
    PROVE  x \div n \in Nat /\ n * (x \div n) <= x /\ x < n * (x \div n) + n
  OBVIOUS

LEMMA Growing ==
    ASSUME NEW a \in Nat, NEW b \in Nat, NEW n \in Nat
    PROVE  a <= b => n * a <= n * b
  <1>1. CASE a <= b
    <2>1. PICK c \in Nat : b = a + c
      <3>1. b - a \in Nat /\ b = a + (b - a)
        BY <1>1
      <3> QED
        BY <3>1
    <2>2. n * b = n * a + n * c /\ n * c \in Nat /\ n * a \in Nat
      BY <2>1
    <2> QED
      BY <2>2
  <1> QED
    BY <1>1

LEMMA SizeType ==
    ASSUME NEW v \in Versions
    PROVE  SizeOf[v] \in Nat \ {0} /\ PieceSize \in Nat \ {0}
  BY SizesAssumption

\* All pieces but the last are full ones, and the last is not empty.
LEMMA PieceFacts ==
    ASSUME NEW v \in Versions, NEW i \in Pieces(v)
    PROVE  /\ i \in Nat \ {0} /\ StartOf(i) \in Nat
           /\ StartOf(i) < SizeOf[v]
           /\ PieceLen(v, i) \in 1 .. PieceSize
           /\ StartOf(i) + PieceLen(v, i) <= SizeOf[v]
           /\ StartOf(i) + PieceSize < SizeOf[v] => PieceLen(v, i) = PieceSize
  <1> DEFINE S == SizeOf[v]  P == PieceSize  N == (S + P - 1) \div P
  <1>1. S \in Nat \ {0} /\ P \in Nat \ {0}
    BY SizeType
  <1>2. N \in Nat /\ P * N <= S + P - 1
    <2> HIDE DEF S, P
    <2>1. S + P - 1 \in Nat
      BY <1>1
    <2> QED
      BY <1>1, <2>1, Dividing
  <1>3. i \in 1 .. N
    BY DEF Pieces
  <1>4. StartOf(i) = P * (i - 1) /\ i * P = P * (i - 1) + P
    <2>1. i \in Nat /\ P \in Nat
      BY <1>1, <1>2, <1>3
    <2> QED
      BY <2>1 DEF StartOf
  <1>5. P * (i - 1) \in Nat /\ P * (i - 1) <= S - 1
    <2> HIDE DEF S, P, N
    <2>1. i - 1 \in Nat /\ i <= N /\ i \in Nat
      BY <1>2, <1>3
    <2>2. P * i <= P * N
      BY <1>1, <1>2, <2>1, Growing
    <2>3. P * i = P * (i - 1) + P /\ P * (i - 1) \in Nat /\ P * N \in Nat
      BY <1>1, <1>2, <2>1
    <2> QED
      BY <1>1, <1>2, <2>2, <2>3
  <1>6. PieceLen(v, i) = IF P * (i - 1) + P <= S THEN P ELSE S - P * (i - 1)
    BY <1>4 DEF PieceLen
  <1>7. i \in Nat \ {0}
    BY <1>2, <1>3
  <1> DEFINE A == P * (i - 1)
  <1>8. A \in Nat /\ A <= S - 1 /\ StartOf(i) = A
        /\ PieceLen(v, i) = IF A + P <= S THEN P ELSE S - A
    BY <1>4, <1>5, <1>6
  <1> QED
    <2> HIDE DEF A, P, S
    <2>1. PieceLen(v, i) \in 1 .. P /\ A < S /\ A + PieceLen(v, i) <= S
          /\ (A + P < S => PieceLen(v, i) = P)
      BY <1>1, <1>8
    <2> QED
      BY <1>7, <1>8, <2>1 DEF P, S

LEMMA Apart ==
    ASSUME NEW v \in Versions, NEW i \in Pieces(v), NEW j \in Pieces(v), i < j
    PROVE  StartOf(i) + PieceSize <= StartOf(j)
  <1>1. i \in Nat \ {0} /\ j \in Nat \ {0} /\ PieceSize \in Nat
    BY PieceFacts, SizeType
  <1>2. PieceSize * i <= PieceSize * (j - 1)
    BY <1>1, Growing
  <1>3. StartOf(i) + PieceSize = PieceSize * i /\ StartOf(j) = PieceSize * (j - 1)
    BY <1>1 DEF StartOf
  <1> QED
    BY <1>2, <1>3

\* A byte is in one piece.
LEMMA OnePlace ==
    ASSUME NEW v \in Versions, NEW i \in Pieces(v), NEW j \in Pieces(v),
           NEW k \in 1 .. PieceLen(v, i), NEW l \in 1 .. PieceLen(v, j),
           StartOf(i) + k = StartOf(j) + l
    PROVE  i = j /\ k = l
  <1>1. /\ StartOf(i) \in Nat /\ StartOf(j) \in Nat /\ i \in Nat /\ j \in Nat
        /\ k \in 1 .. PieceSize /\ l \in 1 .. PieceSize /\ PieceSize \in Nat
    BY PieceFacts, SizeType
  <1>2. ~(i < j)
    <2> SUFFICES ASSUME i < j PROVE FALSE
      OBVIOUS
    <2>1. StartOf(i) + PieceSize <= StartOf(j)
      BY Apart
    <2> QED
      BY <1>1, <2>1
  <1>3. ~(j < i)
    <2> SUFFICES ASSUME j < i PROVE FALSE
      OBVIOUS
    <2>1. StartOf(j) + PieceSize <= StartOf(i)
      BY Apart
    <2> QED
      BY <1>1, <2>1
  <1>4. i = j
    BY <1>1, <1>2, <1>3
  <1> QED
    BY <1>1, <1>4

\* And every byte is in one.
LEMMA SomePlace ==
    ASSUME NEW v \in Versions, NEW n \in 1 .. SizeOf[v]
    PROVE  \E i \in Pieces(v) : \E k \in 1 .. PieceLen(v, i) : n = StartOf(i) + k
  <1> DEFINE S == SizeOf[v]  P == PieceSize  N == (S + P - 1) \div P  q == (n - 1) \div P
  <1>1. S \in Nat \ {0} /\ P \in Nat \ {0} /\ n \in Nat /\ n >= 1 /\ n <= S
    BY SizeType
  <1>2. N \in Nat /\ S + P - 1 < P * N + P
    <2> HIDE DEF S, P
    <2>1. S + P - 1 \in Nat
      BY <1>1
    <2> QED
      BY <1>1, <2>1, Dividing
  <1>3. q \in Nat /\ P * q <= n - 1 /\ n - 1 < P * q + P
    <2> HIDE DEF S, P
    <2>1. n - 1 \in Nat
      BY <1>1
    <2> QED
      BY <1>1, <2>1, Dividing
  <1>4. q + 1 \in 1 .. N
    <2> HIDE DEF S, P, N, q
    <2> SUFFICES ASSUME N <= q PROVE FALSE
      BY <1>2, <1>3
    <2>1. P * N <= P * q
      BY <1>1, <1>2, <1>3, Growing
    <2>2. P * N \in Nat /\ P * q \in Nat
      BY <1>1, <1>2, <1>3
    <2> QED
      BY <1>1, <1>2, <1>3, <2>1, <2>2
  <1>5. q + 1 \in Pieces(v)
    BY <1>4 DEF Pieces
  <1>6. StartOf(q + 1) = P * q
    <2>1. q \in Nat /\ P \in Nat
      BY <1>1, <1>3
    <2> HIDE DEF q
    <2> QED
      BY <2>1 DEF StartOf
  <1> DEFINE i == q + 1  k == n - StartOf(i)
  <1>7. k \in 1 .. P /\ n = StartOf(i) + k
    <2> HIDE DEF q, P
    <2>1. P * q \in Nat
      BY <1>1, <1>3
    <2> QED
      BY <1>1, <1>3, <1>6, <2>1
  <1>8. k \in 1 .. PieceLen(v, i)
    <2>1. /\ StartOf(i) \in Nat /\ PieceLen(v, i) \in Nat
          /\ PieceLen(v, i) = IF StartOf(i) + P <= S THEN P ELSE S - StartOf(i)
      <3>1. StartOf(i) \in Nat /\ PieceLen(v, i) \in Nat
        BY <1>5, PieceFacts
      <3>2. i * P = StartOf(i) + P
        <4>1. q \in Nat /\ P \in Nat /\ StartOf(i) = P * q
          BY <1>1, <1>3, <1>6
        <4> HIDE DEF q, P
        <4> QED
          BY <4>1
      <3> QED
        BY <3>1, <3>2 DEF PieceLen
    <2> HIDE DEF i, P, S
    <2> QED
      BY <1>1, <1>7, <2>1
  <1> QED
    BY <1>5, <1>7, <1>8

\* A file has a piece.
LEMMA FirstPiece ==
    ASSUME NEW v \in Versions
    PROVE  1 \in Pieces(v)
  <1> DEFINE S == SizeOf[v]
  <1>1. S \in Nat \ {0} /\ 1 \in 1 .. S
    BY SizeType
  <1>2. PICK i \in Pieces(v) : \E k \in 1 .. PieceLen(v, i) : 1 = StartOf(i) + k
    BY <1>1, SomePlace
  <1>3. (S + PieceSize - 1) \div PieceSize \in Nat
    <2>1. S + PieceSize - 1 \in Nat /\ PieceSize \in Nat \ {0}
      BY SizeType
    <2> QED
      BY <2>1, Dividing
  <1>4. i \in Nat \ {0}
    BY PieceFacts
  <1> QED
    BY <1>3, <1>4 DEF Pieces

LEMMA Least ==
    ASSUME NEW S, IsFiniteSet(S), S # {}, S \subseteq Int
    PROVE  \E n \in S : \A m \in S : n <= m
<1> DEFINE Below(n) == {m \in S : m < n}
           R == StrictSubsetOrdering(S)
           T == {Below(n) : n \in S}
<1>1. IsWellFoundedOn(R, SUBSET S)
  <2>1. FiniteSubsetsOf(S) = SUBSET S
    BY FS_FiniteSubsetsOfFinite
  <2>2. IsWellFoundedOn(R, FiniteSubsetsOf(S))
    BY FS_StrictSubsetOrderingWellFounded
  <2> QED
    BY <2>1, <2>2
<1>2. T \subseteq SUBSET S /\ T # {}
  <2>1. \A n \in S : Below(n) \in SUBSET S
    OBVIOUS
  <2>2. \E n \in S : Below(n) \in T
    OBVIOUS
  <2> HIDE DEF Below
  <2> QED
    BY <2>1, <2>2
<1>3. PICK A \in T : \A B \in T : ~ (<<B, A>> \in R)
  <2> HIDE DEF T, R
  <2> QED
    BY <1>1, <1>2, WFMin
<1>4. PICK n \in S : A = Below(n)
    OBVIOUS
<1>5. ASSUME NEW m \in S, ~(n <= m) PROVE FALSE
  <2>1. Below(m) \in T
    OBVIOUS
  <2>2. m \in Int /\ n \in Int /\ m < n
    BY <1>5
  <2>3. Below(m) \subseteq Below(n)
    <3>1. \A x \in S : x \in Int
      OBVIOUS
    <3>2. \A x \in S : x < m => x < n
      BY <2>2, <3>1
    <3> QED
      BY <3>2
  <2>4. m \in Below(n) /\ m \notin Below(m)
    BY <2>2
  <2>5. <<Below(m), A>> \in R
    BY <1>4, <2>3, <2>4 DEF StrictSubsetOrdering
  <2> QED
    BY <1>3, <2>1, <2>5
<1> QED
    BY <1>5

\* Pieces are finitely many, so of any there is a first.
LEMMA FirstOf ==
    ASSUME NEW v \in Versions, NEW S \in SUBSET Pieces(v), S # {}
    PROVE  \E i \in S : \A j \in S : i <= j
  <1>1. (SizeOf[v] + PieceSize - 1) \div PieceSize \in Nat
    <2>1. SizeOf[v] + PieceSize - 1 \in Nat /\ PieceSize \in Nat \ {0}
      BY SizeType
    <2> QED
      BY <2>1, Dividing
  <1>2. IsFiniteSet(Pieces(v)) /\ Pieces(v) \subseteq Int
    BY <1>1, FS_Interval DEF Pieces
  <1>3. IsFiniteSet(S)
    BY <1>2, FS_Subset
  <1> QED
    BY <1>2, <1>3, Least

\* A place counted is one of the file's.
LEMMA CountedPlace ==
    ASSUME NEW v \in Versions, NEW done, Within(done, v), NEW i \in Pieces(v), NEW k \in 1 .. done[i]
    PROVE  k \in 1 .. PieceLen(v, i) /\ StartOf(i) + k \in 1 .. SizeOf[v]
  <1>1. /\ done[i] \in Nat /\ done[i] <= PieceLen(v, i) /\ PieceLen(v, i) \in Nat
        /\ StartOf(i) \in Nat /\ StartOf(i) + PieceLen(v, i) <= SizeOf[v] /\ SizeOf[v] \in Nat
    BY PieceFacts, SizeType DEF Within
  <1> QED
    BY <1>1

\* The next place of a piece is not counted yet, and no other piece's next.
LEMMA NextPlace ==
    ASSUME NEW v \in Versions, NEW done, Within(done, v), NEW i \in Pieces(v),
           done[i] # PieceLen(v, i)
    PROVE  /\ StartOf(i) + done[i] + 1 \in 1 .. SizeOf[v]
           /\ done[i] + 1 \in 1 .. PieceLen(v, i)
           /\ \A j \in Pieces(v) : \A k \in 1 .. done[j] : StartOf(j) + k # StartOf(i) + done[i] + 1
           /\ \A j \in Pieces(v) : done[j] # PieceLen(v, j) /\ j # i =>
                StartOf(j) + done[j] + 1 # StartOf(i) + done[i] + 1
  <1>1. \A j \in Pieces(v) :
            /\ done[j] \in Nat /\ done[j] <= PieceLen(v, j) /\ PieceLen(v, j) \in Nat
            /\ StartOf(j) \in Nat /\ StartOf(j) + PieceLen(v, j) <= SizeOf[v] /\ SizeOf[v] \in Nat
    BY PieceFacts, SizeType DEF Within
  <1>2. \A j \in Pieces(v) : done[j] # PieceLen(v, j) => done[j] + 1 \in 1 .. PieceLen(v, j)
    BY <1>1
  <1>3. StartOf(i) + done[i] + 1 = StartOf(i) + (done[i] + 1)
    BY <1>1
  <1>4. StartOf(i) + done[i] + 1 \in 1 .. SizeOf[v]
    BY <1>1, <1>2
  <1>5. ASSUME NEW j \in Pieces(v), NEW k \in 1 .. done[j],
               StartOf(j) + k = StartOf(i) + done[i] + 1
        PROVE  FALSE
    <2>1. k \in 1 .. PieceLen(v, j)
      BY CountedPlace
    <2>2. j = i /\ k = done[i] + 1
      BY <1>2, <1>3, <1>5, <2>1, OnePlace
    <2> QED
      BY <1>1, <2>2
  <1>6. ASSUME NEW j \in Pieces(v), done[j] # PieceLen(v, j), j # i,
               StartOf(j) + done[j] + 1 = StartOf(i) + done[i] + 1
        PROVE  FALSE
    <2>1. StartOf(j) + (done[j] + 1) = StartOf(i) + (done[i] + 1)
      BY <1>1, <1>6
    <2> QED
      BY <1>2, <1>6, <2>1, OnePlace
  <1> QED
    BY <1>2, <1>4, <1>5, <1>6

\* All that is before the first gap is counted.
LEMMA ReadyCounts ==
    ASSUME NEW d, d.want \in Versions, Within(d.done, d.want), NEW n \in Nat, n < Ready(d)
    PROVE  n + 1 <= SizeOf[d.want] /\ Counts(d, n + 1)
  <1> DEFINE v == d.want  lacking == {i \in Pieces(v) : ~Full(d, i)}
  <1>1. \A j \in Pieces(v) :
            /\ d.done[j] \in Nat /\ d.done[j] <= PieceLen(v, j) /\ PieceLen(v, j) \in 1 .. PieceSize
            /\ StartOf(j) \in Nat /\ StartOf(j) + PieceLen(v, j) <= SizeOf[v]
    BY PieceFacts DEF Within
  <1>2. SizeOf[v] \in Nat /\ PieceSize \in Nat
    BY SizeType
  <1>3. CASE lacking = {}
    <2>1. n + 1 \in 1 .. SizeOf[v]
      BY <1>2, <1>3 DEF Ready
    <2>2. PICK i \in Pieces(v) : \E k \in 1 .. PieceLen(v, i) : n + 1 = StartOf(i) + k
      BY <2>1, SomePlace
    <2>3. d.done[i] = PieceLen(v, i)
      BY <1>3 DEF Full
    <2> QED
      BY <2>1, <2>2, <2>3 DEF Counts
  <1>4. CASE lacking # {}
    <2> DEFINE i == CHOOSE i \in lacking : \A j \in lacking : i <= j
    <2>1. i \in lacking /\ \A j \in lacking : i <= j
      BY <1>4, FirstOf
    <2>2. n < StartOf(i) + d.done[i]
      BY <1>4 DEF Ready
    <2> HIDE DEF i
    <2>3. n + 1 \in 1 .. SizeOf[v]
      BY <1>1, <1>2, <2>1, <2>2
    <2>4. PICK j \in Pieces(v) : \E k \in 1 .. PieceLen(v, j) : n + 1 = StartOf(j) + k
      BY <2>3, SomePlace
    <2>5. PICK k \in 1 .. PieceLen(v, j) : n + 1 = StartOf(j) + k
      BY <2>4
    <2>6. j \in Nat /\ i \in Nat /\ i \in Pieces(v)
      BY <2>1, <2>5, PieceFacts
    <2>7. CASE j < i
      <3>1. d.done[j] = PieceLen(v, j)
        BY <2>1, <2>6, <2>7 DEF Full
      <3> QED
        BY <2>3, <2>5, <3>1 DEF Counts
    <2>8. CASE j = i
      <3>1. k \in 1 .. d.done[j]
        BY <1>1, <2>2, <2>5, <2>6, <2>8
      <3> QED
        BY <2>3, <2>5, <3>1 DEF Counts
    <2>9. CASE i < j
      <3>1. StartOf(i) + PieceSize <= StartOf(j)
        BY <2>6, <2>9, Apart
      <3>2. d.done[i] <= PieceSize
        BY <1>1, <1>2, <2>6
      <3> QED
        BY <1>1, <1>2, <2>2, <2>5, <2>6, <3>1, <3>2
    <2> QED
      BY <2>6, <2>7, <2>8, <2>9
  <1> QED
    BY <1>3, <1>4

----------------------------------------------------------------------------
(* Files.                                                                  *)

LEMMA MakesSeq ==
    ASSUME NEW S, NEW n \in Nat, NEW f \in [1 .. n -> S]
    PROVE  f \in Seq(S) /\ Len(f) = n
  <1>1. f \in Seq(S)
    BY SeqDef
  <1>2. Len(f) \in Nat /\ DOMAIN f = 1 .. Len(f)
    BY <1>1, LenProperties
  <1>3. 1 .. Len(f) = 1 .. n
    BY <1>2
  <1> QED
    BY <1>1, <1>2, <1>3

LEMMA WholeFile ==
    ASSUME NEW v \in Versions
    PROVE  /\ Whole(v) \in Seq(Byte) /\ Len(Whole(v)) = SizeOf[v]
           /\ \A n \in 1 .. SizeOf[v] : Whole(v)[n] = v
           /\ Blank(SizeOf[v]) \in Seq(Byte) /\ Len(Blank(SizeOf[v])) = SizeOf[v]
  <1>1. SizeOf[v] \in Nat
    BY SizeType
  <1>2. Whole(v) \in [1 .. SizeOf[v] -> Byte] /\ Blank(SizeOf[v]) \in [1 .. SizeOf[v] -> Byte]
    BY DEF Whole, Blank, Byte
  <1>3. \A n \in 1 .. SizeOf[v] : Whole(v)[n] = v
    BY DEF Whole
  <1> QED
    BY <1>1, <1>2, <1>3, MakesSeq

LEMMA IsWhole ==
    ASSUME NEW v \in Versions, NEW b \in Seq(Byte), Len(b) = SizeOf[v],
           \A n \in 1 .. SizeOf[v] : b[n] = v
    PROVE  b = Whole(v)
  BY WholeFile, SeqEqual

\* A pull that counts every byte has a whole file, if what it counts is there.
LEMMA AllArrived ==
    ASSUME NEW v \in Versions, NEW b \in Seq(Byte), Len(b) = SizeOf[v], NEW done,
           \A i \in Pieces(v) : done[i] = PieceLen(v, i), Arrived(done, v, b)
    PROVE  b = Whole(v)
  <1> SUFFICES ASSUME NEW n \in 1 .. SizeOf[v] PROVE b[n] = v
    BY IsWhole
  <1>1. PICK i \in Pieces(v) : \E k \in 1 .. PieceLen(v, i) : n = StartOf(i) + k
    BY SomePlace
  <1>2. done[i] = PieceLen(v, i)
    OBVIOUS
  <1> QED
    BY <1>1, <1>2 DEF Arrived

----------------------------------------------------------------------------
(* Steps of one pull.                                                      *)

LEMMA Moved ==
    ASSUME Types, NEW p \in Pulls, NEW d \in Work, pull' = [pull EXCEPT ![p] = d]
    PROVE  pull' \in [Pulls -> Work] /\ pull'[p] = d /\ \A q \in Pulls \ {p} : pull'[q] = pull[q]
  BY DEF Types

\* A pull that owns name.part and goes on with it changes its own file at most.
LEMMA OwnerGoesOn ==
    ASSUME Types, Locks, Pulling, FinalSure,
           NEW p \in Pulls, pull[p].pc \in Owning, NEW d \in Work, pull' = [pull EXCEPT ![p] = d],
           d.pc \in Owning, d.fd = pull[p].fd, d.locked = pull[p].locked,
           UNCHANGED <<setting, part, final>>,
           \A f \in Files \ {part} : bytes'[f] = bytes[f] /\ disk'[f] = disk[f],
           Shape(setting, d), Holds(setting, d, bytes'[part], disk'[part])
    PROVE  Locks' /\ Pulling' /\ FinalSure'
  <1>1. pull'[p] = d /\ \A q \in Pulls \ {p} : pull'[q] = pull[q]
    BY Moved
  <1>2. part = pull[p].fd /\ part # None /\ pull[p].locked
    BY DEF Locks
  <1>3. Locks'
    <2>1. \A q \in Pulls : pull'[q].locked = pull[q].locked /\ pull'[q].fd = pull[q].fd
      BY <1>1
    <2>2. d.pc \notin {"idle", "open", "lock"}
      BY DEF Owning, Ranged, Saving
    <2>3. ASSUME NEW q \in Pulls
          PROVE  LET x == pull'[q] IN
                 /\ x.pc \in {"idle", "open", "lock"} => ~x.locked
                 /\ x.pc \in {"idle", "open"} => x.fd = None
                 /\ x.pc = "lock" \/ x.locked => x.fd # None
                 /\ x.pc \in Owning \cup {"confirm", "close"} => x.locked
                 /\ x.pc \in Owning => part' = x.fd
      <3>1. CASE q = p
        BY <1>1, <1>2, <2>2, <3>1
      <3>2. CASE q # p
        BY <1>1, <3>2 DEF Locks
      <3> QED
        BY <3>1, <3>2
    <2>4. \A q, r \in Pulls :
            pull'[q].locked /\ pull'[r].locked /\ pull'[q].fd = pull'[r].fd => q = r
      BY <2>1 DEF Locks
    <2>5. {part', final'} \subseteq Files \cup {None} /\ (part' # None => part' # final')
      BY DEF Locks
    <2> QED
      BY <2>3, <2>4, <2>5 DEF Locks
  <1>4. ASSUME NEW q \in Pulls
        PROVE  Shape(setting', pull'[q])
               /\ (pull'[q].pc \in Owning =>
                    Holds(setting', pull'[q], bytes'[pull'[q].fd], disk'[pull'[q].fd]))
    <2>1. CASE q = p
      BY <1>1, <1>2, <2>1
    <2>2. CASE q # p
      <3>1. pull'[q] = pull[q] /\ Shape(setting, pull[q])
        BY <1>1, <2>2 DEF Pulling
      <3>2. ASSUME pull[q].pc \in Owning
            PROVE  FALSE
        BY <1>2, <2>2, <3>2 DEF Locks
      <3> QED
        BY <3>1, <3>2
    <2> QED
      BY <2>1, <2>2
  <1>5. Pulling'
    BY <1>4 DEF Pulling
  <1>6. FinalSure'
    <2> SUFFICES ASSUME Sure(setting), final # None
                 PROVE  bytes'[final] = bytes[final] /\ disk'[final] = disk[final]
      BY DEF FinalSure
    <2>1. final \in Files /\ final # part
      BY <1>2 DEF Locks
    <2> QED
      BY <2>1
  <1> QED
    BY <1>3, <1>5, <1>6

\* A pull that has not the file yet, or no more, and goes on.
LEMMA OthersStay ==
    ASSUME Types, Pulling, FinalSure, NEW p \in Pulls, NEW d \in Work,
           pull' = [pull EXCEPT ![p] = d], d.pc \notin Owning, Shape(setting, d),
           UNCHANGED setting,
           \A q \in Pulls \ {p} : pull[q].pc \in Owning =>
                bytes'[pull[q].fd] = bytes[pull[q].fd] /\ disk'[pull[q].fd] = disk[pull[q].fd]
    PROVE  Pulling'
  <1>1. pull'[p] = d /\ \A q \in Pulls \ {p} : pull'[q] = pull[q]
    BY Moved
  <1> QED
    BY <1>1 DEF Pulling

LEMMA OffType == setting \in Setting => Off \in Work /\ Shape(setting, Off)
  <1> SUFFICES ASSUME setting \in Setting PROVE Off \in Work /\ Shape(setting, Off)
    OBVIOUS
  <1>1. Off \in Work
    <2>1. Off.conn \in [Conns -> Lanes]
      BY DEF Off, Free, Ended, Lanes
    <2> QED
      BY <2>1 DEF Off, Work, PCs
  <1>2. Off.conn = [c \in Conns |-> IF c \in setting.conns THEN Free ELSE Ended]
        /\ Off.pc = "idle" /\ Off.done = <<>>
    BY DEF Off
  <1>3. Lines(setting, Off)
    BY <1>2 DEF Lines, Busy, Free, Ended
  <1>4. NoneMissed(setting, Off)
    BY <1>2 DEF NoneMissed, Works, Saving
  <1> QED
    BY <1>1, <1>2, <1>3, <1>4 DEF Shape, Early, Ranged, Saving, Off

\* A process that ends leaves the files as they are, whatever it was at.
LEMMA Exits ==
    ASSUME IInv, NEW p \in Pulls, Exit(p),
           UNCHANGED <<setting, main, part, final, bytes, disk, left>>,
           rec' = rec \/ rec' = None, tmp' \in BOOLEAN
    PROVE  IInv'
  <1> USE DEF IInv
  <1> DEFINE d == Off
  <1>1. d \in Work /\ Shape(setting, d) /\ d.pc = "idle" /\ ~d.locked /\ d.fd = None
    BY OffType DEF Types, Off
  <1>2. pull' = [pull EXCEPT ![p] = d]
    BY DEF Exit
  <1> HIDE DEF d
  <1>3. pull'[p] = d /\ (\A q \in Pulls \ {p} : pull'[q] = pull[q]) /\ pull' \in [Pulls -> Work]
    BY <1>1, <1>2, Moved
  <1>4. Types'
    BY <1>3 DEF Types, Etag
  <1>5. Locks'
    BY <1>1, <1>3 DEF Locks, Owning, Ranged, Saving
  <1>6. Pulling'
    BY <1>1, <1>2, OthersStay DEF Owning, Ranged, Saving
  <1>7. Still'
    BY <1>1, <1>3 DEF Still
  <1>8. Recorded'
    BY <1>1, <1>3 DEF Recorded, Owning, Ranged, Saving
  <1>9. FinalSure'
    BY DEF FinalSure
  <1> QED
    BY <1>4, <1>5, <1>6, <1>7, <1>8, <1>9

LEMMA OneOwner ==
    ASSUME Locks, NEW p \in Pulls, NEW q \in Pulls, pull[p].pc \in Owning, pull[q].pc \in Owning
    PROVE  p = q
  BY DEF Locks

LEMMA OwnFile ==
    ASSUME Types, Locks, NEW p \in Pulls, pull[p].pc \in Owning
    PROVE  part = pull[p].fd /\ part \in Files /\ part # final /\ pull[p].locked
           /\ bytes[part] \in Seq(Byte) /\ disk[part] \in Seq(Byte)
  BY DEF Types, Locks

\* The same with everything else the invariant says but of the record.
LEMMA GoesOnAs ==
    ASSUME IInv, NEW p \in Pulls, pull[p].pc \in Owning,
           NEW d \in Work, pull' = [pull EXCEPT ![p] = d],
           d.pc \in Owning, d.fd = pull[p].fd, d.locked = pull[p].locked, d.want = pull[p].want,
           UNCHANGED <<world, part, final>>,
           NEW b \in Seq(Byte), NEW k \in Seq(Byte),
           bytes' = [bytes EXCEPT ![pull[p].fd] = b], disk' = [disk EXCEPT ![pull[p].fd] = k],
           Shape(setting, d), Holds(setting, d, b, k),
           tmp' \in BOOLEAN,
           rec' = None \/ \E v \in Versions :
                            rec'.size = SizeOf[v] /\ rec'.etag = Etag(v) /\ Within(rec'.done, v),
           Recorded'
    PROVE  IInv'
  <1> USE DEF IInv
  <1>1. pull'[p] = d /\ (\A q \in Pulls \ {p} : pull'[q] = pull[q]) /\ pull' \in [Pulls -> Work]
    BY Moved
  <1>2. part = pull[p].fd /\ part \in Files
    BY OwnFile
  <1>3. bytes' \in [Files -> Seq(Byte)] /\ disk' \in [Files -> Seq(Byte)]
        /\ bytes'[part] = b /\ disk'[part] = k
        /\ \A f \in Files \ {part} : bytes'[f] = bytes[f] /\ disk'[f] = disk[f]
    BY <1>2 DEF Types
  <1>4. UNCHANGED <<setting, main, left>>
    BY DEF world
  <1>5. Types'
    <2>1. rec' = None \/ \E v \in Versions :
                            rec'.size = SizeOf[v] /\ rec'.etag = Etag(v)' /\ Within(rec'.done, v)
      BY <1>4 DEF Etag
    <2>2. setting' \in Setting /\ left' \in Bound /\ main' \in Versions
      BY <1>4 DEF Types
    <2> QED
      BY <1>1, <1>3, <2>1, <2>2 DEF Types, Within
  <1>6. Locks' /\ Pulling' /\ FinalSure'
    BY <1>1, <1>2, <1>3, <1>4, OwnerGoesOn
  <1>7. Still'
    <2>1. \A q \in Pulls : pull'[q].pc # "idle" => pull[q].pc # "idle" /\ pull'[q].want = pull[q].want
      BY <1>1 DEF Owning, Ranged, Saving
    <2> QED
      BY <1>4, <2>1 DEF Still
  <1> QED
    BY <1>5, <1>6, <1>7

\* The record stays good while nothing is counted back or overwritten.
LEMMA RecordStays ==
    ASSUME IInv, NEW p \in Pulls, pull[p].pc \in Owning \ {"look", "prepare"},
           NEW d \in Work, pull' = [pull EXCEPT ![p] = d],
           d.pc \in Owning, d.want = pull[p].want,
           UNCHANGED <<world, part, final, rec>>,
           disk'[part] = disk[part] \/ disk'[part] = bytes[part],
           Shape(setting, d),
           pull[p].done # <<>> =>
                d.done # <<>> /\ \A i \in Pieces(d.want) : pull[p].done[i] <= d.done[i],
           Len(bytes'[part]) = Len(bytes[part]),
           \A n \in 1 .. Len(bytes[part]) : bytes[part][n] = d.want => bytes'[part][n] = d.want
    PROVE  Recorded'
  <1> USE DEF IInv
  <1> DEFINE b == bytes'[part]  k == disk'[part]
  <1>1. pull'[p] = d /\ (\A q \in Pulls \ {p} : pull'[q] = pull[q]) /\ pull' \in [Pulls -> Work]
    BY Moved
  <1>2. part = pull[p].fd /\ part \in Files
    BY OwnFile
  <1>3. UNCHANGED <<setting, main, left>>
    BY <1>2 DEF Types, world
  <1> SUFFICES ASSUME Bare(setting), setting.sized, setting.etag PROVE Recorded'
    BY <1>3 DEF Recorded
  <1>4. final = None
    BY DEF Recorded
  <1>5. d.want = main /\ main \in Versions
    BY DEF Still, Types, Owning, Ranged, Saving
  <1> SUFFICES ASSUME rec # None
               PROVE  /\ rec.size = SizeOf[main] /\ rec.etag = main /\ Within(rec.done, main)
                      /\ \/ \A i \in Pieces(main) : rec.done[i] = 0
                         \/ /\ Len(b) = SizeOf[main]
                            /\ Arrived(rec.done, main, b) /\ Arrived(rec.done, main, k)
                      /\ \A q \in Pulls : pull'[q].pc \in Owning \ {"look", "prepare"} =>
                           pull'[q].done # <<>>
                           /\ \A i \in Pieces(main) : rec.done[i] <= pull'[q].done[i]
    BY <1>2, <1>3, <1>4 DEF Recorded
  <1>6. rec.size = SizeOf[main] /\ rec.etag = main /\ Within(rec.done, main)
    BY DEF Recorded
  <1>7. ASSUME ~ \A i \in Pieces(main) : rec.done[i] = 0
        PROVE  Len(b) = SizeOf[main] /\ Arrived(rec.done, main, b) /\ Arrived(rec.done, main, k)
    <2>1. /\ Len(bytes[part]) = SizeOf[main]
          /\ Arrived(rec.done, main, bytes[part]) /\ Arrived(rec.done, main, disk[part])
      BY <1>4, <1>7 DEF Recorded
    <2>2. Len(b) = SizeOf[main]
      BY <1>2, <2>1
    <2>3. ASSUME NEW i \in Pieces(main), NEW n \in 1 .. rec.done[i]
          PROVE  StartOf(i) + n <= Len(b) /\ b[StartOf(i) + n] = main
      <3>1. StartOf(i) + n \in 1 .. SizeOf[main]
        BY <1>5, <1>6, CountedPlace
      <3>2. bytes[part][StartOf(i) + n] = main
        BY <2>1 DEF Arrived
      <3>3. SizeOf[main] \in Nat
        BY <1>5, SizeType
      <3> QED
        BY <1>2, <1>5, <2>2, <3>1, <3>2, <3>3
    <2>4. Arrived(rec.done, main, b)
      BY <2>3 DEF Arrived
    <2> QED
      BY <1>2, <2>1, <2>2, <2>4
  <1>8. ASSUME NEW q \in Pulls, pull'[q].pc \in Owning \ {"look", "prepare"}
        PROVE  pull'[q].done # <<>> /\ \A i \in Pieces(main) : rec.done[i] <= pull'[q].done[i]
    <2>1. q = p
      BY <1>1, <1>8, OneOwner
    <2>2. pull[p].done # <<>> /\ \A i \in Pieces(main) : rec.done[i] <= pull[p].done[i]
      BY DEF Recorded
    <2>3. Within(pull[p].done, main) /\ Within(d.done, main) /\ d.done # <<>>
      BY <1>5, <2>2 DEF Pulling, Shape
    <2>4. \A i \in Pieces(main) : /\ rec.done[i] \in Nat /\ pull[p].done[i] \in Nat
                                  /\ d.done[i] \in Nat /\ pull[p].done[i] <= d.done[i]
      BY <1>5, <1>6, <2>2, <2>3 DEF Within
    <2>5. \A i \in Pieces(main) : rec.done[i] <= d.done[i]
      BY <2>2, <2>4
    <2> QED
      BY <1>1, <2>1, <2>3, <2>5
  <1> QED
    BY <1>6, <1>7, <1>8

LEMMA GoesOn ==
    ASSUME IInv, NEW p \in Pulls, pull[p].pc \in Owning \ {"look", "prepare"},
           NEW d \in Work, pull' = [pull EXCEPT ![p] = d],
           d.pc \in Owning, d.fd = pull[p].fd, d.locked = pull[p].locked, d.want = pull[p].want,
           UNCHANGED <<world, part, final, rec>>, tmp' \in BOOLEAN,
           NEW b \in Seq(Byte), NEW k \in {disk[pull[p].fd], bytes[pull[p].fd]},
           bytes' = [bytes EXCEPT ![pull[p].fd] = b], disk' = [disk EXCEPT ![pull[p].fd] = k],
           Shape(setting, d), Holds(setting, d, b, k),
           pull[p].done # <<>> =>
                d.done # <<>> /\ \A i \in Pieces(d.want) : pull[p].done[i] <= d.done[i],
           Len(b) = Len(bytes[pull[p].fd]),
           \A n \in 1 .. Len(b) : bytes[pull[p].fd][n] = d.want => b[n] = d.want
    PROVE  IInv'
  <1>0. part = pull[p].fd /\ bytes'[part] = b /\ disk'[part] = k
    BY OwnFile DEF IInv, Types
  <1>1. Recorded'
    BY <1>0, RecordStays
  <1>2. k \in Seq(Byte)
    BY OwnFile DEF IInv
  <1>3. rec' = None \/ \E v \in Versions :
                            rec'.size = SizeOf[v] /\ rec'.etag = Etag(v) /\ Within(rec'.done, v)
    BY DEF IInv, Types
  <1> QED
    BY <1>1, <1>2, <1>3, GoesOnAs

\* A step that leaves the files and what is counted alone.
LEMMA GoesOnSame ==
    ASSUME IInv, NEW p \in Pulls, pull[p].pc \in Owning \ {"look", "prepare"},
           NEW d \in Work, pull' = [pull EXCEPT ![p] = d],
           d.pc \in Owning, d.fd = pull[p].fd, d.locked = pull[p].locked, d.want = pull[p].want,
           d.done = pull[p].done,
           UNCHANGED <<world, part, final, rec, bytes, disk>>, tmp' \in BOOLEAN,
           Shape(setting, d), Holds(setting, d, bytes[pull[p].fd], disk[pull[p].fd])
    PROVE  IInv'
  <1> DEFINE b == bytes[pull[p].fd]  k == disk[pull[p].fd]
  <1>1. b \in Seq(Byte) /\ k \in Seq(Byte)
        /\ bytes' = [bytes EXCEPT ![pull[p].fd] = b] /\ disk' = [disk EXCEPT ![pull[p].fd] = k]
    BY OwnFile DEF IInv, Types
  <1>2. UNCHANGED <<world, part, final, rec>>
    OBVIOUS
  <1>3. pull[p].done # <<>> =>
            d.done # <<>> /\ \A i \in Pieces(d.want) : pull[p].done[i] <= d.done[i]
    <2> SUFFICES ASSUME pull[p].done # <<>> PROVE \A i \in Pieces(d.want) : pull[p].done[i] <= d.done[i]
      OBVIOUS
    <2>1. Within(pull[p].done, d.want)
      BY DEF IInv, Pulling, Shape
    <2> QED
      BY <2>1 DEF Within
  <1>4. Recorded'
    BY <1>2, <1>3, RecordStays
  <1>5. rec' = None \/ \E v \in Versions :
                            rec'.size = SizeOf[v] /\ rec'.etag = Etag(v) /\ Within(rec'.done, v)
    BY DEF IInv, Types
  <1>6. Holds(setting, d, b, k)
    OBVIOUS
  <1> HIDE DEF b, k
  <1> QED
    BY <1>1, <1>2, <1>4, <1>5, <1>6, GoesOnAs

\* What the invariant says of one owner.
LEMMA OwnerNow ==
    ASSUME IInv, NEW p \in Pulls, pull[p].pc \in Owning
    PROVE  /\ pull[p] \in Work /\ Shape(setting, pull[p])
           /\ Holds(setting, pull[p], bytes[pull[p].fd], disk[pull[p].fd])
           /\ bytes[pull[p].fd] \in Seq(Byte) /\ disk[pull[p].fd] \in Seq(Byte)
           /\ pull[p].want \in Versions /\ pull[p].url \in Versions /\ setting \in Setting
  BY OwnFile DEF IInv, Types, Pulling, Shape, Owning, Ranged, Saving

\* What a request of a pull is answered with: where nothing else tells versions
\* apart, what the pull wants.
LEMMA ServedNow ==
    ASSUME IInv, NEW p \in Pulls, pull[p].pc # "idle"
    PROVE  /\ Served(pull[p]) \in Versions
           /\ Bare(setting) /\ setting.sized => Served(pull[p]) = pull[p].want
  <1>1. Shape(setting, pull[p]) /\ main \in Versions
    BY DEF IInv, Pulling, Types
  <1>2. Bare(setting) /\ setting.sized /\ pull[p].moving => pull[p].want = main
    BY <1>1 DEF IInv, Still, Shape
  <1> QED
    BY <1>1, <1>2 DEF Served, Shape

\* The connections of a pull that moves on, or begins, or is done with them.
LEMMA LinesMove ==
    ASSUME NEW s, NEW e, NEW d, Lines(s, e), NoneMissed(s, e),
           d.conn = e.conn, d.want = e.want, d.done = e.done, d.taken = e.taken,
           Works(d) <=> Works(e), d.cause = "none" => e.cause = "none"
    PROVE  Lines(s, d) /\ NoneMissed(s, d)
  BY DEF Lines, NoneMissed, Full, Unfilled

LEMMA LinesBegin ==
    ASSUME NEW s \in Setting, NEW d, Fresh(s, d)
    PROVE  Lines(s, d) /\ (d.want \in Versions => NoneMissed(s, d))
  <1>1. Lines(s, d)
    BY DEF Fresh, Lines, Free, Ended, Busy
  <1>2. ASSUME d.want \in Versions, NEW i \in Pieces(d.want)
        PROVE  ~ (i <= d.taken)
    BY <1>2, PieceFacts DEF Fresh
  <1>3. \A c \in s.conns : d.conn[c].state # "ended"
    BY DEF Fresh, Free, Setting
  <1> QED
    BY <1>1, <1>2, <1>3 DEF NoneMissed

LEMMA ArrivedLess ==
    ASSUME NEW v, NEW done, NEW less, NEW b, Arrived(done, v, b),
           \A i \in Pieces(v) : less[i] \in Nat /\ done[i] \in Nat /\ less[i] <= done[i]
    PROVE  Arrived(less, v, b)
  BY DEF Arrived

LEMMA FlushStep ==
    ASSUME IInv, NEW p \in Pulls, Flush(p)
    PROVE  IInv'
  <1> DEFINE e == pull[p]  d == [e EXCEPT !.pc = "write"]
             b == bytes[e.fd]  k == IF setting.flushed THEN b ELSE disk[e.fd]
  <1>1. e.pc = "flush" /\ e.pc \in Owning \ {"look", "prepare"}
    BY DEF Flush, At, Owning, Ranged, Saving
  <1>2. /\ e \in Work /\ Shape(setting, e) /\ Holds(setting, e, b, disk[e.fd])
        /\ b \in Seq(Byte) /\ disk[e.fd] \in Seq(Byte)
    BY <1>1, OwnerNow
  <1>3. /\ d \in Work /\ d.pc = "write" /\ d.want = e.want /\ d.url = e.url
        /\ d.moving = e.moving /\ d.fd = e.fd
        /\ d.locked = e.locked /\ d.done = e.done /\ d.snap = e.snap /\ d.after = e.after
        /\ d.taken = e.taken /\ d.conn = e.conn /\ d.checked = e.checked /\ d.good = e.good
        /\ d.cause = e.cause
    <2> HIDE DEF e
    <2>1. "write" \in PCs
      BY DEF PCs, Owning, Ranged, Saving
    <2>2. d \in Work
      BY <1>2, <2>1 DEF Work
    <2> QED
      BY <1>2, <2>2 DEF Work
  <1>4. pull' = [pull EXCEPT ![p] = d]
    BY DEF Flush, Goto
  <1>5. bytes' = [bytes EXCEPT ![e.fd] = b] /\ disk' = [disk EXCEPT ![e.fd] = k]
    BY DEF Flush, IInv, Types
  <1>6. UNCHANGED <<world, part, final, rec, tmp>> /\ tmp \in BOOLEAN
    BY DEF Flush, names, IInv, Types
  <1> HIDE DEF e, d
  <1>7. d.pc \in Owning
    BY <1>3 DEF Owning, Ranged, Saving
  <1>8. Lines(setting, d) /\ NoneMissed(setting, d)
    BY <1>1, <1>2, <1>3, LinesMove DEF Shape, Works, Saving
  <1>9. Shape(setting, d)
    BY <1>1, <1>2, <1>3, <1>8 DEF Shape, Early, Ranged, Saving, Fresh
  <1>10. Holds(setting, d, b, k)
    <2>1. Bare(setting) => Arrived(d.done, d.want, b) /\ k = b
      BY <1>1, <1>2, <1>3 DEF Shape, Holds, Ranged, Saving, Bare
    <2>2. \A i \in Pieces(d.want) : d.snap[i] \in Nat /\ d.done[i] \in Nat /\ d.snap[i] <= d.done[i]
      BY <1>1, <1>2, <1>3 DEF Shape, Ranged, Saving, Within
    <2>3. Bare(setting) => Arrived(d.snap, d.want, k)
      BY <2>1, <2>2, ArrivedLess
    <2>4. /\ d.pc \in Ranged => Len(b) = SizeOf[d.want]
          /\ Bare(setting) => \A c \in Conns : d.conn[c].state = "put" =>
                b[StartOf(d.conn[c].piece) + d.done[d.conn[c].piece] + 1] = d.want
          /\ setting.sum /\ d.pc \in Ranged =>
                /\ d.checked <= SizeOf[d.want]
                /\ \A n \in 1 .. d.checked : Counts(d, n) /\ (d.good => b[n] = d.want)
      BY <1>1, <1>2, <1>3 DEF Holds, Ranged, Saving, Counts
    <2> QED
      BY <1>3, <2>1, <2>3, <2>4 DEF Holds
  <1> QED
    <2>1. \A i \in Pieces(d.want) : e.done[i] <= d.done[i]
      BY <1>2, <1>3, <1>1 DEF Shape, Ranged, Saving, Within
    <2> QED
    BY <1>1, <1>2, <1>3, <1>4, <1>5, <1>6, <1>7, <1>9, <1>10, <2>1, GoesOn DEF e

\* A pull in pieces that neither counts nor writes and stays so.
LEMMA SameWork ==
    ASSUME NEW s, NEW e \in Work, NEW d \in Work, NEW b, NEW k,
           Shape(s, e), Holds(s, e, b, k), e.pc \in Ranged, d.pc \in Ranged,
           d.want = e.want, d.done = e.done,
           d.url \in Versions, Bare(s) /\ s.sized => d.url = d.want, d.moving => ~s.pinned,
           d.cause = "mismatch" => s.sum,
           \A c \in Conns : d.conn[c].state = "put" => d.conn[c] = e.conn[c],
           Lines(s, d), NoneMissed(s, d),
           d.pc \in Saving =>
                /\ d.snap \in [Pieces(d.want) -> Nat]
                /\ \A i \in Pieces(d.want) : d.snap[i] <= d.done[i]
                /\ d.after = "begin" => Fresh(s, d),
           Bare(s) /\ d.pc \in {"write", "rename"} => Arrived(d.snap, d.want, k),
           s.sum => /\ d.checked <= SizeOf[d.want]
                    /\ \A n \in 1 .. d.checked : Counts(d, n) /\ (d.good => b[n] = d.want)
    PROVE  Shape(s, d) /\ Holds(s, d, b, k)
  <1>1. d.pc \notin Early \cup {"extend", "idle", "empty", "streaming", "sync", "name"}
    BY DEF Early, Ranged, Saving
  <1>2. s.sized /\ d.done # <<>> /\ d.want \in Versions /\ Within(d.done, d.want)
    BY DEF Shape, Ranged, Saving
  <1>3. Shape(s, d)
    BY <1>1, <1>2 DEF Shape
  <1>4. Len(b) = SizeOf[d.want]
    BY DEF Holds
  <1>5. Bare(s) => Arrived(d.done, d.want, b)
    BY <1>1, <1>2 DEF Holds, Ranged, Saving
  <1>6. Bare(s) => \A c \in Conns : d.conn[c].state = "put" =>
                b[StartOf(d.conn[c].piece) + d.done[d.conn[c].piece] + 1] = d.want
    BY DEF Holds
  <1>7. Holds(s, d, b, k)
    BY <1>1, <1>4, <1>5, <1>6 DEF Holds
  <1> QED
    BY <1>3, <1>7

\* What it has checked stays checked.
LEMMA SameCheck ==
    ASSUME NEW s, NEW e, NEW d, NEW b, NEW k, Holds(s, e, b, k), e.pc \in Ranged,
           d.want = e.want, d.done = e.done, d.checked = e.checked, d.good = e.good
    PROVE  s.sum => /\ d.checked <= SizeOf[d.want]
                    /\ \A n \in 1 .. d.checked : Counts(d, n) /\ (d.good => b[n] = d.want)
  BY DEF Holds, Counts

LEMMA WriteStep ==
    ASSUME IInv, NEW p \in Pulls, Write(p)
    PROVE  IInv'
  <1> DEFINE e == pull[p]  d == [e EXCEPT !.pc = "rename"]  b == bytes[e.fd]  k == disk[e.fd]
  <1>1. e.pc = "write" /\ e.pc \in Owning \ {"look", "prepare"}
    BY DEF Write, At, Owning, Ranged, Saving
  <1>2. e \in Work /\ Shape(setting, e) /\ Holds(setting, e, b, k) /\ e.url \in Versions
    BY <1>1, OwnerNow
  <1>3. /\ d \in Work /\ d.pc = "rename" /\ d.want = e.want /\ d.url = e.url
        /\ d.moving = e.moving /\ d.fd = e.fd
        /\ d.locked = e.locked /\ d.done = e.done /\ d.snap = e.snap /\ d.after = e.after
        /\ d.taken = e.taken /\ d.conn = e.conn /\ d.checked = e.checked /\ d.good = e.good
        /\ d.cause = e.cause
    BY <1>2 DEF Work, PCs, Owning, Ranged, Saving
  <1>4. pull' = [pull EXCEPT ![p] = d]
    BY DEF Write, Goto
  <1>5. UNCHANGED <<world, part, final, rec, bytes, disk>> /\ tmp' \in BOOLEAN
    BY DEF Write
  <1> HIDE DEF e, d, b, k
  <1>6. e.pc \in Ranged /\ d.pc \in Ranged /\ d.pc \in Owning
    BY <1>1, <1>3 DEF Owning, Ranged, Saving
  <1>7. Lines(setting, d) /\ NoneMissed(setting, d)
    BY <1>1, <1>2, <1>3, LinesMove DEF Shape, Works, Saving
  <1>8. /\ d.snap \in [Pieces(d.want) -> Nat]
        /\ \A i \in Pieces(d.want) : d.snap[i] <= d.done[i]
        /\ d.after = "begin" => Fresh(setting, d)
    BY <1>1, <1>2, <1>3 DEF Shape, Fresh, Saving
  <1>9. /\ Bare(setting) => Arrived(d.snap, d.want, k)
        /\ Bare(setting) /\ setting.sized => d.url = d.want
        /\ d.moving => ~setting.pinned
        /\ d.cause = "mismatch" => setting.sum
    BY <1>1, <1>2, <1>3 DEF Holds, Shape
  <1>10. Shape(setting, d) /\ Holds(setting, d, b, k)
    BY <1>2, <1>3, <1>6, <1>7, <1>8, <1>9, SameWork, SameCheck
  <1> QED
    BY <1>1, <1>3, <1>4, <1>5, <1>6, <1>10, GoesOnSame DEF e, b, k

LEMMA RangedStep ==
    ASSUME IInv, NEW p \in Pulls, pull[p].pc \in Ranged,
           NEW d \in Work, pull' = [pull EXCEPT ![p] = d], d.pc \in Ranged,
           d.fd = pull[p].fd, d.locked = pull[p].locked, d.want = pull[p].want,
           d.done = pull[p].done, d.cause \in {pull[p].cause, "other", "noRanges"} \/ setting.sum,
           UNCHANGED <<world, part, final, rec, bytes, disk>>, tmp' \in BOOLEAN,
           \/ d.url = pull[p].url /\ d.moving = pull[p].moving
           \/ /\ d.url \in Versions /\ (Bare(setting) /\ setting.sized => d.url = d.want)
              /\ d.moving => ~setting.pinned,
           \A c \in Conns : d.conn[c].state = "put" => d.conn[c] = pull[p].conn[c],
           Lines(setting, d), NoneMissed(setting, d),
           d.pc \in Saving =>
                /\ d.snap \in [Pieces(d.want) -> Nat]
                /\ \A i \in Pieces(d.want) : d.snap[i] <= d.done[i]
                /\ d.after = "begin" => Fresh(setting, d),
           d.pc \in {"write", "rename"} => pull[p].pc \in {"write", "rename"} /\ d.snap = pull[p].snap,
           setting.sum =>
                \/ d.checked = pull[p].checked /\ d.good = pull[p].good
                \/ /\ d.checked <= SizeOf[d.want]
                   /\ \A n \in 1 .. d.checked :
                        Counts(d, n) /\ (d.good => bytes[pull[p].fd][n] = d.want)
    PROVE  IInv'
  <1> DEFINE e == pull[p]  b == bytes[e.fd]  k == disk[e.fd]
  <1>1. e.pc \in Owning \ {"look", "prepare"} /\ d.pc \in Owning
    BY DEF Owning, Ranged, Saving
  <1>2. e \in Work /\ Shape(setting, e) /\ Holds(setting, e, b, k) /\ e.url \in Versions
    BY <1>1, OwnerNow
  <1>3. /\ d.url \in Versions /\ (Bare(setting) /\ setting.sized => d.url = d.want)
        /\ d.moving => ~setting.pinned
    BY SMTT(60), <1>2 DEF Shape
  <1>4. /\ Bare(setting) /\ d.pc \in {"write", "rename"} => Arrived(d.snap, d.want, k)
        /\ d.cause = "mismatch" => setting.sum
    BY <1>2 DEF Holds, Shape
  <1>5. setting.sum => /\ d.checked <= SizeOf[d.want]
                       /\ \A n \in 1 .. d.checked : Counts(d, n) /\ (d.good => b[n] = d.want)
    BY <1>2, SameCheck
  <1>6. Shape(setting, d) /\ Holds(setting, d, b, k)
    BY <1>2, <1>3, <1>4, <1>5, SameWork
  <1> QED
    BY <1>1, <1>6, GoesOnSame

\* What a pull may have saved, or is about to.
LEMMA SnapNow ==
    ASSUME IInv, NEW p \in Pulls, pull[p].pc \in Ranged
    PROVE  /\ pull[p] \in Work /\ Shape(setting, pull[p]) /\ Lines(setting, pull[p])
           /\ Holds(setting, pull[p], bytes[pull[p].fd], disk[pull[p].fd])
           /\ NoneMissed(setting, pull[p]) /\ setting \in Setting
           /\ pull[p].want \in Versions /\ Within(pull[p].done, pull[p].want)
           /\ pull[p].done \in [Pieces(pull[p].want) -> Nat]
           /\ \A i \in Pieces(pull[p].want) : pull[p].done[i] <= pull[p].done[i]
           /\ pull[p].pc \in Saving =>
                /\ pull[p].snap \in [Pieces(pull[p].want) -> Nat]
                /\ \A i \in Pieces(pull[p].want) : pull[p].snap[i] <= pull[p].done[i]
                /\ pull[p].after = "begin" => Fresh(setting, pull[p])
           /\ Works(pull[p]) => ~ (pull[p].pc \in Saving /\ pull[p].after = "begin")
           /\ pull[p].pc \in Owning \ {"look", "prepare"}
  <1>1. pull[p].pc \in Owning \ {"look", "prepare"}
    BY DEF Owning, Ranged, Saving
  <1>2. pull[p] \in Work /\ Shape(setting, pull[p]) /\ setting \in Setting
        /\ Holds(setting, pull[p], bytes[pull[p].fd], disk[pull[p].fd])
    BY <1>1, OwnerNow
  <1>3. pull[p].want \in Versions /\ Within(pull[p].done, pull[p].want)
    BY <1>2 DEF Shape
  <1> QED
    BY <1>1, <1>2, <1>3 DEF Shape, Within, Works, Saving

LEMMA TickStep ==
    ASSUME IInv, NEW p \in Pulls, Tick(p)
    PROVE  IInv'
  <1> DEFINE e == pull[p]  d == [e EXCEPT !.pc = "flush", !.snap = e.done, !.after = "run"]
  <1>1. e.pc = "run" /\ e.pc \in Ranged
    BY DEF Tick, At, Ranged
  <1>2. e \in Work /\ Lines(setting, e) /\ NoneMissed(setting, e)
        /\ e.done \in [Pieces(e.want) -> Nat] /\ \A i \in Pieces(e.want) : e.done[i] <= e.done[i]
    BY <1>1, SnapNow
  <1>3. /\ d \in Work /\ d.pc = "flush" /\ d.want = e.want /\ d.url = e.url
        /\ d.moving = e.moving /\ d.fd = e.fd
        /\ d.locked = e.locked /\ d.done = e.done /\ d.snap = e.done /\ d.after = "run"
        /\ d.taken = e.taken /\ d.conn = e.conn /\ d.checked = e.checked /\ d.good = e.good
        /\ d.cause = e.cause
    <2>1. e \in Work /\ "flush" \in PCs
      BY <1>2 DEF PCs, Owning, Ranged, Saving
    <2> HIDE DEF e
    <2> QED
      BY <2>1 DEF Work
  <1>4. pull' = [pull EXCEPT ![p] = d]
    BY DEF Tick
  <1>5. UNCHANGED <<world, part, final, rec, bytes, disk>> /\ tmp' \in BOOLEAN
    BY DEF Tick, names, IInv, Types
  <1> HIDE DEF e, d
  <1>6. Lines(setting, d) /\ NoneMissed(setting, d)
    BY <1>1, <1>2, <1>3, LinesMove DEF Works, Saving
  <1> QED
    BY <1>1, <1>2, <1>3, <1>4, <1>5, <1>6, RangedStep DEF e, Ranged, Saving

LEMMA StopStep ==
    ASSUME IInv, NEW p \in Pulls, NEW x \in {"other", "mismatch"},
           Running(p), pull[p].cause = "none", x = "mismatch" => setting.sum,
           pull' = [pull EXCEPT ![p].cause = x],
           UNCHANGED <<world, names, bytes, disk>>
    PROVE  IInv'
  <1> DEFINE e == pull[p]  d == [e EXCEPT !.cause = x]
  <1>1. e.pc \in Ranged /\ Works(e)
    BY DEF Running, At, Ranged, Works
  <1>2. e \in Work /\ Lines(setting, e) /\ NoneMissed(setting, e)
        /\ (e.pc \in Saving =>
                /\ e.snap \in [Pieces(e.want) -> Nat]
                /\ \A i \in Pieces(e.want) : e.snap[i] <= e.done[i])
        /\ ~ (e.pc \in Saving /\ e.after = "begin")
    BY <1>1, SnapNow
  <1>3. /\ d \in Work /\ d.pc = e.pc /\ d.want = e.want /\ d.url = e.url
        /\ d.moving = e.moving /\ d.fd = e.fd
        /\ d.locked = e.locked /\ d.done = e.done /\ d.snap = e.snap /\ d.after = e.after
        /\ d.taken = e.taken /\ d.conn = e.conn /\ d.checked = e.checked /\ d.good = e.good
        /\ d.cause = x
    BY SMTT(60), <1>2 DEF Work
  <1>4. pull' = [pull EXCEPT ![p] = d]
    OBVIOUS
  <1>5. UNCHANGED <<world, part, final, rec, bytes, disk>> /\ tmp' \in BOOLEAN
    BY DEF names, IInv, Types
  <1> HIDE DEF e, d
  <1>6. Lines(setting, d) /\ NoneMissed(setting, d)
    BY <1>1, <1>2, <1>3, LinesMove DEF Works
  <1> QED
    BY <1>1, <1>2, <1>3, <1>4, <1>5, <1>6, RangedStep DEF e

LEMMA CheckStep ==
    ASSUME IInv, NEW p \in Pulls, Check(p)
    PROVE  IInv'
  <1> DEFINE e == pull[p]  d == [e EXCEPT !.checked = @ + 1,
                                   !.good = @ /\ bytes[e.fd][e.checked + 1] = e.want]
  <1>1. e.pc \in Ranged /\ Works(e)
    BY DEF Check, Running, At, Ranged, Works
  <1>2. /\ e \in Work /\ Shape(setting, e) /\ Lines(setting, e) /\ NoneMissed(setting, e)
        /\ e.want \in Versions /\ Within(e.done, e.want) /\ setting \in Setting
        /\ (e.pc \in Saving =>
                /\ e.snap \in [Pieces(e.want) -> Nat]
                /\ \A i \in Pieces(e.want) : e.snap[i] <= e.done[i])
        /\ ~ (e.pc \in Saving /\ e.after = "begin")
        /\ Holds(setting, e, bytes[e.fd], disk[e.fd])
    BY <1>1, SnapNow
  <1>3. /\ d \in Work /\ d.pc = e.pc /\ d.want = e.want /\ d.url = e.url /\ d.moving = e.moving
        /\ d.fd = e.fd /\ d.locked = e.locked /\ d.done = e.done /\ d.snap = e.snap
        /\ d.after = e.after /\ d.taken = e.taken /\ d.conn = e.conn
        /\ d.checked = e.checked + 1
        /\ d.good = (e.good /\ bytes[e.fd][e.checked + 1] = e.want)
        /\ d.cause = e.cause
    <2>1. e \in Work /\ e.checked + 1 \in Nat
      BY <1>2 DEF Work
    <2> HIDE DEF e
    <2>2. d \in Work
      BY ZenonT(30), <2>1 DEF Work
    <2>3. /\ d.pc = e.pc /\ d.want = e.want /\ d.url = e.url /\ d.moving = e.moving /\ d.fd = e.fd
          /\ d.locked = e.locked /\ d.done = e.done /\ d.snap = e.snap
          /\ d.after = e.after /\ d.taken = e.taken
      BY <2>1 DEF Work
    <2>4. /\ d.conn = e.conn /\ d.checked = e.checked + 1
      BY <2>1 DEF Work
    <2>5. /\ d.good = (e.good /\ bytes[e.fd][e.checked + 1] = e.want) /\ d.cause = e.cause
      BY <2>1 DEF Work
    <2> QED
      BY <2>2, <2>3, <2>4, <2>5
  <1>4. pull' = [pull EXCEPT ![p] = d]
    BY DEF Check
  <1>5. UNCHANGED <<world, part, final, rec, bytes, disk>> /\ tmp' \in BOOLEAN
    BY DEF Check, names, IInv, Types
  <1> HIDE DEF e, d
  <1>6. Lines(setting, d) /\ NoneMissed(setting, d)
    BY <1>1, <1>2, <1>3, LinesMove DEF Works
  <1>7. setting.sum /\ e.checked \in Nat /\ e.checked < Ready(e)
    BY <1>2 DEF Check, Work, e
  <1>8. e.checked + 1 <= SizeOf[e.want] /\ Counts(e, e.checked + 1)
    BY <1>2, <1>7, ReadyCounts
  <1>9. d.checked <= SizeOf[d.want]
    BY <1>3, <1>8
  <1>10. ASSUME NEW n \in 1 .. d.checked
         PROVE  Counts(d, n) /\ (d.good => bytes[e.fd][n] = d.want)
    <2>1. n \in 1 .. e.checked \/ n = e.checked + 1
      BY <1>3, <1>7
    <2>2. Counts(e, n) /\ (d.good => bytes[e.fd][n] = e.want)
      BY <1>1, <1>2, <1>3, <1>7, <1>8, <2>1 DEF Holds
    <2> QED
      BY <1>3, <2>2 DEF Counts
  <1> QED
    BY <1>1, <1>2, <1>3, <1>4, <1>5, <1>6, <1>9, <1>10, RangedStep DEF e

LEMMA RefreshStep ==
    ASSUME IInv, NEW p \in Pulls, NEW c \in Conns, Lacks(p, c), NEW v \in Versions,
           v = IF setting.commit THEN pull[p].want ELSE main,
           ~ (setting.etag /\ v # pull[p].want),
           pull' = [pull EXCEPT ![p].url = v, ![p].moving = ~setting.pinned /\ ~setting.commit],
           UNCHANGED <<world, names, bytes, disk>>
    PROVE  IInv'
  <1> DEFINE e == pull[p]  d == [e EXCEPT !.url = v, !.moving = ~setting.pinned /\ ~setting.commit]
  <1>1. e.pc \in Ranged /\ Works(e)
    BY DEF Lacks, Filling, Running, At, Ranged, Works
  <1>2. /\ e \in Work /\ Shape(setting, e) /\ Lines(setting, e) /\ NoneMissed(setting, e)
        /\ e.want \in Versions /\ Within(e.done, e.want) /\ setting \in Setting
        /\ (e.pc \in Saving =>
                /\ e.snap \in [Pieces(e.want) -> Nat]
                /\ \A i \in Pieces(e.want) : e.snap[i] <= e.done[i])
        /\ ~ (e.pc \in Saving /\ e.after = "begin")
        /\ Holds(setting, e, bytes[e.fd], disk[e.fd])
    BY <1>1, SnapNow
  <1>3. /\ d \in Work /\ d.pc = e.pc /\ d.want = e.want /\ d.url = v /\ d.fd = e.fd
        /\ d.moving = (~setting.pinned /\ ~setting.commit)
        /\ d.locked = e.locked /\ d.done = e.done /\ d.snap = e.snap
        /\ d.after = e.after /\ d.taken = e.taken /\ d.conn = e.conn
        /\ d.checked = e.checked /\ d.good = e.good /\ d.cause = e.cause
    <2> DEFINE moves == ~setting.pinned /\ ~setting.commit
    <2>1. e \in Work /\ moves \in BOOLEAN
      BY <1>2
    <2> HIDE DEF e, moves
    <2>2. [e EXCEPT !.url = v, !.moving = moves] \in Work
      BY ZenonT(30), <2>1 DEF Work
    <2>3. d = [e EXCEPT !.url = v, !.moving = moves]
      BY DEF moves
    <2> HIDE DEF d
    <2> QED
      BY SMTT(30), <2>1, <2>2, <2>3 DEF Work, moves
  <1>4. pull' = [pull EXCEPT ![p] = d]
    OBVIOUS
  <1>5. UNCHANGED <<world, part, final, rec, bytes, disk>> /\ tmp' \in BOOLEAN
    BY DEF world, names, IInv, Types
  <1> HIDE DEF e, d
  <1>6. Lines(setting, d) /\ NoneMissed(setting, d)
    BY <1>1, <1>2, <1>3, LinesMove DEF Works
  <1>7. (Bare(setting) /\ setting.sized => d.url = d.want) /\ (d.moving => ~setting.pinned)
    <2>1. setting.sized /\ e.pc # "idle"
      BY <1>1, <1>2 DEF Shape, Ranged, Saving
    <2> QED
      BY <1>3, <2>1 DEF IInv, Still, e
  <1> QED
    BY <1>1, <1>2, <1>3, <1>4, <1>5, <1>6, <1>7, RangedStep DEF e

LEMMA EndsWithStep ==
    ASSUME IInv, NEW p \in Pulls, NEW c \in Conns, Lacks(p, c),
           NEW x \in {"other", "noRanges"}, EndsWith(p, c, x),
           UNCHANGED <<world, names, bytes, disk>>
    PROVE  IInv'
  <1> DEFINE e == pull[p]  d == [e EXCEPT !.conn[c] = Ended, !.cause = IF @ = "none" THEN x ELSE @]
  <1>1. e.pc \in Ranged /\ Works(e)
    BY DEF Lacks, Filling, Running, At, Ranged, Works
  <1>2. /\ e \in Work /\ Shape(setting, e) /\ Lines(setting, e) /\ NoneMissed(setting, e)
        /\ e.want \in Versions /\ Within(e.done, e.want) /\ setting \in Setting
        /\ (e.pc \in Saving =>
                /\ e.snap \in [Pieces(e.want) -> Nat]
                /\ \A i \in Pieces(e.want) : e.snap[i] <= e.done[i])
        /\ ~ (e.pc \in Saving /\ e.after = "begin")
        /\ Holds(setting, e, bytes[e.fd], disk[e.fd])
    BY <1>1, SnapNow
  <1>3. /\ d \in Work /\ d.pc = e.pc /\ d.want = e.want /\ d.url = e.url /\ d.moving = e.moving
        /\ d.fd = e.fd /\ d.locked = e.locked /\ d.done = e.done /\ d.snap = e.snap
        /\ d.after = e.after /\ d.taken = e.taken
        /\ d.conn = [e.conn EXCEPT ![c] = Ended] /\ d.checked = e.checked
        /\ d.good = e.good /\ d.cause = IF e.cause = "none" THEN x ELSE e.cause
    <2>1. e \in Work /\ Ended \in Lanes
      BY <1>2 DEF Ended, Lanes
    <2> HIDE DEF e
    <2>2. d \in Work
      BY ZenonT(30), <2>1 DEF Work
    <2>3. /\ d.pc = e.pc /\ d.want = e.want /\ d.url = e.url /\ d.moving = e.moving /\ d.fd = e.fd
          /\ d.locked = e.locked /\ d.done = e.done /\ d.snap = e.snap
          /\ d.after = e.after /\ d.taken = e.taken
      BY <2>1 DEF Work
    <2>4. /\ d.conn = [e.conn EXCEPT ![c] = Ended] /\ d.checked = e.checked
      BY <2>1 DEF Work
    <2>5. /\ d.good = e.good /\ d.cause = IF e.cause = "none" THEN x ELSE e.cause
      BY <2>1 DEF Work
    <2> QED
      BY <2>2, <2>3, <2>4, <2>5
  <1>4. pull' = [pull EXCEPT ![p] = d]
    BY DEF EndsWith
  <1>5. UNCHANGED <<world, part, final, rec, bytes, disk>> /\ tmp' \in BOOLEAN
    BY DEF world, names, IInv, Types
  <1> HIDE DEF e, d
  <1>6. e.conn \in [Conns -> Lanes]
    BY <1>2 DEF Work
  <1>7. d.conn[c] = Ended /\ \A o \in Conns \ {c} : d.conn[o] = e.conn[o]
    BY <1>3, <1>6
  <1>8. Works(d) /\ d.cause # "none" /\ (\A i \in Pieces(d.want) : Full(d, i) <=> Full(e, i))
    BY <1>1, <1>3 DEF Works, Full
  <1>9. \A o \in Conns : d.conn[o].state \in Busy => o # c /\ d.conn[o] = e.conn[o]
    BY <1>7 DEF Busy, Ended
  <1>10. Lines(setting, d)
    BY <1>2, <1>3, <1>7, <1>8, <1>9 DEF Lines
  <1>11. NoneMissed(setting, d)
    BY <1>8 DEF NoneMissed
  <1>12. \A o \in Conns : d.conn[o].state = "put" => d.conn[o] = e.conn[o]
    BY <1>9 DEF Busy
  <1> QED
    BY ZenonT(30), <1>1, <1>2, <1>3, <1>4, <1>5, <1>10, <1>11, <1>12, RangedStep DEF e

LEMMA FilledStep ==
    ASSUME IInv, NEW p \in Pulls, NEW c \in Conns, Filled(p, c)
    PROVE  IInv'
  <1> DEFINE e == pull[p]  d == [e EXCEPT !.conn[c] = Free]
  <1>1. e.pc \in Ranged /\ Works(e)
    BY DEF Filled, Filling, Running, At, Ranged, Works
  <1>2. /\ e \in Work /\ Shape(setting, e) /\ Lines(setting, e) /\ NoneMissed(setting, e)
        /\ e.want \in Versions /\ Within(e.done, e.want) /\ setting \in Setting
        /\ (e.pc \in Saving =>
                /\ e.snap \in [Pieces(e.want) -> Nat]
                /\ \A i \in Pieces(e.want) : e.snap[i] <= e.done[i])
        /\ ~ (e.pc \in Saving /\ e.after = "begin")
        /\ Holds(setting, e, bytes[e.fd], disk[e.fd])
    BY <1>1, SnapNow
  <1>3. /\ d \in Work /\ d.pc = e.pc /\ d.want = e.want /\ d.url = e.url /\ d.moving = e.moving
        /\ d.fd = e.fd /\ d.locked = e.locked /\ d.done = e.done /\ d.snap = e.snap
        /\ d.after = e.after /\ d.taken = e.taken
        /\ d.conn = [e.conn EXCEPT ![c] = Free] /\ d.checked = e.checked
        /\ d.good = e.good /\ d.cause = e.cause
    <2>1. e \in Work /\ Free \in Lanes
      BY <1>2 DEF Free, Lanes
    <2> HIDE DEF e
    <2> QED
      BY <2>1 DEF Work
  <1>4. pull' = [pull EXCEPT ![p] = d]
    BY DEF Filled
  <1>5. UNCHANGED <<world, part, final, rec, bytes, disk>> /\ tmp' \in BOOLEAN
    BY DEF Filled, names, IInv, Types
  <1> HIDE DEF e, d
  <1>6. e.conn \in [Conns -> Lanes]
    BY <1>2 DEF Work
  <1>7. d.conn[c] = Free /\ \A o \in Conns \ {c} : d.conn[o] = e.conn[o]
    BY <1>3, <1>6
  <1>8. e.conn[c].state = "filling" /\ Full(e, e.conn[c].piece)
    BY DEF Filled, Filling, e
  <1>9. Works(d) /\ (\A i \in Pieces(d.want) : Full(d, i) <=> Full(e, i)) /\ Unfilled(d) = Unfilled(e)
    BY <1>1, <1>3 DEF Works, Full, Unfilled
  <1>10. \A o \in Conns : d.conn[o].state \in Busy => o # c /\ d.conn[o] = e.conn[o]
    BY <1>7 DEF Busy, Free
  <1>11. c \in setting.conns
    BY <1>2, <1>8 DEF Lines, Ended
  <1>12. Lines(setting, d)
    BY <1>2, <1>3, <1>7, <1>9, <1>10, <1>11 DEF Lines
  <1>13. ASSUME d.cause = "none", NEW i \in Pieces(d.want), i <= d.taken, ~Full(d, i)
         PROVE  \E o \in Conns : d.conn[o].state \in Busy /\ d.conn[o].piece = i
    <2>1. PICK o \in Conns : e.conn[o].state \in Busy /\ e.conn[o].piece = i
      BY <1>1, <1>2, <1>3, <1>9, <1>13 DEF NoneMissed
    <2> QED
      BY <1>7, <1>8, <1>9, <1>13, <2>1
  <1>14. ASSUME d.cause = "none", NEW o \in setting.conns, d.conn[o].state = "ended"
         PROVE  Unfilled(d) = {}
    BY <1>1, <1>2, <1>3, <1>7, <1>9, <1>14 DEF NoneMissed, Setting, Free
  <1>15. NoneMissed(setting, d)
    BY <1>13, <1>14 DEF NoneMissed
  <1>16. \A o \in Conns : d.conn[o].state = "put" => d.conn[o] = e.conn[o]
    BY <1>10 DEF Busy
  <1> QED
    BY <1>1, <1>2, <1>3, <1>4, <1>5, <1>12, <1>15, <1>16, RangedStep DEF e

LEMMA TakeNoneStep ==
    ASSUME IInv, NEW p \in Pulls, NEW c \in Conns, Running(p), pull[p].conn[c].state = "free",
           Unfilled(pull[p]) = {}, pull' = [pull EXCEPT ![p].conn[c] = Ended],
           UNCHANGED <<world, names, bytes, disk>>
    PROVE  IInv'
  <1> DEFINE e == pull[p]  d == [e EXCEPT !.conn[c] = Ended]
  <1>1. e.pc \in Ranged /\ Works(e)
    BY DEF Lacks, Running, At, Ranged, Works
  <1>2. /\ e \in Work /\ Shape(setting, e) /\ Lines(setting, e) /\ NoneMissed(setting, e)
        /\ e.want \in Versions /\ Within(e.done, e.want) /\ setting \in Setting
        /\ (e.pc \in Saving =>
                /\ e.snap \in [Pieces(e.want) -> Nat]
                /\ \A i \in Pieces(e.want) : e.snap[i] <= e.done[i])
        /\ ~ (e.pc \in Saving /\ e.after = "begin")
        /\ Holds(setting, e, bytes[e.fd], disk[e.fd])
    BY <1>1, SnapNow
  <1>3. /\ d \in Work /\ d.pc = e.pc /\ d.want = e.want /\ d.url = e.url /\ d.moving = e.moving
        /\ d.fd = e.fd /\ d.locked = e.locked /\ d.done = e.done /\ d.snap = e.snap
        /\ d.after = e.after /\ d.taken = e.taken
        /\ d.conn = [e.conn EXCEPT ![c] = Ended] /\ d.checked = e.checked
        /\ d.good = e.good /\ d.cause = e.cause
    <2>1. e \in Work /\ Ended \in Lanes
      BY <1>2 DEF Ended, Lanes
    <2> HIDE DEF e
    <2> QED
      BY <2>1 DEF Work
  <1>4. pull' = [pull EXCEPT ![p] = d]
    OBVIOUS
  <1>5. UNCHANGED <<world, part, final, rec, bytes, disk>> /\ tmp' \in BOOLEAN
    BY DEF world, names, IInv, Types
  <1> HIDE DEF e, d
  <1>6. e.conn \in [Conns -> Lanes]
    BY <1>2 DEF Work
  <1>7. d.conn[c] = Ended /\ \A o \in Conns \ {c} : d.conn[o] = e.conn[o]
    BY <1>3, <1>6
  <1>8. Works(d) /\ (\A i \in Pieces(d.want) : Full(d, i) <=> Full(e, i)) /\ Unfilled(d) = {}
    <2>1. Unfilled(e) = {}
      BY DEF e
    <2> QED
      BY <1>1, <1>3, <2>1 DEF Works, Full, Unfilled
  <1>9. \A o \in Conns : d.conn[o].state \in Busy => o # c /\ d.conn[o] = e.conn[o]
    BY <1>7 DEF Busy, Ended
  <1>10. Lines(setting, d)
    BY <1>2, <1>3, <1>7, <1>8, <1>9 DEF Lines
  <1>11. e.conn[c].state \notin Busy
    BY DEF Busy, e
  <1>12. NoneMissed(setting, d)
    BY <1>1, <1>2, <1>3, <1>7, <1>8, <1>11 DEF NoneMissed
  <1>13. \A o \in Conns : d.conn[o].state = "put" => d.conn[o] = e.conn[o]
    BY <1>9 DEF Busy
  <1> QED
    BY <1>1, <1>2, <1>3, <1>4, <1>5, <1>10, <1>12, <1>13, RangedStep DEF e

LEMMA TakeSomeStep ==
    ASSUME IInv, NEW p \in Pulls, NEW c \in Conns, Running(p), pull[p].conn[c].state = "free",
           NEW i \in Unfilled(pull[p]), \A j \in Unfilled(pull[p]) : i <= j,
           NEW v, v = Served(pull[p]),
           pull' = [pull EXCEPT ![p].taken = i,
                        ![p].conn[c] = [state |-> "filling", piece |-> i, from |-> v]],
           UNCHANGED <<world, names, bytes, disk>>
    PROVE  IInv'
  <1> DEFINE e == pull[p]
             d == [e EXCEPT !.taken = i, !.conn[c] = [state |-> "filling", piece |-> i, from |-> v]]
  <1>1. e.pc \in Ranged /\ Works(e)
    BY DEF Lacks, Running, At, Ranged, Works
  <1>0. v \in Versions /\ (Bare(setting) => v = e.want)
    <2>1. pull[p].pc # "idle" /\ pull[p].pc \in Owning
      BY <1>1 DEF Owning, Ranged, Saving
    <2>2. setting.sized
      BY <1>1, SnapNow DEF Shape
    <2> QED
      BY <2>1, <2>2, ServedNow
  <1>2. /\ e \in Work /\ Shape(setting, e) /\ Lines(setting, e) /\ NoneMissed(setting, e)
        /\ e.want \in Versions /\ Within(e.done, e.want) /\ setting \in Setting
        /\ (e.pc \in Saving =>
                /\ e.snap \in [Pieces(e.want) -> Nat]
                /\ \A q \in Pieces(e.want) : e.snap[q] <= e.done[q])
        /\ ~ (e.pc \in Saving /\ e.after = "begin")
        /\ Holds(setting, e, bytes[e.fd], disk[e.fd])
    BY <1>1, SnapNow
  <1>3. /\ d \in Work /\ d.pc = e.pc /\ d.want = e.want /\ d.url = e.url /\ d.moving = e.moving
        /\ d.fd = e.fd /\ d.locked = e.locked /\ d.done = e.done /\ d.snap = e.snap
        /\ d.after = e.after /\ d.taken = i
        /\ d.conn = [e.conn EXCEPT ![c] = [state |-> "filling", piece |-> i, from |-> v]]
        /\ d.checked = e.checked /\ d.good = e.good /\ d.cause = e.cause
    <2>1. e \in Work /\ i \in Nat
          /\ [state |-> "filling", piece |-> i, from |-> v] \in Lanes
      BY <1>2, <1>0, PieceFacts DEF Unfilled, Busy, Lanes
    <2> HIDE DEF e
    <2> QED
      BY <2>1 DEF Work
  <1>4. pull' = [pull EXCEPT ![p] = d]
    OBVIOUS
  <1>5. UNCHANGED <<world, part, final, rec, bytes, disk>> /\ tmp' \in BOOLEAN
    BY DEF world, names, IInv, Types
  <1> HIDE DEF e, d
  <1>6. e.conn \in [Conns -> Lanes] /\ e.taken \in Nat
    BY <1>2 DEF Work
  <1>7. /\ d.conn[c].state = "filling" /\ d.conn[c].piece = i /\ d.conn[c].from = v
        /\ \A o \in Conns \ {c} : d.conn[o] = e.conn[o]
    BY <1>3, <1>6
  <1>8. Works(d) /\ \A j \in Pieces(d.want) : Full(d, j) <=> Full(e, j)
    BY <1>1, <1>3 DEF Works, Full
  <1>9. i \in Pieces(d.want) /\ i > e.taken /\ i \in Nat
        /\ \A j \in Pieces(d.want) : j \in Nat /\ (e.taken < j /\ j < i => Full(e, j))
    <2>1. i \in Pieces(e.want) /\ i > e.taken /\ \A j \in Unfilled(e) : i <= j
      BY DEF e, Unfilled
    <2>2. \A j \in Pieces(e.want) : j \in Nat
      BY <1>2, PieceFacts
    <2>3. ASSUME NEW j \in Pieces(e.want), e.taken < j, j < i, ~Full(e, j)
          PROVE  FALSE
      <3>1. j \in Unfilled(e)
        BY <1>6, <2>2, <2>3 DEF Unfilled
      <3> QED
        BY <2>1, <2>2, <2>3, <3>1
    <2> QED
      BY <1>3, <2>1, <2>2, <2>3
  <1>10. \A o \in Conns : d.conn[o].state \in Busy /\ o # c =>
            d.conn[o] = e.conn[o] /\ d.conn[o].piece <= e.taken /\ d.conn[o].piece \in Pieces(d.want)
    BY <1>2, <1>3, <1>7 DEF Lines
  <1>11. c \in setting.conns
    BY <1>2 DEF Lines, Ended, e
  <1>12. Lines(setting, d)
    <2>1. \A o \in Conns \ setting.conns : d.conn[o] = Ended
      BY <1>2, <1>7, <1>11 DEF Lines
    <2>2. ASSUME NEW o \in Conns, d.conn[o].state \in Busy
          PROVE  /\ Works(d) /\ d.conn[o].piece \in Pieces(d.want) /\ d.conn[o].piece <= d.taken
                 /\ d.conn[o].state = "put" => ~Full(d, d.conn[o].piece)
                 /\ d.conn[o].from \in Versions /\ (Bare(setting) => d.conn[o].from = d.want)
                 /\ \A u \in Conns :
                     d.conn[u].state \in Busy /\ d.conn[u].piece = d.conn[o].piece => u = o
      <3>1. CASE o = c
        <4>1. \A u \in Conns : d.conn[u].state \in Busy /\ d.conn[u].piece = i => u = c
          BY <1>6, <1>9, <1>10
        <4> QED
          BY <1>0, <1>3, <1>7, <1>8, <1>9, <3>1, <4>1
      <3>2. CASE o # c
        <4>1. d.conn[o] = e.conn[o] /\ d.conn[o].piece <= e.taken /\ d.conn[o].piece \in Pieces(d.want)
          BY <1>10, <2>2, <3>2
        <4>2. d.conn[o].piece \in Nat /\ d.conn[o].piece < i
          BY <1>6, <1>9, <4>1
        <4>3. ASSUME NEW u \in Conns, d.conn[u].state \in Busy, d.conn[u].piece = d.conn[o].piece
              PROVE  u = o
          BY <1>2, <1>7, <1>9, <1>10, <2>2, <4>1, <4>2, <4>3 DEF Lines
        <4>4. /\ d.conn[o].state = "put" => ~Full(d, d.conn[o].piece)
              /\ d.conn[o].from \in Versions /\ (Bare(setting) => d.conn[o].from = d.want)
          BY <1>2, <1>3, <1>8, <2>2, <4>1 DEF Lines
        <4>5. d.conn[o].piece <= d.taken
          BY <1>3, <1>9, <4>2
        <4> QED
          BY <1>8, <4>1, <4>3, <4>4, <4>5
      <3> QED
        BY <3>1, <3>2
    <2> QED
      BY <2>1, <2>2 DEF Lines
  <1>13. NoneMissed(setting, d)
    <2> SUFFICES ASSUME d.cause = "none" PROVE
            /\ \A j \in Pieces(d.want) : j <= d.taken =>
                Full(d, j) \/ \E o \in Conns : d.conn[o].state \in Busy /\ d.conn[o].piece = j
            /\ (\E o \in setting.conns : d.conn[o].state = "ended") => Unfilled(d) = {}
      BY DEF NoneMissed
    <2>1. ASSUME NEW j \in Pieces(d.want), j <= d.taken, ~Full(d, j)
          PROVE  \E o \in Conns : d.conn[o].state \in Busy /\ d.conn[o].piece = j
      <3>1. CASE j = i
        BY <1>7, <3>1 DEF Busy
      <3>2. CASE j # i
        <4>1. j \in Nat /\ ~Full(e, j) /\ (e.taken < j /\ j < i => Full(e, j))
          BY <1>8, <1>9, <2>1
        <4>2. j <= i
          BY <1>3, <2>1
        <4>3. i \in Nat /\ e.taken \in Nat
          BY <1>6, <1>9
        <4>4. j < i
          BY <3>2, <4>1, <4>2, <4>3
        <4>5. j <= e.taken
          BY <4>1, <4>3, <4>4
        <4>6. PICK o \in Conns : e.conn[o].state \in Busy /\ e.conn[o].piece = j
          BY <1>1, <1>2, <1>3, <1>8, <2>1, <4>5 DEF NoneMissed
        <4>7. e.conn[c].state = "free"
          BY DEF e
        <4>8. o # c
          BY <4>6, <4>7 DEF Busy
        <4> QED
          BY <1>7, <4>6, <4>8
      <3> QED
        BY <3>1, <3>2
    <2>2. ASSUME NEW o \in setting.conns, d.conn[o].state = "ended"
          PROVE  FALSE
      <3>1. o \in Conns /\ o # c /\ e.conn[o].state = "ended"
        BY <1>2, <1>7, <2>2 DEF Setting
      <3>2. Unfilled(e) = {}
        BY <1>1, <1>2, <1>3, <2>2, <3>1 DEF NoneMissed
      <3> QED
        BY <3>2 DEF e
    <2> QED
      BY <2>1, <2>2
  <1>14. \A o \in Conns : d.conn[o].state = "put" => d.conn[o] = e.conn[o]
    BY <1>7
  <1> QED
    BY <1>1, <1>2, <1>3, <1>4, <1>5, <1>12, <1>13, <1>14, RangedStep DEF e

\* A byte written over is the only one changed.
LEMMA Overwrite ==
    ASSUME NEW b \in Seq(Byte), NEW n \in 1 .. Len(b), NEW x \in Byte
    PROVE  /\ [b EXCEPT ![n] = x] \in Seq(Byte) /\ Len([b EXCEPT ![n] = x]) = Len(b)
           /\ [b EXCEPT ![n] = x][n] = x
           /\ \A m \in 1 .. Len(b) : m # n => [b EXCEPT ![n] = x][m] = b[m]
  BY ExceptSeq

LEMMA PutStep ==
    ASSUME IInv, NEW p \in Pulls, NEW c \in Conns, Put(p, c)
    PROVE  IInv'
  <1> DEFINE e == pull[p]  i == e.conn[c].piece  n == StartOf(i) + e.done[i] + 1
  <1>0. PICK v \in {e.conn[c].from, Served(e)} :
            /\ bytes' = [bytes EXCEPT ![e.fd][n] = v]
            /\ pull' = [pull EXCEPT ![p].conn[c] = [state |-> "put", piece |-> i, from |-> v]]
    BY DEF Put
  <1> DEFINE line == [state |-> "put", piece |-> i, from |-> v]
             d == [e EXCEPT !.conn[c] = line]
             k == disk[e.fd]  b == [bytes[e.fd] EXCEPT ![n] = v]
  <1>1. e.pc \in Ranged /\ Works(e)
    BY DEF Put, Lacks, Filling, Running, At, Ranged, Works
  <1>2. /\ e \in Work /\ Shape(setting, e) /\ Lines(setting, e) /\ NoneMissed(setting, e)
        /\ e.want \in Versions /\ Within(e.done, e.want) /\ setting \in Setting
        /\ (e.pc \in Saving =>
                /\ e.snap \in [Pieces(e.want) -> Nat]
                /\ \A q \in Pieces(e.want) : e.snap[q] <= e.done[q])
        /\ ~ (e.pc \in Saving /\ e.after = "begin")
        /\ Holds(setting, e, bytes[e.fd], disk[e.fd])
    BY <1>1, SnapNow
  <1>a. v \in Versions /\ (Bare(setting) => v = e.want)
    <2>1. e.conn[c].from \in Versions /\ (Bare(setting) => e.conn[c].from = e.want)
      BY <1>2 DEF Lines, Put, Lacks, Filling, Busy
    <2>2. e.pc # "idle" /\ setting.sized
      BY <1>1, <1>2 DEF Shape, Ranged, Saving
    <2> QED
      BY SMTT(60), <1>0, <2>1, <2>2, ServedNow
  <1>3. /\ d \in Work /\ d.pc = e.pc /\ d.want = e.want /\ d.url = e.url /\ d.moving = e.moving
        /\ d.fd = e.fd /\ d.locked = e.locked /\ d.done = e.done /\ d.snap = e.snap
        /\ d.after = e.after /\ d.taken = e.taken
        /\ d.conn = [e.conn EXCEPT ![c] = line] /\ d.checked = e.checked
        /\ d.good = e.good /\ d.cause = e.cause
    <2>1. e \in Work /\ line \in Lanes
      BY <1>2, <1>a DEF Busy, Lanes, Work
    <2> HIDE DEF e, line
    <2>2. d \in Work
      BY ZenonT(30), <2>1 DEF Work
    <2>3. /\ d.pc = e.pc /\ d.want = e.want /\ d.url = e.url /\ d.moving = e.moving /\ d.fd = e.fd
          /\ d.locked = e.locked /\ d.done = e.done /\ d.snap = e.snap
          /\ d.after = e.after /\ d.taken = e.taken
      BY <2>1 DEF Work
    <2>4. /\ d.conn = [e.conn EXCEPT ![c] = line] /\ d.checked = e.checked
      BY <2>1 DEF Work
    <2>5. /\ d.good = e.good /\ d.cause = e.cause
      BY <2>1 DEF Work
    <2> QED
      BY <2>2, <2>3, <2>4, <2>5
  <1>4. pull' = [pull EXCEPT ![p] = d]
    BY <1>0
  <1>5. UNCHANGED <<world, part, final, rec>> /\ tmp' \in BOOLEAN
        /\ bytes' = [bytes EXCEPT ![e.fd] = b] /\ disk' = [disk EXCEPT ![e.fd] = k]
    BY <1>0 DEF Put, names, IInv, Types
  <1>6. e.conn[c].state = "filling" /\ ~Full(e, i)
    BY DEF Put, Lacks, Filling
  <1>7. bytes[e.fd] \in Seq(Byte) /\ e.pc \in Owning \ {"look", "prepare"} /\ e.url \in Versions
    BY <1>1, SnapNow, OwnerNow
  <1> HIDE DEF e, d, k
  <1>8. i \in Pieces(e.want) /\ i <= e.taken /\ e.done[i] # PieceLen(e.want, i)
    BY <1>2, <1>6 DEF Lines, Busy, Full
  <1>9. /\ n \in 1 .. SizeOf[e.want] /\ Len(bytes[e.fd]) = SizeOf[e.want]
        /\ \A j \in Pieces(e.want) : \A l \in 1 .. e.done[j] : StartOf(j) + l # n
        /\ \A j \in Pieces(e.want) : e.done[j] # PieceLen(e.want, j) /\ j # i =>
                StartOf(j) + e.done[j] + 1 # n
    BY <1>1, <1>2, <1>8, NextPlace DEF Holds
  <1>10. /\ b \in Seq(Byte) /\ Len(b) = SizeOf[e.want] /\ b[n] = v
         /\ \A m \in 1 .. SizeOf[e.want] : m # n => b[m] = bytes[e.fd][m]
    BY <1>a, <1>7, <1>9, Overwrite DEF Byte
  <1> HIDE DEF b, n
  <1>11. e.conn \in [Conns -> Lanes]
    BY <1>2 DEF Work
  <1>12. /\ d.conn[c].state = "put" /\ d.conn[c].piece = i /\ d.conn[c].from = v
         /\ \A o \in Conns \ {c} : d.conn[o] = e.conn[o]
    BY <1>3, <1>11
  <1> HIDE DEF i
  <1>13. \A o \in Conns : /\ d.conn[o].piece = e.conn[o].piece
                          /\ d.conn[o].state \in Busy <=> e.conn[o].state \in Busy
                          /\ d.conn[o].state = "ended" <=> e.conn[o].state = "ended"
    BY <1>6, <1>12 DEF Busy, i
  <1>14. Works(d) /\ (\A j \in Pieces(d.want) : Full(d, j) <=> Full(e, j)) /\ Unfilled(d) = Unfilled(e)
    BY <1>1, <1>3 DEF Works, Full, Unfilled
  <1>15. Lines(setting, d)
    <2>1. \A o \in Conns \ setting.conns : d.conn[o] = Ended
      BY <1>2, <1>6, <1>12 DEF Lines, Ended
    <2>2. ASSUME NEW o \in Conns, d.conn[o].state = "put"
          PROVE  ~Full(d, d.conn[o].piece)
      BY <1>2, <1>6, <1>8, <1>12, <1>14, <2>2, <1>3 DEF Lines, Busy
    <2>3. ASSUME NEW o \in Conns, d.conn[o].state \in Busy
          PROVE  d.conn[o].from \in Versions /\ (Bare(setting) => d.conn[o].from = d.want)
      BY <1>2, <1>a, <1>3, <1>12, <2>3 DEF Lines
    <2> QED
      BY <1>2, <1>3, <1>13, <1>14, <2>1, <2>2, <2>3 DEF Lines
  <1>16. NoneMissed(setting, d)
    <2> SUFFICES ASSUME d.cause = "none" PROVE NoneMissed(setting, d)
      BY DEF NoneMissed
    <2>1. \A j \in Pieces(e.want) : j <= e.taken =>
            Full(e, j) \/ \E o \in Conns : e.conn[o].state \in Busy /\ e.conn[o].piece = j
      BY <1>1, <1>2, <1>3 DEF NoneMissed
    <2>2. (\E o \in setting.conns : e.conn[o].state = "ended") => Unfilled(e) = {}
      BY <1>1, <1>2, <1>3 DEF NoneMissed
    <2>3. setting.conns \subseteq Conns
      BY <1>2 DEF Setting
    <2>4. \A j \in Pieces(d.want) : j <= d.taken =>
            Full(d, j) \/ \E o \in Conns : d.conn[o].state \in Busy /\ d.conn[o].piece = j
      BY <1>3, <1>13, <1>14, <2>1
    <2>5. (\E o \in setting.conns : d.conn[o].state = "ended") => Unfilled(d) = {}
      BY <1>13, <1>14, <2>2, <2>3
    <2> QED
      BY <2>4, <2>5 DEF NoneMissed
  <1>17. d.pc \in Ranged /\ d.pc \in Owning /\ d.pc # "prepare" /\ setting.sized /\ d.done # <<>>
    BY <1>1, <1>2, <1>3, <1>7 DEF Shape
  <1>18. Shape(setting, d)
    BY <1>2, <1>3, <1>15, <1>16, <1>17 DEF Shape, Early, Ranged, Saving
  <1>19. Bare(setting) =>
            v = e.want /\ \A m \in 1 .. SizeOf[e.want] : bytes[e.fd][m] = e.want => b[m] = e.want
    BY <1>a, <1>10
  <1>20. Bare(setting) => Arrived(d.done, d.want, b)
    <2> SUFFICES ASSUME Bare(setting), NEW j \in Pieces(e.want), NEW l \in 1 .. e.done[j]
                 PROVE  StartOf(j) + l <= Len(b) /\ b[StartOf(j) + l] = e.want
      BY <1>3 DEF Arrived
    <2>1. Arrived(e.done, e.want, bytes[e.fd])
      BY <1>1, <1>2, <1>3, <1>17 DEF Holds, Ranged, Saving
    <2>2. StartOf(j) + l \in 1 .. SizeOf[e.want]
      BY <1>2, CountedPlace
    <2> QED
      BY <1>9, <1>10, <1>19, <2>1, <2>2 DEF Arrived
  <1>21. ASSUME Bare(setting), NEW o \in Conns, d.conn[o].state = "put"
         PROVE  b[StartOf(d.conn[o].piece) + d.done[d.conn[o].piece] + 1] = d.want
    <2>1. CASE o = c
      BY <1>3, <1>10, <1>12, <1>19, <1>21, <2>1 DEF n
    <2>2. CASE o # c
      <3>1. e.conn[o].state = "put" /\ d.conn[o] = e.conn[o]
        BY <1>12, <1>21, <2>2
      <3>2. bytes[e.fd][StartOf(e.conn[o].piece) + e.done[e.conn[o].piece] + 1] = e.want
        BY <1>2, <1>21, <3>1 DEF Holds
      <3>3. e.conn[o].piece \in Pieces(e.want) /\ e.done[e.conn[o].piece] # PieceLen(e.want, e.conn[o].piece)
        BY <1>2, <3>1 DEF Lines, Busy, Full
      <3>4. StartOf(e.conn[o].piece) + e.done[e.conn[o].piece] + 1 \in 1 .. SizeOf[e.want]
        BY <1>2, <3>3, NextPlace
      <3> QED
        BY <1>3, <1>19, <1>21, <3>1, <3>2, <3>4
    <2> QED
      BY <2>1, <2>2
  <1>22. ASSUME setting.sum
         PROVE  /\ d.checked <= SizeOf[d.want]
                /\ \A m \in 1 .. d.checked : Counts(d, m) /\ (d.good => b[m] = d.want)
    <2>1. /\ e.checked <= SizeOf[e.want]
          /\ \A m \in 1 .. e.checked : Counts(e, m) /\ (e.good => bytes[e.fd][m] = e.want)
      BY <1>1, <1>2, <1>22 DEF Holds
    <2>2. e.checked \in Nat /\ SizeOf[e.want] \in Nat
      BY <1>2, SizeType DEF Work
    <2>3. ASSUME NEW m \in 1 .. e.checked
          PROVE  Counts(d, m) /\ b[m] = bytes[e.fd][m]
      <3>1. Counts(e, m) /\ m \in 1 .. SizeOf[e.want]
        BY <2>1, <2>2
      <3>2. m # n
        BY <1>9, <3>1 DEF Counts
      <3> QED
        BY <1>3, <1>10, <3>1, <3>2 DEF Counts
    <2> QED
      BY <1>3, <2>1, <2>3
  <1>23. Holds(setting, d, b, k)
    <2>1. d.pc \notin {"extend", "streaming", "sync", "name"}
      BY <1>17 DEF Ranged, Saving
    <2>2. Bare(setting) /\ d.pc \in {"write", "rename"} => Arrived(d.snap, d.want, k)
      BY <1>2, <1>3 DEF Holds, k
    <2> QED
      BY <1>3, <1>10, <1>20, <1>21, <1>22, <2>1, <2>2 DEF Holds
  <1>24. Recorded'
    <2>1. part = e.fd /\ part \in Files /\ bytes'[part] = b /\ disk'[part] = disk[part]
      BY <1>5, <1>7, OwnFile DEF IInv, Types, e, k
    <2>2. \A j \in Pieces(d.want) : e.done[j] <= d.done[j]
      BY <1>2, <1>3 DEF Within
    <2>3. e.pc # "prepare" /\ d.done # <<>>
      BY <1>7, <1>17
    <2>4. CASE Bare(setting)
      <3>1. Len(bytes'[part]) = Len(bytes[part])
            /\ \A m \in 1 .. Len(bytes[part]) : bytes[part][m] = d.want => bytes'[part][m] = d.want
        BY <1>3, <1>9, <1>10, <1>19, <2>1, <2>4
      <3>2. e.done # <<>> => d.done # <<>> /\ \A j \in Pieces(d.want) : e.done[j] <= d.done[j]
        BY <2>2, <2>3
      <3>3. UNCHANGED <<world, part, final, rec>> /\ d.want = e.want
        BY <1>3, <1>5
      <3>4. /\ pull[p].pc \in Owning \ {"look", "prepare"} /\ d \in Work /\ d.pc \in Owning
            /\ d.want = pull[p].want /\ (disk'[part] = disk[part] \/ disk'[part] = bytes[part])
            /\ pull[p].done # <<>> =>
                    d.done # <<>> /\ \A j \in Pieces(d.want) : pull[p].done[j] <= d.done[j]
        BY <1>3, <1>7, <1>17, <2>1, <3>2 DEF e
      <3> QED
        BY <1>4, <1>18, <3>1, <3>3, <3>4, RecordStays
    <2>5. CASE ~Bare(setting)
      BY <1>5, <2>5 DEF Recorded, world
    <2> QED
      BY <2>4, <2>5
  <1>25. rec' = None \/ \E w \in Versions :
                            rec'.size = SizeOf[w] /\ rec'.etag = Etag(w) /\ Within(rec'.done, w)
    BY <1>5 DEF IInv, Types
  <1>26. k \in Seq(Byte)
    BY <1>7, OwnerNow DEF e, k
  <1> QED
    BY <1>3, <1>4, <1>5, <1>7, <1>10, <1>17, <1>18, <1>23, <1>24, <1>25, <1>26, GoesOnAs DEF e

LEMMA CountStep ==
    ASSUME IInv, NEW p \in Pulls, NEW c \in Conns, Count(p, c)
    PROVE  IInv'
  <1> DEFINE e == pull[p]  i == e.conn[c].piece
             d == [e EXCEPT !.done[i] = @ + 1, !.conn[c].state = "filling"]
             b == bytes[e.fd]  k == disk[e.fd]
  <1>1. e.pc \in Ranged /\ Works(e)
    BY DEF Count, Running, At, Ranged, Works
  <1>2. /\ e \in Work /\ Shape(setting, e) /\ Lines(setting, e) /\ NoneMissed(setting, e)
        /\ e.want \in Versions /\ Within(e.done, e.want) /\ setting \in Setting
        /\ (e.pc \in Saving =>
                /\ e.snap \in [Pieces(e.want) -> Nat]
                /\ \A q \in Pieces(e.want) : e.snap[q] <= e.done[q])
        /\ ~ (e.pc \in Saving /\ e.after = "begin")
        /\ Holds(setting, e, bytes[e.fd], disk[e.fd])
    BY <1>1, SnapNow
  <1>3. /\ d \in Work /\ d.pc = e.pc /\ d.want = e.want /\ d.url = e.url /\ d.moving = e.moving
        /\ d.fd = e.fd /\ d.locked = e.locked /\ d.done = [e.done EXCEPT ![i] = @ + 1]
        /\ d.snap = e.snap /\ d.after = e.after /\ d.taken = e.taken
        /\ d.conn = [e.conn EXCEPT ![c].state = "filling"] /\ d.checked = e.checked
        /\ d.good = e.good /\ d.cause = e.cause
    <2>1. e \in Work /\ "filling" \in {"free", "ended"} \cup Busy
      BY <1>2 DEF Busy
    <2> DEFINE n == [e.done EXCEPT ![i] = @ + 1]  l == [e.conn EXCEPT ![c].state = "filling"]
    <2>2. n \in UNION {[Pieces(v) -> Nat] : v \in Versions}
      <3>1. e.done \in [Pieces(e.want) -> Nat]
        BY <1>2 DEF Within
      <3>2. i \in Pieces(e.want)
        BY <1>2 DEF Lines, Busy, Count
      <3> HIDE DEF i
      <3>3. n \in [Pieces(e.want) -> Nat]
        BY <3>1, <3>2
      <3> QED
        BY <1>2, <3>3
    <2>3. l \in [Conns -> Lanes]
      <3>1. e.conn \in [Conns -> Lanes]
        BY <2>1 DEF Work
      <3> QED
        BY <2>1, <3>1 DEF Lanes
    <2>4. d = [e EXCEPT !.done = n, !.conn = l]
      BY <2>1 DEF Work
    <2> HIDE DEF e, i, n, l, d
    <2>5. /\ d \in Work /\ d.pc = e.pc /\ d.want = e.want /\ d.url = e.url
          /\ d.moving = e.moving /\ d.fd = e.fd
          /\ d.locked = e.locked /\ d.done = n /\ d.snap = e.snap
          /\ d.after = e.after /\ d.taken = e.taken
          /\ d.conn = l /\ d.checked = e.checked
          /\ d.good = e.good /\ d.cause = e.cause
      BY <2>1, <2>2, <2>3, <2>4 DEF Work
    <2> QED
      BY <2>5 DEF n, l
  <1>4. pull' = [pull EXCEPT ![p] = d]
    BY DEF Count
  <1>5. UNCHANGED <<world, part, final, rec>> /\ tmp' \in BOOLEAN
        /\ bytes' = [bytes EXCEPT ![e.fd] = b] /\ disk' = [disk EXCEPT ![e.fd] = k]
    BY DEF Count, names, IInv, Types
  <1>6. e.conn[c].state = "put"
    BY DEF Count
  <1>7. b \in Seq(Byte) /\ k \in Seq(Byte) /\ e.pc \in Owning \ {"look", "prepare"} /\ e.url \in Versions
    BY <1>1, SnapNow, OwnerNow
  <1>8. part = e.fd /\ bytes'[part] = bytes[part] /\ disk'[part] = disk[part]
    BY <1>5, <1>7, OwnFile DEF IInv, Types
  <1> HIDE DEF e, d, k, b
  <1>9. i \in Pieces(e.want) /\ i <= e.taken /\ e.done[i] # PieceLen(e.want, i)
    BY <1>2, <1>6 DEF Lines, Busy, Full
  <1>10. e.conn \in [Conns -> Lanes]
         /\ e.done \in [Pieces(e.want) -> Nat] /\ e.checked \in Nat
    BY <1>2 DEF Work, Within
  <1>11. d.conn[c].state = "filling" /\ d.conn[c].piece = i /\ \A o \in Conns \ {c} : d.conn[o] = e.conn[o]
    BY <1>3, <1>10
  <1>12. /\ d.done \in [Pieces(e.want) -> Nat] /\ d.done[i] = e.done[i] + 1
         /\ \A j \in Pieces(e.want) : j # i => d.done[j] = e.done[j]
    BY <1>3, <1>9, <1>10
  <1> HIDE DEF i
  <1>13. \A j \in Pieces(e.want) : e.done[j] \in Nat /\ d.done[j] \in Nat /\ e.done[j] <= d.done[j]
    BY <1>10, <1>12
  <1>14. Within(d.done, d.want) /\ d.done # <<>>
    <2>1. e.done[i] \in Nat /\ e.done[i] <= PieceLen(e.want, i) /\ PieceLen(e.want, i) \in Nat
      BY <1>2, <1>9, PieceFacts DEF Within
    <2>2. d.done[i] <= PieceLen(e.want, i)
      BY <1>9, <1>12, <2>1
    <2>3. \A j \in Pieces(e.want) : d.done[j] <= PieceLen(e.want, j)
      BY <1>2, <1>12, <2>2 DEF Within
    <2>4. Within(d.done, d.want)
      BY <1>3, <1>12, <2>3 DEF Within
    <2>5. DOMAIN d.done # {}
      BY <1>9, <1>12
    <2>6. DOMAIN <<>> = {}
      OBVIOUS
    <2>7. d.done # <<>>
      BY <2>5, <2>6
    <2> QED
      BY <2>4, <2>7
  <1>15. \A o \in Conns : /\ d.conn[o].piece = e.conn[o].piece
                          /\ d.conn[o].state \in Busy <=> e.conn[o].state \in Busy
                          /\ d.conn[o].state = "ended" <=> e.conn[o].state = "ended"
    BY <1>6, <1>11 DEF Busy, i
  <1>16. Works(d) /\ (\A j \in Pieces(e.want) : j # i => (Full(d, j) <=> Full(e, j)))
         /\ Unfilled(d) \subseteq Unfilled(e)
    <2>1. \A j \in Pieces(e.want) : j # i => (Full(d, j) <=> Full(e, j))
      BY <1>3, <1>12 DEF Full
    <2>2. i \in Nat /\ e.taken \in Nat /\ ~ (i > e.taken)
      BY <1>2, <1>9, PieceFacts DEF Work
    <2>3. Unfilled(d) \subseteq Unfilled(e)
      BY <1>3, <2>1, <2>2 DEF Unfilled
    <2> QED
      BY <1>1, <1>3, <2>1, <2>3 DEF Works
  <1>17. \A o \in Conns : d.conn[o].state = "put" =>
            o # c /\ d.conn[o] = e.conn[o] /\ e.conn[o].piece \in Pieces(e.want) /\ e.conn[o].piece # i
    BY <1>2, <1>6, <1>11 DEF Lines, Busy, i
  <1>18. Lines(setting, d)
    <2>1. \A o \in Conns \ setting.conns : d.conn[o] = Ended
      BY <1>2, <1>6, <1>11 DEF Lines, Ended
    <2>2. ASSUME NEW o \in Conns, d.conn[o].state = "put"
          PROVE  ~Full(d, d.conn[o].piece)
      BY <1>2, <1>16, <1>17, <2>2 DEF Lines, Busy
    <2> QED
      BY <1>2, <1>3, <1>15, <1>16, <2>1, <2>2 DEF Lines
  <1>19. NoneMissed(setting, d)
    <2> SUFFICES ASSUME d.cause = "none" PROVE NoneMissed(setting, d)
      BY DEF NoneMissed
    <2>1. \A j \in Pieces(e.want) : j <= e.taken =>
            Full(e, j) \/ \E o \in Conns : e.conn[o].state \in Busy /\ e.conn[o].piece = j
      BY <1>1, <1>2, <1>3 DEF NoneMissed
    <2>2. (\E o \in setting.conns : e.conn[o].state = "ended") => Unfilled(e) = {}
      BY <1>1, <1>2, <1>3 DEF NoneMissed
    <2>3. setting.conns \subseteq Conns
      BY <1>2 DEF Setting
    <2>4. \A j \in Pieces(d.want) : j <= d.taken =>
            Full(d, j) \/ \E o \in Conns : d.conn[o].state \in Busy /\ d.conn[o].piece = j
      <3>1. d.conn[c].state \in Busy /\ d.conn[c].piece = i
        BY <1>11 DEF Busy
      <3> QED
        BY <1>3, <1>15, <1>16, <2>1, <3>1
    <2>5. (\E o \in setting.conns : d.conn[o].state = "ended") => Unfilled(d) = {}
      BY <1>15, <1>16, <2>2, <2>3
    <2> QED
      BY <2>4, <2>5 DEF NoneMissed
  <1>20. d.pc \in Ranged /\ d.pc \in Owning /\ d.pc # "prepare" /\ setting.sized
    BY <1>1, <1>2, <1>3, <1>7 DEF Shape
  <1>21. d.pc \in Saving => /\ d.snap \in [Pieces(d.want) -> Nat]
                            /\ \A j \in Pieces(d.want) : d.snap[j] <= d.done[j]
    <2> SUFFICES ASSUME d.pc \in Saving
                 PROVE  /\ d.snap \in [Pieces(d.want) -> Nat]
                        /\ \A j \in Pieces(d.want) : d.snap[j] <= d.done[j]
      OBVIOUS
    <2>1. e.snap \in [Pieces(e.want) -> Nat] /\ \A j \in Pieces(e.want) : e.snap[j] <= e.done[j]
      BY <1>2, <1>3
    <2>2. \A j \in Pieces(e.want) :
            e.snap[j] \in Nat /\ e.done[j] \in Nat /\ d.done[j] \in Nat /\ e.done[j] <= d.done[j]
      BY <1>13, <2>1
    <2>3. \A j \in Pieces(e.want) : e.snap[j] <= d.done[j]
      BY <2>1, <2>2
    <2> QED
      BY <1>3, <2>1, <2>3
  <1>22. Shape(setting, d)
    BY <1>2, <1>3, <1>14, <1>18, <1>19, <1>20, <1>21 DEF Shape, Early, Ranged, Saving
  <1>23. Bare(setting) => Arrived(d.done, d.want, b)
    <2> SUFFICES ASSUME Bare(setting), NEW j \in Pieces(e.want), NEW l \in 1 .. d.done[j]
                 PROVE  StartOf(j) + l <= Len(b) /\ b[StartOf(j) + l] = e.want
      BY <1>3 DEF Arrived
    <2>1. Arrived(e.done, e.want, b)
      BY <1>1, <1>2, <1>20, <1>3 DEF Shape, Holds, Ranged, Saving, b
    <2>2. CASE l \in 1 .. e.done[j]
      BY <2>1, <2>2 DEF Arrived
    <2>3. CASE l \notin 1 .. e.done[j]
      <3>1. j = i /\ l = e.done[i] + 1
        BY <1>12, <1>13, <2>3
      <3>2. b[StartOf(i) + e.done[i] + 1] = e.want
        BY <1>2, <1>6 DEF Holds, b, i
      <3>3. StartOf(i) + e.done[i] + 1 \in 1 .. SizeOf[e.want] /\ Len(b) = SizeOf[e.want]
        BY <1>1, <1>2, <1>9, NextPlace DEF Holds, b
      <3>4. StartOf(i) \in Nat /\ e.done[i] \in Nat /\ SizeOf[e.want] \in Nat
        BY <1>2, <1>9, <1>13, PieceFacts, SizeType
      <3>5. StartOf(j) + l = StartOf(i) + e.done[i] + 1
        BY SMTT(60), <3>1, <3>4
      <3> QED
        BY <3>2, <3>3, <3>4, <3>5
    <2> QED
      BY <2>2, <2>3
  <1>24. ASSUME Bare(setting), NEW o \in Conns, d.conn[o].state = "put"
         PROVE  b[StartOf(d.conn[o].piece) + d.done[d.conn[o].piece] + 1] = d.want
    <2>1. /\ e.conn[o].state = "put" /\ d.conn[o] = e.conn[o]
          /\ d.done[d.conn[o].piece] = e.done[e.conn[o].piece]
      BY <1>12, <1>17, <1>24
    <2> QED
      BY <1>2, <1>3, <1>24, <2>1 DEF Holds, b
  <1>25. ASSUME setting.sum
         PROVE  /\ d.checked <= SizeOf[d.want]
                /\ \A m \in 1 .. d.checked : Counts(d, m) /\ (d.good => b[m] = d.want)
    <2>1. /\ e.checked <= SizeOf[e.want]
          /\ \A m \in 1 .. e.checked : Counts(e, m) /\ (e.good => b[m] = e.want)
      BY <1>1, <1>2, <1>25 DEF Holds, b
    <2>2. ASSUME NEW m, Counts(e, m)
          PROVE  Counts(d, m)
      BY <1>3, <1>13, <2>2 DEF Counts
    <2> QED
      BY <1>3, <2>1, <2>2
  <1>26. Holds(setting, d, b, k)
    <2>1. d.pc \notin {"extend", "streaming", "sync", "name"} /\ Len(b) = SizeOf[d.want]
      BY <1>1, <1>2, <1>3, <1>20 DEF Ranged, Saving, Holds, b
    <2>2. Bare(setting) /\ d.pc \in {"write", "rename"} => Arrived(d.snap, d.want, k)
      BY <1>2, <1>3 DEF Holds, k
    <2> QED
      BY <1>3, <1>23, <1>24, <1>25, <2>1, <2>2 DEF Holds
  <1>27. Recorded'
    <2>1. Len(bytes'[part]) = Len(bytes[part])
          /\ \A m \in 1 .. Len(bytes[part]) : bytes[part][m] = d.want => bytes'[part][m] = d.want
      BY <1>8
    <2>2. UNCHANGED <<world, part, final, rec>> /\ disk'[part] = disk[part]
      BY <1>5, <1>8
    <2>3. /\ pull[p].pc \in Owning \ {"look", "prepare"} /\ d \in Work /\ d.pc \in Owning
          /\ d.want = pull[p].want
          /\ pull[p].done # <<>> =>
                  d.done # <<>> /\ \A j \in Pieces(d.want) : pull[p].done[j] <= d.done[j]
      BY <1>3, <1>7, <1>13, <1>14, <1>20 DEF e
    <2> QED
      BY <1>4, <1>22, <2>1, <2>2, <2>3, RecordStays
  <1>28. rec' = None \/ \E v \in Versions :
                            rec'.size = SizeOf[v] /\ rec'.etag = Etag(v) /\ Within(rec'.done, v)
    BY <1>5 DEF IInv, Types
  <1> QED
    BY <1>3, <1>4, <1>5, <1>7, <1>20, <1>22, <1>26, <1>27, <1>28, GoesOnAs DEF e

\* A pull that is done with its pieces.
LEMMA LeavesRanged ==
    ASSUME NEW s, NEW e \in Work, NEW d \in Work, NEW b, NEW k,
           Shape(s, e), Holds(s, e, b, k), e.pc \in Ranged, d.pc \in {"stream", "failed", "sync"},
           d.want = e.want, d.url = e.url, d.moving = e.moving, d.done = e.done, d.conn = e.conn, d.cause = e.cause,
           \A c \in Conns : e.conn[c].state \notin Busy,
           Sure(s) /\ d.pc = "sync" => b = Whole(d.want)
    PROVE  Shape(s, d) /\ Holds(s, d, b, k)
  <1>1. d.pc \notin Early \cup Ranged \cup {"extend", "idle", "empty", "streaming", "name"}
        /\ e.pc # "idle"
        /\ e.pc # "extend"
    BY DEF Early, Ranged, Saving
  <1>2. Lines(s, d)
    BY DEF Shape, Lines, Busy
  <1>3. NoneMissed(s, d)
    BY <1>1 DEF NoneMissed, Works, Ranged
  <1>4. Shape(s, d)
    BY <1>1, <1>2, <1>3 DEF Shape, Ranged
  <1>5. \A c \in Conns : d.conn[c].state # "put"
    BY DEF Busy
  <1>6. Holds(s, d, b, k)
    BY SMTT(60), <1>1, <1>5 DEF Holds, Ranged, Saving
  <1> QED
    BY <1>4, <1>6

\* The record written is of name.part, and on the disk.
LEMMA SavedStep ==
    ASSUME IInv, NEW p \in Pulls, pull[p].pc = "rename",
           NEW d \in Work, pull' = [pull EXCEPT ![p] = d], d.pc \in {"run", "failed"},
           d.fd = pull[p].fd, d.locked = pull[p].locked, d.want = pull[p].want,
           d.done = pull[p].done,
           rec' = [size |-> SizeOf[d.want], etag |-> Etag(d.want), done |-> pull[p].snap],
           UNCHANGED <<world, part, final, bytes, disk>>, tmp' \in BOOLEAN,
           Shape(setting, d), Holds(setting, d, bytes[pull[p].fd], disk[pull[p].fd])
    PROVE  IInv'
  <1> DEFINE e == pull[p]  b == bytes[e.fd]  k == disk[e.fd]
  <1>1. e.pc \in Ranged /\ e.pc \in Saving /\ d.pc \in Owning \ {"look", "prepare"}
    BY DEF Owning, Ranged, Saving
  <1>2. /\ e \in Work /\ Shape(setting, e) /\ e.want \in Versions /\ Within(e.done, e.want)
        /\ e.snap \in [Pieces(e.want) -> Nat]
        /\ \A i \in Pieces(e.want) : e.snap[i] <= e.done[i]
        /\ Holds(setting, e, b, k) /\ e.pc \in Owning \ {"look", "prepare"} /\ setting \in Setting
    BY <1>1, SnapNow
  <1>3. b \in Seq(Byte) /\ k \in Seq(Byte)
    BY <1>2, OwnerNow
  <1>4. bytes' = [bytes EXCEPT ![e.fd] = b] /\ disk' = [disk EXCEPT ![e.fd] = k]
    BY DEF IInv, Types
  <1>5. part = e.fd /\ part # None /\ part \in Files
    BY <1>2, OwnFile DEF IInv, Locks, NoneAssumption
  <1>6. \A q \in Pulls : pull'[q].pc \in Owning => q = p /\ pull'[q] = d
    <2>1. pull'[p] = d /\ \A q \in Pulls \ {p} : pull'[q] = pull[q]
      BY Moved DEF IInv
    <2> QED
      BY <1>2, <2>1, OneOwner DEF IInv
  <1>7. \A i \in Pieces(e.want) : e.snap[i] \in Nat /\ e.done[i] \in Nat /\ e.snap[i] <= e.done[i]
    BY <1>2 DEF Within
  <1>8. Within(e.snap, e.want)
    <2>1. \A i \in Pieces(e.want) : e.done[i] <= PieceLen(e.want, i) /\ PieceLen(e.want, i) \in Nat
      BY <1>2, PieceFacts DEF Within
    <2>2. \A i \in Pieces(e.want) : e.snap[i] <= PieceLen(e.want, i)
      BY <1>7, <2>1
    <2> QED
      BY <1>2, <2>2 DEF Within
  <1>9. \E v \in Versions : rec'.size = SizeOf[v] /\ rec'.etag = Etag(v) /\ Within(rec'.done, v)
    BY <1>2, <1>8
  <1>10. ASSUME Bare(setting), setting.sized, setting.etag
         PROVE  /\ e.want = main /\ final = None
                /\ rec'.size = SizeOf[main] /\ rec'.etag = main /\ rec'.done = e.snap
                /\ Len(b) = SizeOf[main] /\ Arrived(e.snap, main, b) /\ Arrived(e.snap, main, k)
                /\ d.done # <<>>
    <2>1. e.want = main
      BY <1>1, <1>10 DEF IInv, Still, Saving
    <2>2. final = None
      BY <1>2, <1>10 DEF IInv, Recorded
    <2>3. rec'.size = SizeOf[main] /\ rec'.etag = main /\ rec'.done = e.snap
      BY <1>10, <2>1 DEF Etag
    <2>4. d.done # <<>>
      BY SMTT(60), <1>1, <1>2 DEF Shape
    <2>5. Arrived(e.done, main, b)
      BY <1>2, <1>10, <2>1, <2>4 DEF Holds
    <2>6. Arrived(e.snap, main, b)
      BY SMTT(60), <1>7, <2>1, <2>5, ArrivedLess
    <2>7. Arrived(e.snap, main, k) /\ Len(b) = SizeOf[main]
      BY <1>1, <1>2, <1>10, <2>1 DEF Holds
    <2> QED
      BY <2>1, <2>2, <2>3, <2>4, <2>6, <2>7
  <1>11. Recorded'
    <2> SUFFICES ASSUME Bare(setting), setting.sized, setting.etag PROVE Recorded'
      BY DEF Recorded, world
    <2>1. UNCHANGED <<part, final, main, setting, bytes, disk>>
      BY DEF world
    <2> HIDE DEF e
    <2> QED
      BY <1>5, <1>6, <1>7, <1>8, <1>10, <2>1 DEF Recorded, e
  <1> HIDE DEF b, k
  <1> QED
    BY <1>1, <1>2, <1>3, <1>4, <1>9, <1>11, GoesOnAs DEF b, k

LEMMA RenameStep ==
    ASSUME IInv, NEW p \in Pulls, Rename(p)
    PROVE  IInv'
  <1> DEFINE e == pull[p]  b == bytes[e.fd]  k == disk[e.fd]
             x == IF e.after = "begin" THEN "run" ELSE e.after
             d == [e EXCEPT !.pc = x]
             f == [e EXCEPT !.pc = "run", !.cause = IF @ = "none" THEN "other" ELSE @]
  <1>1. e.pc = "rename" /\ e.pc \in Ranged /\ e.pc \in Saving
    BY DEF Rename, At, Ranged, Saving
  <1>2. /\ e \in Work /\ Shape(setting, e) /\ Lines(setting, e) /\ NoneMissed(setting, e)
        /\ Holds(setting, e, b, k) /\ setting \in Setting /\ e.want \in Versions
        /\ e.pc \in Owning \ {"look", "prepare"}
        /\ e.after = "begin" => Fresh(setting, e)
    BY <1>1, SnapNow
  <1>3. e.after \in {"begin", "run", "failed"}
    BY <1>2 DEF Work
  <1>4. /\ d \in Work /\ d.pc = x /\ x \in {"run", "failed"} /\ d.want = e.want /\ d.url = e.url
        /\ d.moving = e.moving
        /\ d.fd = e.fd /\ d.locked = e.locked /\ d.done = e.done /\ d.after = e.after
        /\ d.taken = e.taken /\ d.conn = e.conn /\ d.checked = e.checked /\ d.good = e.good
        /\ d.cause = e.cause
    <2>1. e \in Work /\ {"run", "failed"} \subseteq PCs
      BY <1>2 DEF PCs, Owning, Ranged
    <2>2. x \in {"run", "failed"}
      BY <1>3
    <2> HIDE DEF e, x
    <2> QED
      BY <2>1, <2>2 DEF Work
  <1>5. /\ f \in Work /\ f.pc = "run" /\ f.want = e.want /\ f.url = e.url /\ f.moving = e.moving
        /\ f.fd = e.fd /\ f.locked = e.locked /\ f.done = e.done /\ f.after = e.after
        /\ f.taken = e.taken /\ f.conn = e.conn /\ f.checked = e.checked /\ f.good = e.good
        /\ f.cause = IF e.cause = "none" THEN "other" ELSE e.cause
    <2>1. e \in Work /\ "run" \in PCs
      BY <1>2 DEF PCs, Owning, Ranged
    <2> HIDE DEF e
    <2>2. f \in Work
      BY ZenonT(30), <2>1 DEF Work
    <2>3. /\ f.pc = "run" /\ f.want = e.want /\ f.url = e.url /\ f.moving = e.moving /\ f.fd = e.fd
          /\ f.locked = e.locked /\ f.done = e.done /\ f.after = e.after
          /\ f.taken = e.taken /\ f.conn = e.conn
      BY <2>1 DEF Work
    <2>4. f.checked = e.checked /\ f.good = e.good
      BY <2>1 DEF Work
    <2>5. f.cause = IF e.cause = "none" THEN "other" ELSE e.cause
      BY <2>1 DEF Work
    <2> QED
      BY <2>2, <2>3, <2>4, <2>5
  <1>6. UNCHANGED <<world, part, final, bytes, disk>> /\ tmp' \in BOOLEAN
    BY DEF Rename, IInv, Types
  <1>7. /\ tmp => /\ rec' = [size |-> SizeOf[e.want], etag |-> Etag(e.want), done |-> e.snap]
                  /\ pull' = [pull EXCEPT ![p] = d]
        /\ ~tmp => /\ UNCHANGED rec
                   /\ e.after = "begin" => Exit(p)
                   /\ e.after = "failed" => pull' = [pull EXCEPT ![p] = d]
                   /\ e.after = "run" => pull' = [pull EXCEPT ![p] = f]
    BY <1>3 DEF Rename, Goto
  <1> HIDE DEF d, f, x
  <1>8. Shape(setting, d) /\ Holds(setting, d, b, k)
    <2>1. CASE e.after = "failed"
      <3>1. d.pc = "failed"
        BY <1>4, <2>1 DEF x
      <3>2. \A c \in Conns : e.conn[c].state \notin Busy
        BY <1>1, <1>2, <2>1 DEF Lines, Works
      <3> QED
        BY <1>1, <1>2, <1>4, <3>1, <3>2, LeavesRanged
    <2>2. CASE e.after # "failed"
      <3>1. d.pc = "run" /\ d.pc \in Ranged /\ d.pc \notin Saving
        BY <1>3, <1>4, <2>2 DEF x, Ranged, Saving
      <3>2. Lines(setting, d) /\ NoneMissed(setting, d)
        <4>1. CASE e.after = "begin"
          <5>1. Fresh(setting, d)
            BY <1>2, <1>4, <4>1 DEF Fresh
          <5> QED
            BY <1>2, <1>4, <5>1, LinesBegin
        <4>2. CASE e.after = "run"
          BY <1>1, <1>2, <1>4, <3>1, <4>2, LinesMove DEF Works
        <4> QED
          BY <1>3, <2>2, <4>1, <4>2
      <3>3. /\ d.url \in Versions /\ (Bare(setting) /\ setting.sized => d.url = d.want)
            /\ d.moving => ~setting.pinned
            /\ d.cause = "mismatch" => setting.sum
        BY <1>1, <1>2, <1>4 DEF Shape
      <3>4. d.pc \notin {"write", "rename"}
        BY <3>1
      <3> HIDE DEF e, b, k
      <3> QED
        BY <1>1, <1>2, <1>4, <3>1, <3>2, <3>3, <3>4, SameWork, SameCheck
    <2> QED
      BY <2>1, <2>2
  <1>9. CASE tmp
    BY <1>1, <1>4, <1>6, <1>7, <1>8, <1>9, SavedStep
  <1>10. CASE ~tmp /\ e.after = "begin"
    BY <1>6, <1>7, <1>10, Exits DEF world
  <1>11. CASE ~tmp /\ e.after = "failed"
    <2>1. d.pc \in Owning
      BY <1>4 DEF Owning, Ranged
    <2> QED
      BY <1>2, <1>4, <1>6, <1>7, <1>8, <1>11, <2>1, GoesOnSame
  <1>12. CASE ~tmp /\ e.after = "run"
    <2>1. f.pc \in Ranged /\ f.pc \notin Saving /\ f.pc \notin {"write", "rename"}
      BY <1>5 DEF Ranged, Saving
    <2>2. f.cause # "none" /\ Works(f) /\ Works(e)
      BY <1>1, <1>5, <1>12 DEF Works
    <2>3. Lines(setting, f) /\ NoneMissed(setting, f)
      BY <1>2, <1>5, <2>2, LinesMove
    <2>4. \A c \in Conns : f.conn[c].state = "put" => f.conn[c] = e.conn[c]
      BY <1>5
    <2> QED
      BY <1>1, <1>5, <1>6, <1>7, <1>12, <2>1, <2>3, <2>4, RangedStep
  <1> QED
    BY <1>3, <1>9, <1>10, <1>11, <1>12

\* All connections have ended, so every piece is full.
LEMMA AllFull ==
    ASSUME IInv, NEW p \in Pulls, Over(p), pull[p].cause = "none"
    PROVE  \A i \in Pieces(pull[p].want) : pull[p].done[i] = PieceLen(pull[p].want, i)
  <1> DEFINE e == pull[p]
  <1>1. e.pc = "run" /\ e.pc \in Ranged /\ Works(e)
    BY DEF Over, At, Ranged, Works
  <1>2. e \in Work /\ NoneMissed(setting, e) /\ e.want \in Versions /\ setting \in Setting
    BY <1>1, SnapNow
  <1>3. \A c \in Conns : e.conn[c].state = "ended"
    BY DEF Over, Ended
  <1>4. PICK c \in setting.conns : c \in Conns
    BY <1>2 DEF Setting
  <1>5. Unfilled(e) = {}
    BY <1>1, <1>2, <1>3, <1>4 DEF NoneMissed
  <1>6. ASSUME NEW i \in Pieces(e.want)
        PROVE  Full(e, i)
    <2>1. i \in Nat /\ e.taken \in Nat
      BY <1>2, PieceFacts DEF Work
    <2>2. CASE i > e.taken
      BY <1>5, <2>2 DEF Unfilled
    <2>3. CASE i <= e.taken
      BY <1>1, <1>2, <1>3, <2>3 DEF NoneMissed, Busy
    <2> QED
      BY <2>1, <2>2, <2>3
  <1> QED
    BY <1>6 DEF Full

\* And the file whole, if what is counted is there or has been checked.
LEMMA OverWhole ==
    ASSUME IInv, NEW p \in Pulls, Over(p), pull[p].cause = "none", Sure(setting)
    PROVE  bytes[pull[p].fd] = Whole(pull[p].want)
  <1> DEFINE e == pull[p]  b == bytes[e.fd]  k == disk[e.fd]
  <1>1. e.pc = "run" /\ e.pc \in Ranged /\ e.pc \in Owning
    BY DEF Over, At, Ranged, Owning
  <1>2. e \in Work /\ Shape(setting, e) /\ Holds(setting, e, b, k) /\ e.want \in Versions
    BY SMTT(60), <1>1, SnapNow
  <1>3. b \in Seq(Byte) /\ Len(b) = SizeOf[e.want]
    BY <1>1, <1>2, OwnerNow DEF Holds
  <1>4. CASE Bare(setting)
    <2>1. Arrived(e.done, e.want, b)
      BY <1>1, <1>2, <1>4 DEF Holds, Shape
    <2>2. \A i \in Pieces(e.want) : e.done[i] = PieceLen(e.want, i)
      BY AllFull
    <2> HIDE DEF b
    <2> QED
      BY SMTT(60), <1>2, <1>3, <2>1, <2>2, AllArrived DEF b
  <1>5. CASE setting.sum
    <2>1. e.checked = SizeOf[e.want] /\ e.good
      BY SMTT(60), <1>5 DEF Over, CheckOver
    <2>2. \A n \in 1 .. SizeOf[e.want] : b[n] = e.want
      BY <1>1, <1>2, <1>5, <2>1 DEF Holds
    <2> QED
      BY <1>2, <1>3, <2>2, IsWhole
  <1> QED
    BY <1>4, <1>5 DEF Sure

LEMMA RunEndsStep ==
    ASSUME IInv, NEW p \in Pulls, RunEnds(p)
    PROVE  IInv'
  <1> DEFINE e == pull[p]  b == bytes[e.fd]  k == disk[e.fd]
             x == IF e.cause = "none" THEN "sync" ELSE IF e.cause = "noRanges" THEN "stream" ELSE "failed"
             d == [e EXCEPT !.pc = x]
             f == [e EXCEPT !.pc = "flush", !.snap = e.done, !.after = "failed"]
  <1>1. e.pc = "run" /\ e.pc \in Ranged /\ Over(p)
    BY DEF RunEnds, Over, At, Ranged
  <1>2. /\ e \in Work /\ Shape(setting, e) /\ Lines(setting, e)
        /\ Holds(setting, e, b, k) /\ e.want \in Versions
        /\ e.pc \in Owning \ {"look", "prepare"}
        /\ e.done \in [Pieces(e.want) -> Nat] /\ \A i \in Pieces(e.want) : e.done[i] <= e.done[i]
    BY <1>1, SnapNow
  <1>3. \A c \in Conns : e.conn[c].state \notin Busy
    BY <1>1 DEF Over, Ended, Busy
  <1>4. /\ d \in Work /\ d.pc = x /\ x \in {"sync", "stream", "failed"}
        /\ d.want = e.want /\ d.url = e.url /\ d.moving = e.moving
        /\ d.fd = e.fd /\ d.locked = e.locked /\ d.done = e.done /\ d.conn = e.conn
        /\ d.cause = e.cause
    <2>1. e \in Work /\ {"sync", "stream", "failed"} \subseteq PCs
      BY <1>2 DEF PCs, Owning
    <2>2. x \in {"sync", "stream", "failed"}
      OBVIOUS
    <2> HIDE DEF e, x
    <2> QED
      BY <2>1, <2>2 DEF Work
  <1>5. /\ f \in Work /\ f.pc = "flush" /\ f.want = e.want /\ f.url = e.url /\ f.moving = e.moving
        /\ f.fd = e.fd /\ f.locked = e.locked /\ f.done = e.done /\ f.snap = e.done
        /\ f.after = "failed" /\ f.taken = e.taken /\ f.conn = e.conn
        /\ f.checked = e.checked /\ f.good = e.good /\ f.cause = e.cause
    <2>1. e \in Work /\ "flush" \in PCs
      BY <1>2 DEF PCs, Owning, Ranged, Saving
    <2> HIDE DEF e
    <2> QED
      BY <2>1 DEF Work
  <1>6. UNCHANGED <<world, part, final, rec, bytes, disk>> /\ tmp' \in BOOLEAN
    BY DEF RunEnds, names, IInv, Types
  <1>7. IF e.cause = "other" THEN pull' = [pull EXCEPT ![p] = f] ELSE pull' = [pull EXCEPT ![p] = d]
    <2>1. e.cause \in {"none", "other", "noRanges", "mismatch"}
      BY <1>2 DEF Work
    <2> QED
      BY <2>1 DEF RunEnds, Goto
  <1>8. Sure(setting) /\ d.pc = "sync" => b = Whole(d.want)
    BY <1>1, <1>4, OverWhole
  <1> HIDE DEF d, f, x
  <1>9. CASE e.cause # "other"
    <2>1. Shape(setting, d) /\ Holds(setting, d, b, k)
      BY <1>1, <1>2, <1>3, <1>4, <1>8, LeavesRanged
    <2>2. d.pc \in Owning
      BY <1>4 DEF Owning
    <2>3. pull' = [pull EXCEPT ![p] = d]
      BY <1>7, <1>9
    <2> QED
      BY <1>2, <1>4, <1>6, <2>1, <2>2, <2>3, GoesOnSame
  <1>10. CASE e.cause = "other"
    <2>1. f.pc \in Ranged /\ f.pc \notin {"write", "rename"} /\ f.after # "begin"
      BY <1>5 DEF Ranged, Saving
    <2>2. Lines(setting, f) /\ NoneMissed(setting, f)
      <3>1. ~Works(f)
        BY <1>5 DEF Works
      <3>2. Lines(setting, f)
        BY <1>2, <1>3, <1>5 DEF Lines
      <3> QED
        BY <3>1, <3>2 DEF NoneMissed
    <2>3. \A c \in Conns : f.conn[c].state = "put" => f.conn[c] = e.conn[c]
      BY <1>5
    <2>4. pull' = [pull EXCEPT ![p] = f]
      BY <1>7, <1>10
    <2> QED
      BY <1>1, <1>2, <1>5, <1>6, <2>1, <2>2, <2>3, <2>4, RangedStep
  <1> QED
    BY <1>9, <1>10

\* A pull that counts on nothing leaves no record behind.
LEMMA RecordGone ==
    ASSUME IInv, NEW p \in Pulls, pull[p].pc \in Owning \ {"look", "prepare"},
           NEW d, pull' = [pull EXCEPT ![p] = d], UNCHANGED <<world, final>>,
           rec' = None \/ (UNCHANGED rec /\ pull[p].done = <<>>)
    PROVE  Recorded'
  <1> SUFFICES ASSUME Bare(setting), setting.sized, setting.etag PROVE Recorded'
    BY DEF Recorded, world
  <1>1. final = None
    BY DEF IInv, Recorded
  <1>2. rec' = None
    BY DEF IInv, Recorded
  <1> QED
    BY <1>1, <1>2 DEF Recorded

\* A pull past its pieces, or that never had any.
LEMMA PlainShape ==
    ASSUME NEW s, NEW e \in Work, NEW d \in Work, Shape(s, e), e.pc \in {"close"} \cup (Owning \ Ranged),
           d.pc \in {"empty", "streaming", "failed", "sync", "name", "close", "forget"},
           d.want = e.want, d.conn = e.conn, d.done = e.done \/ d.done = <<>>,
           \/ d.url = e.url /\ d.moving = e.moving
           \/ d.url \in Versions /\ ~d.moving /\ (Bare(s) /\ s.sized => d.url = d.want),
           d.pc \in {"empty", "streaming"} => d.done = <<>>,
           d.cause \in {e.cause, "none"} \/ s.sum
    PROVE  Shape(s, d) /\ \A c \in Conns : d.conn[c].state # "put"
  <1>1. d.pc \notin Early \cup Ranged \cup {"extend", "idle"} /\ ~Works(d) /\ ~Works(e)
        /\ e.pc # "idle"
    BY DEF Early, Ranged, Saving, Works, Owning
  <1>2. \A c \in Conns : e.conn[c].state \notin Busy
    BY <1>1 DEF Shape, Lines
  <1>3. Lines(s, d) /\ NoneMissed(s, d)
    BY <1>1, <1>2 DEF Shape, Lines, NoneMissed
  <1>4. Shape(s, d)
    BY <1>1, <1>3 DEF Shape, Ranged
  <1>5. \A c \in Conns : d.conn[c].state # "put"
    BY <1>2 DEF Busy
  <1> QED
    BY <1>4, <1>5

LEMMA StreamStep ==
    ASSUME IInv, NEW p \in Pulls, Stream(p)
    PROVE  IInv'
  <1> DEFINE e == pull[p]  b == bytes[e.fd]  k == disk[e.fd]
             d == [e EXCEPT !.pc = "empty", !.done = <<>>, !.checked = 0, !.good = TRUE, !.cause = "none"]
  <1>1. e.pc = "stream" /\ e.pc \in Owning \ {"look", "prepare"} /\ e.pc \in Owning \ Ranged
    BY DEF Stream, At, Owning, Ranged, Saving
  <1>2. e \in Work /\ Shape(setting, e) /\ Holds(setting, e, b, k) /\ b \in Seq(Byte) /\ k \in Seq(Byte)
    BY <1>1, OwnerNow
  <1>3. /\ d \in Work /\ d.pc = "empty" /\ d.want = e.want /\ d.url = e.url
        /\ d.moving = e.moving /\ d.fd = e.fd
        /\ d.locked = e.locked /\ d.done = <<>> /\ d.conn = e.conn /\ d.cause = "none"
    <2>1. e \in Work /\ "empty" \in PCs
      BY <1>2 DEF PCs, Owning
    <2> HIDE DEF e
    <2> QED
      BY <2>1 DEF Work
  <1>4. pull' = [pull EXCEPT ![p] = d]
    BY DEF Stream
  <1>5. UNCHANGED <<world, part, final>> /\ tmp' \in BOOLEAN /\ rec' = None
        /\ bytes' = [bytes EXCEPT ![e.fd] = b] /\ disk' = [disk EXCEPT ![e.fd] = k]
    BY DEF Stream, Forget, IInv, Types
  <1> HIDE DEF d
  <1>6. Shape(setting, d) /\ \A c \in Conns : d.conn[c].state # "put"
    BY <1>1, <1>2, <1>3, PlainShape
  <1>7. Holds(setting, d, b, k)
    BY <1>3, <1>6 DEF Holds, Ranged, Saving
  <1>8. Recorded'
    BY <1>1, <1>4, <1>5, RecordGone
  <1>9. d.pc \in Owning
    BY <1>3 DEF Owning
  <1> HIDE DEF b, k
  <1> QED
    BY <1>1, <1>2, <1>3, <1>4, <1>5, <1>6, <1>7, <1>8, <1>9, GoesOnAs

LEMMA EmptyStep ==
    ASSUME IInv, NEW p \in Pulls, Empty(p)
    PROVE  IInv'
  <1> DEFINE e == pull[p]  b == <<>>  k == disk[e.fd]
             d == [e EXCEPT !.pc = "streaming", !.url = Served(e), !.moving = FALSE]
  <1>1. e.pc = "empty" /\ e.pc \in Owning \ {"look", "prepare"} /\ e.pc \in Owning \ Ranged
    BY DEF Empty, At, Owning, Ranged, Saving
  <1>2. /\ e \in Work /\ Shape(setting, e) /\ k \in Seq(Byte) /\ Served(e) \in Versions
        /\ Bare(setting) /\ setting.sized => Served(e) = e.want
    BY <1>1, OwnerNow, ServedNow DEF Owning
  <1>3. /\ d \in Work /\ d.pc = "streaming" /\ d.want = e.want /\ d.url = Served(e) /\ ~d.moving
        /\ d.fd = e.fd
        /\ d.locked = e.locked /\ d.done = e.done /\ d.conn = e.conn /\ d.cause = e.cause
    <2>1. e \in Work /\ "streaming" \in PCs /\ Served(e) \in Versions
      BY <1>2 DEF PCs, Owning
    <2> HIDE DEF e
    <2> QED
      BY <2>1 DEF Work
  <1>4. pull' = [pull EXCEPT ![p] = d]
    BY DEF Empty, Goto
  <1>5. UNCHANGED <<world, part, final, rec>> /\ tmp' \in BOOLEAN
        /\ bytes' = [bytes EXCEPT ![e.fd] = b] /\ disk' = [disk EXCEPT ![e.fd] = k]
    BY DEF Empty, names, IInv, Types
  <1> HIDE DEF d
  <1>6. e.done = <<>>
    BY <1>1, <1>2 DEF Shape
  <1>7. Shape(setting, d) /\ \A c \in Conns : d.conn[c].state # "put"
    BY <1>1, <1>2, <1>3, <1>6, PlainShape
  <1>8. b \in Seq(Byte) /\ Len(b) = 0 /\ SizeOf[d.url] \in Nat
    BY <1>2, <1>3, SizeType
  <1>9. Holds(setting, d, b, k)
    BY <1>3, <1>6, <1>7, <1>8 DEF Holds, Ranged, Saving
  <1>10. Recorded'
    BY <1>1, <1>4, <1>5, <1>6, RecordGone
  <1>11. d.pc \in Owning
    BY <1>3 DEF Owning
  <1>12. rec' = None \/ \E v \in Versions :
                            rec'.size = SizeOf[v] /\ rec'.etag = Etag(v) /\ Within(rec'.done, v)
    BY <1>5 DEF IInv, Types
  <1> HIDE DEF b, k
  <1> QED
    BY <1>1, <1>2, <1>3, <1>4, <1>5, <1>7, <1>8, <1>9, <1>10, <1>11, <1>12, GoesOnAs

LEMMA StreamsStep ==
    ASSUME IInv, NEW p \in Pulls, Streams(p)
    PROVE  IInv'
  <1> DEFINE e == pull[p]  b == Append(bytes[e.fd], e.url)  k == disk[e.fd]
             d == [e EXCEPT !.good = @ /\ e.url = e.want]
  <1>1. e.pc = "streaming" /\ e.pc \in Owning \ {"look", "prepare"} /\ e.pc \in Owning \ Ranged
        /\ Len(bytes[e.fd]) < SizeOf[e.url]
    BY DEF Streams, At, Owning, Ranged, Saving
  <1>2. e \in Work /\ Shape(setting, e) /\ k \in Seq(Byte) /\ e.url \in Versions /\ bytes[e.fd] \in Seq(Byte)
        /\ Holds(setting, e, bytes[e.fd], k)
    BY <1>1, OwnerNow
  <1>3. /\ d \in Work /\ d.pc = "streaming" /\ d.want = e.want /\ d.url = e.url
        /\ d.moving = e.moving /\ d.fd = e.fd
        /\ d.locked = e.locked /\ d.done = e.done /\ d.conn = e.conn /\ d.cause = e.cause
    <2>1. e \in Work /\ e.pc = "streaming"
      BY <1>1, <1>2
    <2> HIDE DEF e
    <2>2. d \in Work
      BY ZenonT(30), <2>1 DEF Work
    <2> QED
      BY <2>1, <2>2 DEF Work
  <1>4. pull' = [pull EXCEPT ![p] = d]
    BY DEF Streams
  <1>5. UNCHANGED <<world, part, final, rec>> /\ tmp' \in BOOLEAN
        /\ bytes' = [bytes EXCEPT ![e.fd] = b] /\ disk' = [disk EXCEPT ![e.fd] = k]
    BY DEF Streams, names, IInv, Types
  <1> HIDE DEF d
  <1>6. e.done = <<>>
    BY <1>1, <1>2 DEF Shape
  <1>7. Shape(setting, d) /\ \A c \in Conns : d.conn[c].state # "put"
    BY <1>1, <1>2, <1>3, <1>6, PlainShape
  <1>8. b \in Seq(Byte) /\ Len(b) <= SizeOf[e.url] /\ \A n \in 1 .. Len(b) : b[n] = e.url
    <2> DEFINE o == bytes[e.fd]  L == Len(o)  x == e.url
    <2>1. o \in Seq(Byte) /\ x \in Byte /\ L < SizeOf[x] /\ SizeOf[x] \in Nat
      BY <1>1, <1>2, SizeType DEF Byte
    <2>2. \A n \in 1 .. L : o[n] = x
      BY <1>1, <1>2 DEF Holds
    <2>3. L \in Nat /\ Append(o, x) \in Seq(Byte) /\ Len(Append(o, x)) = L + 1
          /\ Append(o, x)[L + 1] = x /\ \A n \in 1 .. L : Append(o, x)[n] = o[n]
      BY <2>1, AppendProperties, LenProperties
    <2> HIDE DEF o, L, x
    <2>4. \A n \in 1 .. Len(Append(o, x)) : n \in 1 .. L \/ n = L + 1
      BY <2>3
    <2>5. Len(Append(o, x)) <= SizeOf[x]
      BY <2>1, <2>3
    <2>6. \A n \in 1 .. Len(Append(o, x)) : Append(o, x)[n] = x
      BY <2>2, <2>3, <2>4
    <2> QED
      BY <2>3, <2>5, <2>6 DEF o, x
  <1>9. Holds(setting, d, b, k)
    BY <1>3, <1>6, <1>7, <1>8 DEF Holds, Ranged, Saving
  <1>10. Recorded'
    BY <1>1, <1>4, <1>5, <1>6, RecordGone
  <1>11. d.pc \in Owning
    BY <1>3 DEF Owning
  <1>12. rec' = None \/ \E v \in Versions :
                            rec'.size = SizeOf[v] /\ rec'.etag = Etag(v) /\ Within(rec'.done, v)
    BY <1>5 DEF IInv, Types
  <1> HIDE DEF b, k
  <1> QED
    BY <1>1, <1>2, <1>3, <1>4, <1>5, <1>7, <1>8, <1>9, <1>10, <1>11, <1>12, GoesOnAs

LEMMA StreamOverStep ==
    ASSUME IInv, NEW p \in Pulls, StreamEnds(p) \/ StreamFails(p)
    PROVE  IInv'
  <1> DEFINE e == pull[p]  b == bytes[e.fd]  k == disk[e.fd]
             f == [e EXCEPT !.pc = "failed"]  g == [e EXCEPT !.pc = "failed", !.cause = "mismatch"]
             d == [e EXCEPT !.pc = "sync"]
  <1>1. e.pc = "streaming" /\ e.pc \in Owning \ {"look", "prepare"} /\ e.pc \in Owning \ Ranged
    BY DEF StreamEnds, StreamFails, At, Owning, Ranged, Saving
  <1>2. e \in Work /\ Shape(setting, e) /\ b \in Seq(Byte) /\ k \in Seq(Byte) /\ e.url \in Versions
        /\ Holds(setting, e, b, k)
    BY <1>1, OwnerNow
  <1>3. /\ d \in Work /\ d.pc = "sync" /\ d.want = e.want /\ d.url = e.url
        /\ d.moving = e.moving /\ d.fd = e.fd
        /\ d.locked = e.locked /\ d.done = e.done /\ d.conn = e.conn /\ d.cause = e.cause
        /\ f \in Work /\ f.pc = "failed" /\ f.want = e.want /\ f.url = e.url
        /\ f.moving = e.moving /\ f.fd = e.fd
        /\ f.locked = e.locked /\ f.done = e.done /\ f.conn = e.conn /\ f.cause = e.cause
        /\ g \in Work /\ g.pc = "failed" /\ g.want = e.want /\ g.url = e.url
        /\ g.moving = e.moving /\ g.fd = e.fd
        /\ g.locked = e.locked /\ g.done = e.done /\ g.conn = e.conn
    <2>1. e \in Work /\ "sync" \in PCs /\ "failed" \in PCs
      BY <1>2 DEF PCs, Owning
    <2> HIDE DEF e
    <2>2. d \in Work
      BY <2>1 DEF Work
    <2>3. f \in Work
      BY <2>1 DEF Work
    <2>4. g \in Work
      BY <2>1 DEF Work
    <2>5. /\ d.pc = "sync" /\ d.want = e.want /\ d.url = e.url /\ d.moving = e.moving /\ d.fd = e.fd
          /\ d.locked = e.locked /\ d.done = e.done /\ d.conn = e.conn /\ d.cause = e.cause
      BY <2>1 DEF Work
    <2>6. /\ f.pc = "failed" /\ f.want = e.want /\ f.url = e.url
          /\ f.moving = e.moving /\ f.fd = e.fd
          /\ f.locked = e.locked /\ f.done = e.done /\ f.conn = e.conn /\ f.cause = e.cause
      BY <2>1 DEF Work
    <2>7. /\ g.pc = "failed" /\ g.want = e.want /\ g.url = e.url
          /\ g.moving = e.moving /\ g.fd = e.fd
          /\ g.locked = e.locked /\ g.done = e.done /\ g.conn = e.conn
      BY <2>1 DEF Work
    <2> QED
      BY <2>2, <2>3, <2>4, <2>5, <2>6, <2>7
  <1>4. \/ pull' = [pull EXCEPT ![p] = f]
        \/ pull' = [pull EXCEPT ![p] = g] /\ setting.sum
        \/ pull' = [pull EXCEPT ![p] = d] /\ Len(b) = SizeOf[e.url]
    BY DEF StreamEnds, StreamFails, Goto
  <1>5. UNCHANGED <<world, part, final, rec, bytes, disk>> /\ tmp' \in BOOLEAN
    BY DEF StreamEnds, StreamFails, names, IInv, Types
  <1> HIDE DEF d, f, g
  <1>6. e.done = <<>>
    BY <1>1, <1>2 DEF Shape
  <1>7. ASSUME NEW x \in {f, g}, x = f \/ setting.sum
        PROVE  Shape(setting, x) /\ Holds(setting, x, b, k)
    <2>1. /\ x \in Work /\ x.pc = "failed" /\ x.want = e.want /\ x.url = e.url
          /\ x.moving = e.moving
          /\ x.conn = e.conn /\ x.done = e.done /\ (x.cause = e.cause \/ setting.sum)
      BY <1>3, <1>7
    <2>2. Shape(setting, x) /\ \A c \in Conns : x.conn[c].state # "put"
      BY <1>1, <1>2, <2>1, PlainShape
    <2> QED
      BY <1>6, <2>1, <2>2 DEF Holds, Ranged, Saving
  <1>8. ASSUME Len(b) = SizeOf[e.url]
        PROVE  Shape(setting, d) /\ Holds(setting, d, b, k)
    <2>1. Shape(setting, d) /\ \A c \in Conns : d.conn[c].state # "put"
      BY <1>1, <1>2, <1>3, <1>6, PlainShape
    <2>2. b = Whole(e.url)
      BY <1>1, <1>2, <1>8, IsWhole DEF Holds
    <2> QED
      BY <1>3, <1>6, <2>1, <2>2 DEF Holds, Ranged, Saving
  <1>9. {d.pc, f.pc, g.pc} \subseteq Owning
    BY <1>3 DEF Owning
  <1>10. CASE pull' = [pull EXCEPT ![p] = f]
    BY <1>1, <1>3, <1>5, <1>7, <1>9, <1>10, GoesOnSame
  <1>11. CASE pull' = [pull EXCEPT ![p] = g] /\ setting.sum
    BY <1>1, <1>3, <1>5, <1>7, <1>9, <1>11, GoesOnSame
  <1>12. CASE pull' = [pull EXCEPT ![p] = d] /\ Len(b) = SizeOf[e.url]
    BY <1>1, <1>3, <1>5, <1>8, <1>9, <1>12, GoesOnSame
  <1> QED
    BY <1>4, <1>10, <1>11, <1>12

LEMMA SyncStep ==
    ASSUME IInv, NEW p \in Pulls, Sync(p)
    PROVE  IInv'
  <1> DEFINE e == pull[p]  b == bytes[e.fd]  k == bytes[e.fd]  d == [e EXCEPT !.pc = "name"]
  <1>1. e.pc = "sync" /\ e.pc \in Owning \ {"look", "prepare"} /\ e.pc \in Owning \ Ranged
    BY DEF Sync, At, Owning, Ranged, Saving
  <1>2. e \in Work /\ Shape(setting, e) /\ b \in Seq(Byte) /\ Holds(setting, e, b, disk[e.fd])
        /\ e.want \in Versions
    BY <1>1, OwnerNow
  <1>3. /\ d \in Work /\ d.pc = "name" /\ d.want = e.want /\ d.url = e.url
        /\ d.moving = e.moving /\ d.fd = e.fd
        /\ d.locked = e.locked /\ d.done = e.done /\ d.conn = e.conn /\ d.cause = e.cause
    <2>1. e \in Work /\ "name" \in PCs
      BY <1>2 DEF PCs, Owning
    <2> HIDE DEF e
    <2> QED
      BY <2>1 DEF Work
  <1>4. pull' = [pull EXCEPT ![p] = d]
    BY DEF Sync, Goto
  <1>5. UNCHANGED <<world, part, final, rec>> /\ tmp' \in BOOLEAN
        /\ bytes' = [bytes EXCEPT ![e.fd] = b] /\ disk' = [disk EXCEPT ![e.fd] = k]
    BY DEF Sync, names, IInv, Types
  <1> HIDE DEF d
  <1>6. Shape(setting, d) /\ \A c \in Conns : d.conn[c].state # "put"
    BY SMTT(60), <1>1, <1>2, <1>3, PlainShape
  <1>7. Holds(setting, d, b, k)
    BY <1>1, <1>2, <1>3, <1>6 DEF Holds, Ranged, Saving
  <1>8. d.pc \in Owning
    BY <1>3 DEF Owning
  <1>9. e.done # <<>> => d.done # <<>> /\ \A i \in Pieces(d.want) : e.done[i] <= d.done[i]
    BY <1>2, <1>3 DEF Shape, Within
  <1>10. part = e.fd /\ part \in Files
    BY <1>1, OwnFile DEF IInv
  <1>11. bytes'[part] = bytes[part] /\ disk'[part] = bytes[part]
    BY <1>5, <1>10 DEF IInv, Types
  <1>12. Recorded'
    BY <1>1, <1>3, <1>4, <1>5, <1>6, <1>8, <1>9, <1>11, RecordStays
  <1>13. rec' = None \/ \E v \in Versions :
                            rec'.size = SizeOf[v] /\ rec'.etag = Etag(v) /\ Within(rec'.done, v)
    BY <1>5 DEF IInv, Types
  <1> QED
    BY <1>1, <1>2, <1>3, <1>4, <1>5, <1>6, <1>7, <1>8, <1>12, <1>13, GoesOnAs

LEMMA ExtendStep ==
    ASSUME IInv, NEW p \in Pulls, Extend(p)
    PROVE  IInv'
  <1> DEFINE e == pull[p]  b == Blank(SizeOf[e.want])  k == disk[e.fd]
             d == [e EXCEPT !.pc = "flush", !.snap = e.done, !.after = "begin"]
  <1>1. e.pc = "extend" /\ e.pc \in Owning \ {"look", "prepare"}
    BY DEF Extend, At, Owning, Ranged, Saving
  <1>2. e \in Work /\ Shape(setting, e) /\ k \in Seq(Byte) /\ e.want \in Versions
        /\ setting \in Setting
    BY <1>1, OwnerNow
  <1>3. /\ d \in Work /\ d.pc = "flush" /\ d.want = e.want /\ d.url = e.url
        /\ d.moving = e.moving /\ d.fd = e.fd
        /\ d.locked = e.locked /\ d.done = e.done /\ d.snap = e.done /\ d.after = "begin"
        /\ d.taken = e.taken /\ d.conn = e.conn /\ d.checked = e.checked /\ d.good = e.good
        /\ d.cause = e.cause
    <2>1. e \in Work /\ "flush" \in PCs
      BY <1>2 DEF PCs, Owning, Ranged, Saving
    <2> HIDE DEF e
    <2> QED
      BY <2>1 DEF Work
  <1>4. pull' = [pull EXCEPT ![p] = d]
    BY DEF Extend
  <1>5. UNCHANGED <<world, part, final, rec>> /\ tmp' \in BOOLEAN
        /\ bytes' = [bytes EXCEPT ![e.fd] = b] /\ disk' = [disk EXCEPT ![e.fd] = k]
    BY DEF Extend, names, IInv, Types
  <1>6. b \in Seq(Byte) /\ Len(b) = SizeOf[e.want] /\ SizeOf[e.want] \in Nat
    BY <1>2, WholeFile, SizeType
  <1>7. d.pc \in Owning \ {"look", "prepare"} /\ d.pc \in Ranged /\ d.pc \in Saving
    BY <1>3 DEF Owning, Ranged, Saving
  <1>8. part = e.fd /\ part \in Files
    BY <1>1, OwnFile DEF IInv
  <1> HIDE DEF d, b, k
  <1>9. e.done = Nothing(e.want) /\ Fresh(setting, d) /\ setting.sized /\ e.done # <<>>
    BY <1>1, <1>2, <1>3 DEF Shape, Fresh
  <1>10. /\ e.done \in [Pieces(e.want) -> Nat] /\ \A i \in Pieces(e.want) : e.done[i] = 0
    BY <1>9 DEF Nothing
  <1>11. \A i \in Pieces(e.want) : e.done[i] <= e.done[i]
    BY <1>10
  <1>12. Lines(setting, d) /\ NoneMissed(setting, d)
    BY <1>2, <1>3, <1>9, LinesBegin
  <1>13. Shape(setting, d)
    BY <1>1, <1>2, <1>3, <1>7, <1>9, <1>10, <1>11, <1>12 DEF Shape, Early, Saving
  <1>14. Holds(setting, d, b, k)
    <2>1. Arrived(d.done, d.want, b)
      BY <1>3, <1>10 DEF Arrived
    <2>2. \A c \in Conns : d.conn[c].state # "put"
      BY <1>9 DEF Fresh, Free, Ended
    <2>3. d.checked = 0
      BY <1>9 DEF Fresh
    <2> QED
      BY <1>3, <1>6, <2>1, <2>2, <2>3 DEF Holds
  <1>15. Recorded'
    <2> SUFFICES ASSUME Bare(setting), setting.sized, setting.etag PROVE Recorded'
      BY <1>5 DEF Recorded, world
    <2>1. final = None
      BY <1>1 DEF IInv, Recorded
    <2>2. e.want = main
      BY <1>1 DEF IInv, Still
    <2>3. rec # None => /\ rec.size = SizeOf[main] /\ rec.etag = main /\ Within(rec.done, main)
                        /\ \A i \in Pieces(main) : rec.done[i] <= e.done[i]
      BY <1>1 DEF IInv, Recorded
    <2>4. rec # None => \A i \in Pieces(main) : rec.done[i] = 0
      BY <1>10, <2>2, <2>3 DEF Within
    <2>5. \A q \in Pulls : pull'[q].pc \in Owning => q = p /\ pull'[q] = d
      <3>1. pull'[p] = d /\ \A q \in Pulls \ {p} : pull'[q] = pull[q]
        BY <1>3, <1>4, Moved DEF IInv
      <3> QED
        BY <1>1, <3>1, OneOwner DEF IInv
    <2>6. UNCHANGED <<setting, main, final, rec>>
      BY <1>5 DEF world
    <2> HIDE DEF e
    <2> QED
      BY <1>3, <1>9, <2>1, <2>3, <2>4, <2>5, <2>6 DEF Recorded
  <1>16. rec' = None \/ \E v \in Versions :
                            rec'.size = SizeOf[v] /\ rec'.etag = Etag(v) /\ Within(rec'.done, v)
    BY <1>5 DEF IInv, Types
  <1> QED
    BY <1>1, <1>2, <1>3, <1>4, <1>5, <1>6, <1>7, <1>13, <1>14, <1>15, <1>16, GoesOnAs

\* Where the record counts, nothing under the name belongs to another pull.
LEMMA EarlierHolds ==
    ASSUME IInv, NEW p \in Pulls, pull[p].pc = "prepare", setting.sized, Earlier(p)
    PROVE  /\ Within(rec.done, pull[p].want)
           /\ Bare(setting) => Arrived(rec.done, pull[p].want, bytes[pull[p].fd])
  <1> DEFINE e == pull[p]
  <1>1. e.pc \in Owning
    BY DEF Owning
  <1>2. e.want \in Versions
    BY <1>1, OwnerNow
  <1>3. rec # None /\ setting.etag /\ rec.etag = e.want
    BY DEF Earlier, Etag
  <1>4. Within(rec.done, e.want)
    BY <1>3 DEF IInv, Types, Etag
  <1>5. ASSUME Bare(setting)
        PROVE  Arrived(rec.done, e.want, bytes[e.fd])
    <2>1. e.want = main
      BY <1>3, <1>5 DEF IInv, Still
    <2>2. final = None
      BY <1>1, <1>3, <1>5 DEF IInv, Recorded
    <2>3. part = e.fd
      BY <1>1, OwnFile DEF IInv
    <2>4. \/ \A i \in Pieces(main) : rec.done[i] = 0
          \/ Arrived(rec.done, main, bytes[part])
      BY <1>3, <1>5, <2>2 DEF IInv, Recorded
    <2> QED
      BY <2>1, <2>3, <2>4 DEF Arrived
  <1> QED
    BY <1>4, <1>5

LEMMA PrepareStep ==
    ASSUME IInv, NEW p \in Pulls, Prepare(p)
    PROVE  IInv'
  <1> DEFINE e == pull[p]  b == bytes[e.fd]  k == disk[e.fd]
             f == [e EXCEPT !.pc = "stream"]
             g == [e EXCEPT !.pc = "run", !.done = rec.done]
             h == [e EXCEPT !.pc = "extend", !.done = Nothing(e.want)]
  <1>1. e.pc = "prepare" /\ e.pc \in Owning /\ e.pc \in Early
    BY DEF Prepare, At, Owning, Early
  <1>2. e \in Work /\ Shape(setting, e) /\ b \in Seq(Byte) /\ k \in Seq(Byte) /\ e.want \in Versions
        /\ setting \in Setting
    BY <1>1, OwnerNow
  <1>3. e.done = <<>> /\ Fresh(setting, e) /\ e.url \in Versions
        /\ (Bare(setting) /\ setting.sized => e.url = e.want) /\ (e.moving => ~setting.pinned)
    BY <1>1, <1>2 DEF Shape, Early
  <1>4. UNCHANGED <<world, part, final, rec>> /\ tmp' \in BOOLEAN
        /\ disk' = [disk EXCEPT ![e.fd] = k]
    BY DEF Prepare, names, IInv, Types
  <1>5. \/ /\ ~setting.sized
           /\ pull' = [pull EXCEPT ![p] = f] /\ bytes' = [bytes EXCEPT ![e.fd] = b]
        \/ /\ setting.sized /\ Earlier(p)
           /\ pull' = [pull EXCEPT ![p] = g] /\ bytes' = [bytes EXCEPT ![e.fd] = b]
        \/ /\ setting.sized /\ ~Earlier(p)
           /\ pull' = [pull EXCEPT ![p] = h] /\ bytes' = [bytes EXCEPT ![e.fd] = <<>>]
    <2>1. UNCHANGED bytes => bytes' = [bytes EXCEPT ![e.fd] = b]
      BY DEF IInv, Types
    <2> QED
      BY <2>1 DEF Prepare, Goto
  <1>6. rec' = None \/ \E v \in Versions :
                            rec'.size = SizeOf[v] /\ rec'.etag = Etag(v) /\ Within(rec'.done, v)
    BY <1>4 DEF IInv, Types
  <1>7. UNCHANGED <<setting, main, final, rec>>
    BY <1>4 DEF world
  <1>8. ASSUME NEW d \in Work, pull' = [pull EXCEPT ![p] = d]
        PROVE  \A q \in Pulls : pull'[q].pc \in Owning => q = p /\ pull'[q] = d
    <2>1. pull'[p] = d /\ \A q \in Pulls \ {p} : pull'[q] = pull[q]
      BY <1>8, Moved DEF IInv
    <2> QED
      BY <1>1, <2>1, OneOwner DEF IInv
  <1>9. part = e.fd /\ part \in Files
    BY <1>1, OwnFile DEF IInv
  <1>10. \A c \in Conns : e.conn[c].state # "put"
    BY <1>3 DEF Fresh, Free, Ended
  <1> HIDE DEF f, g, h, b, k
  <1>11. CASE ~setting.sized /\ pull' = [pull EXCEPT ![p] = f] /\ bytes' = [bytes EXCEPT ![e.fd] = b]
    <2>1. /\ f \in Work /\ f.pc = "stream" /\ f.want = e.want /\ f.url = e.url
          /\ f.moving = e.moving /\ f.fd = e.fd
          /\ f.locked = e.locked /\ f.done = <<>> /\ f.conn = e.conn /\ f.cause = e.cause
          /\ f.taken = e.taken /\ f.checked = e.checked
      <3>1. e \in Work /\ "stream" \in PCs
        BY <1>2 DEF PCs, Owning
      <3> HIDE DEF e
      <3> QED
        BY <1>3, <3>1 DEF Work, f
    <2>2. Fresh(setting, f)
      BY <1>3, <2>1 DEF Fresh
    <2>3. Lines(setting, f) /\ NoneMissed(setting, f)
      BY <1>2, <2>1, <2>2, LinesBegin
    <2>4. Shape(setting, f)
      BY <1>2, <1>3, <2>1, <2>2, <2>3 DEF Shape, Early, Ranged, Saving, Fresh
    <2>5. Holds(setting, f, b, k)
      BY <1>10, <2>1 DEF Holds, Ranged, Saving
    <2>6. Recorded'
      BY <1>7, <1>11 DEF Recorded
    <2>7. f.pc \in Owning
      BY <2>1 DEF Owning
    <2> QED
      BY <1>1, <1>2, <1>4, <1>6, <1>11, <2>1, <2>4, <2>5, <2>6, <2>7, GoesOnAs
  <1>12. CASE /\ setting.sized /\ Earlier(p)
              /\ pull' = [pull EXCEPT ![p] = g] /\ bytes' = [bytes EXCEPT ![e.fd] = b]
    <2>1. Within(rec.done, e.want) /\ (Bare(setting) => Arrived(rec.done, e.want, b))
      BY <1>1, <1>12, EarlierHolds DEF b
    <2>2. rec.done \in [Pieces(e.want) -> Nat]
      BY <2>1 DEF Within
    <2>3. /\ g \in Work /\ g.pc = "run" /\ g.want = e.want /\ g.url = e.url
          /\ g.moving = e.moving /\ g.fd = e.fd
          /\ g.locked = e.locked /\ g.done = rec.done /\ g.conn = e.conn /\ g.cause = e.cause
          /\ g.taken = e.taken /\ g.checked = e.checked
      <3>1. e \in Work /\ "run" \in PCs
        BY <1>2 DEF PCs, Owning, Ranged
      <3>2. rec.done \in UNION {[Pieces(v) -> Nat] : v \in Versions}
        BY <1>2, <2>2
      <3> HIDE DEF e
      <3> QED
        BY <3>1, <3>2 DEF Work, g
    <2>4. Fresh(setting, g)
      BY <1>3, <2>3 DEF Fresh
    <2>5. Lines(setting, g) /\ NoneMissed(setting, g)
      BY <1>2, <2>3, <2>4, LinesBegin
    <2>6. g.done # <<>>
      <3>1. 1 \in Pieces(e.want)
        BY <1>2, FirstPiece
      <3>2. DOMAIN g.done # {} /\ DOMAIN <<>> = {}
        BY <2>2, <2>3, <3>1
      <3> QED
        BY <3>2
    <2>7. Shape(setting, g)
      BY <1>2, <1>3, <1>12, <2>1, <2>3, <2>4, <2>5, <2>6 DEF Shape, Early, Ranged, Saving, Fresh
    <2>8. Len(b) = SizeOf[e.want] /\ SizeOf[e.want] \in Nat
      BY <1>2, <1>12, SizeType DEF Earlier, b
    <2>9. Holds(setting, g, b, k)
      <3>1. g.checked = 0
        BY <2>4 DEF Fresh
      <3> QED
        BY <1>10, <2>1, <2>3, <2>8, <3>1 DEF Holds
    <2>10. Recorded'
      <3> SUFFICES ASSUME Bare(setting), setting.sized, setting.etag PROVE Recorded'
        BY <1>7 DEF Recorded
      <3>1. e.want = main
        BY <1>1 DEF IInv, Still
      <3>2. \A q \in Pulls : pull'[q].pc \in Owning => q = p /\ pull'[q] = g
        BY <1>8, <1>12, <2>3
      <3>3. bytes'[part] = bytes[part] /\ disk'[part] = disk[part] /\ UNCHANGED part
        BY <1>4, <1>9, <1>12 DEF IInv, Types, b, k
      <3>4. final = None
        BY <1>1 DEF IInv, Recorded
      <3>5. \A i \in Pieces(main) : rec.done[i] <= rec.done[i]
        BY <2>1, <3>1 DEF Within
      <3>6. rec # None =>
               /\ rec.size = SizeOf[main] /\ rec.etag = main /\ Within(rec.done, main)
               /\ \/ \A i \in Pieces(main) : rec.done[i] = 0
                  \/ /\ part # None /\ Len(bytes[part]) = SizeOf[main]
                     /\ Arrived(rec.done, main, bytes[part])
                     /\ Arrived(rec.done, main, disk[part])
        BY <3>4 DEF IInv, Recorded
      <3> HIDE DEF e
      <3> QED
        BY <1>7, <2>3, <2>6, <3>2, <3>3, <3>4, <3>5, <3>6 DEF Recorded
    <2>11. g.pc \in Owning
      BY <2>3 DEF Owning, Ranged
    <2> QED
      BY <1>1, <1>2, <1>4, <1>6, <1>12, <2>3, <2>7, <2>9, <2>10, <2>11, GoesOnAs
  <1>13. CASE /\ setting.sized /\ ~Earlier(p)
              /\ pull' = [pull EXCEPT ![p] = h] /\ bytes' = [bytes EXCEPT ![e.fd] = <<>>]
    <2>1. /\ h \in Work /\ h.pc = "extend" /\ h.want = e.want /\ h.url = e.url /\ h.moving = e.moving /\ h.fd = e.fd
          /\ h.locked = e.locked /\ h.done = Nothing(e.want) /\ h.conn = e.conn
          /\ h.cause = e.cause /\ h.taken = e.taken /\ h.checked = e.checked
      <3>1. e \in Work /\ "extend" \in PCs
        BY <1>2 DEF PCs, Owning
      <3>2. Nothing(e.want) \in UNION {[Pieces(v) -> Nat] : v \in Versions}
        BY <1>2 DEF Nothing
      <3> HIDE DEF e
      <3> QED
        BY <3>1, <3>2 DEF Work, h
    <2>2. Fresh(setting, h)
      BY <1>3, <2>1 DEF Fresh
    <2>3. Lines(setting, h) /\ NoneMissed(setting, h)
      BY <1>2, <2>1, <2>2, LinesBegin
    <2>4. Within(h.done, e.want) /\ h.done # <<>> /\ \A i \in Pieces(e.want) : h.done[i] = 0
      <3>1. 1 \in Pieces(e.want)
        BY <1>2, FirstPiece
      <3>2. DOMAIN h.done # {} /\ DOMAIN <<>> = {}
        BY <2>1, <3>1 DEF Nothing
      <3>3. \A i \in Pieces(e.want) : PieceLen(e.want, i) \in Nat
        BY <1>2, PieceFacts
      <3>4. Within(h.done, e.want) /\ \A i \in Pieces(e.want) : h.done[i] = 0
        BY <2>1, <3>3 DEF Within, Nothing
      <3> QED
        BY <3>2, <3>4
    <2>5. Shape(setting, h)
      BY <1>2, <1>3, <1>13, <2>1, <2>2, <2>3, <2>4 DEF Shape, Early, Ranged, Saving, Fresh
    <2>6. Holds(setting, h, <<>>, k)
      BY <1>10, <2>1 DEF Holds, Ranged, Saving
    <2>7. Recorded'
      <3> SUFFICES ASSUME Bare(setting), setting.sized, setting.etag PROVE Recorded'
        BY <1>7 DEF Recorded
      <3>1. e.want = main
        BY <1>1 DEF IInv, Still
      <3>2. \A q \in Pulls : pull'[q].pc \in Owning => q = p /\ pull'[q] = h
        BY <1>8, <1>13, <2>1
      <3>3. final = None
        BY <1>1 DEF IInv, Recorded
      <3>4. rec # None =>
               /\ rec.size = SizeOf[main] /\ rec.etag = main /\ Within(rec.done, main)
               /\ \/ \A i \in Pieces(main) : rec.done[i] = 0
                  \/ Len(bytes[part]) = SizeOf[main]
        BY <3>3 DEF IInv, Recorded
      <3>5. rec # None => \A i \in Pieces(main) : rec.done[i] = 0
        BY <1>9, <1>13, <3>1, <3>4 DEF Earlier, Etag
      <3>6. rec # None => \A i \in Pieces(main) : rec.done[i] <= h.done[i]
        BY <2>4, <3>1, <3>5
      <3> HIDE DEF e
      <3> QED
        BY <1>7, <2>4, <3>2, <3>3, <3>4, <3>5, <3>6 DEF Recorded
    <2>8. h.pc \in Owning /\ <<>> \in Seq(Byte)
      BY <2>1 DEF Owning
    <2> QED
      BY <1>1, <1>2, <1>4, <1>6, <1>13, <2>1, <2>5, <2>6, <2>7, <2>8, GoesOnAs
  <1> QED
    BY <1>5, <1>11, <1>12, <1>13

----------------------------------------------------------------------------
(* Steps that give name.part up.                                           *)

LEMMA GivesPart ==
    ASSUME IInv, NEW p \in Pulls, pull[p].pc \in Owning,
           NEW d \in Work, pull' = [pull EXCEPT ![p] = d], d.pc \in {"close", "forget"},
           d.fd = pull[p].fd, d.locked = pull[p].locked, d.want = pull[p].want,
           part' = None, final' = final \/ final' = part,
           UNCHANGED <<world, rec, tmp, bytes, disk>>, Shape(setting, d)
    PROVE  Types' /\ Locks' /\ Pulling' /\ Still' /\ \A q \in Pulls : pull'[q].pc \notin Owning
  <1> USE DEF IInv
  <1>1. pull'[p] = d /\ (\A q \in Pulls \ {p} : pull'[q] = pull[q]) /\ pull' \in [Pulls -> Work]
    BY Moved
  <1>2. UNCHANGED <<setting, main, left>>
    BY DEF world
  <1>3. d.pc \notin Owning /\ d.pc \notin {"idle", "open", "lock", "confirm"}
        /\ pull[p].pc \notin {"idle", "open", "lock"}
    BY DEF Owning, Ranged, Saving
  <1>4. \A q \in Pulls : pull'[q].pc \notin Owning
    BY <1>1, <1>3, OneOwner
  <1>5. Types'
    <2>1. rec' = None \/ \E v \in Versions :
                            rec'.size = SizeOf[v] /\ rec'.etag = Etag(v)' /\ Within(rec'.done, v)
      BY <1>2 DEF Types, Etag
    <2> QED
      BY <1>1, <1>2, <2>1 DEF Types, Within
  <1>6. pull[p].locked /\ part = pull[p].fd /\ part \in Files
    BY OwnFile
  <1>7. Locks'
    <2>1. \A q \in Pulls : pull'[q].locked = pull[q].locked /\ pull'[q].fd = pull[q].fd
      BY <1>1
    <2>2. ASSUME NEW q \in Pulls
          PROVE  LET x == pull'[q] IN
                 /\ x.pc \in {"idle", "open", "lock"} => ~x.locked
                 /\ x.pc \in {"idle", "open"} => x.fd = None
                 /\ x.pc = "lock" \/ x.locked => x.fd # None
                 /\ x.pc \in Owning \cup {"confirm", "close"} => x.locked
                 /\ x.pc \in Owning => part' = x.fd
      <3>1. CASE q = p
        BY <1>1, <1>3, <1>6, <3>1 DEF Locks
      <3>2. CASE q # p
        BY <1>1, <1>4, <3>2 DEF Locks
      <3> QED
        BY <3>1, <3>2
    <2>3. \A q, r \in Pulls :
            pull'[q].locked /\ pull'[r].locked /\ pull'[q].fd = pull'[r].fd => q = r
      BY <2>1 DEF Locks
    <2>4. {part', final'} \subseteq Files \cup {None} /\ (part' # None => part' # final')
      BY DEF Locks
    <2> QED
      BY <2>2, <2>3, <2>4 DEF Locks
  <1>8. Pulling'
    BY <1>2, <1>3, OthersStay
  <1>9. Still'
    <2>1. \A q \in Pulls : pull'[q].pc # "idle" => pull[q].pc # "idle" /\ pull'[q].want = pull[q].want
      BY <1>1, <1>3
    <2> QED
      BY <1>2, <2>1 DEF Still
  <1> QED
    BY <1>4, <1>5, <1>7, <1>8, <1>9

LEMMA LookStep ==
    ASSUME IInv, NEW p \in Pulls, Look(p)
    PROVE  IInv'
  <1> DEFINE e == pull[p]  b == bytes[e.fd]  k == disk[e.fd]
             f == [e EXCEPT !.pc = "forget"]  g == [e EXCEPT !.pc = "prepare"]
  <1>1. e.pc = "look" /\ e.pc \in Owning /\ e.pc \in Early /\ e.pc \in Owning \ Ranged
    BY DEF Look, At, Owning, Early, Ranged, Saving
  <1>2. e \in Work /\ Shape(setting, e) /\ b \in Seq(Byte) /\ k \in Seq(Byte) /\ e.want \in Versions
        /\ setting \in Setting
    BY <1>1, OwnerNow
  <1>3. /\ f \in Work /\ f.pc = "forget" /\ f.want = e.want /\ f.url = e.url
        /\ f.moving = e.moving /\ f.fd = e.fd
        /\ f.locked = e.locked /\ f.done = e.done /\ f.conn = e.conn /\ f.cause = e.cause
        /\ g \in Work /\ g.pc = "prepare" /\ g.want = e.want /\ g.url = e.url
        /\ g.moving = e.moving /\ g.fd = e.fd
        /\ g.locked = e.locked /\ g.done = e.done /\ g.conn = e.conn /\ g.cause = e.cause
        /\ g.taken = e.taken /\ g.checked = e.checked
    <2>1. e \in Work /\ "forget" \in PCs /\ "prepare" \in PCs
      BY <1>2 DEF PCs, Owning
    <2> HIDE DEF e
    <2> QED
      BY <2>1 DEF Work
  <1>4. UNCHANGED <<world, final, rec, tmp, bytes, disk>>
    BY DEF Look
  <1>5. UNCHANGED <<setting, main, left>>
    BY <1>4 DEF world
  <1>6. \/ /\ setting.sized /\ final # None /\ Len(bytes[final]) = SizeOf[e.want]
           /\ part' = None /\ pull' = [pull EXCEPT ![p] = f]
        \/ /\ ~ (setting.sized /\ final # None /\ Len(bytes[final]) = SizeOf[e.want])
           /\ UNCHANGED part /\ pull' = [pull EXCEPT ![p] = g]
    BY DEF Look, Goto
  <1> HIDE DEF f, g
  <1>7. CASE /\ setting.sized /\ final # None /\ part' = None /\ pull' = [pull EXCEPT ![p] = f]
    <2>1. Shape(setting, f)
      BY <1>1, <1>2, <1>3, PlainShape
    <2>2. Types' /\ Locks' /\ Pulling' /\ Still' /\ \A q \in Pulls : pull'[q].pc \notin Owning
      BY <1>1, <1>3, <1>4, <1>7, <2>1, GivesPart
    <2>3. Recorded'
      BY <1>4, <1>5, <1>7, <2>2 DEF IInv, Recorded
    <2>4. FinalSure'
      BY <1>4, <1>5 DEF IInv, FinalSure
    <2> QED
      BY <2>2, <2>3, <2>4 DEF IInv
  <1>8. CASE /\ ~ (setting.sized /\ final # None /\ Len(bytes[final]) = SizeOf[e.want])
             /\ UNCHANGED part /\ pull' = [pull EXCEPT ![p] = g]
    <2>1. e.done = <<>> /\ Fresh(setting, e)
      BY <1>1, <1>2 DEF Shape
    <2>2. Fresh(setting, g)
      BY <1>3, <2>1 DEF Fresh
    <2>3. Lines(setting, g) /\ NoneMissed(setting, g)
      BY <1>2, <1>3, <2>2, LinesBegin
    <2>4. Shape(setting, g)
      BY <1>1, <1>2, <1>3, <2>1, <2>2, <2>3 DEF Shape, Early, Ranged, Saving
    <2>5. \A c \in Conns : g.conn[c].state # "put"
      BY <2>2 DEF Fresh, Free, Ended
    <2>6. Holds(setting, g, b, k)
      BY <1>3, <2>1, <2>5 DEF Holds, Ranged, Saving
    <2>7. Recorded'
      <3> SUFFICES ASSUME Bare(setting), setting.sized, setting.etag PROVE Recorded'
        BY <1>5 DEF Recorded
      <3>1. e.want = main
        BY <1>1 DEF IInv, Still
      <3>2. final = None
        BY <1>8, <3>1 DEF IInv, Recorded
      <3>3. \A q \in Pulls : pull'[q].pc \in Owning => pull'[q].pc = "prepare"
        <4>1. pull'[p] = g /\ \A q \in Pulls \ {p} : pull'[q] = pull[q]
          BY <1>3, <1>8, Moved DEF IInv
        <4> QED
          BY <1>1, <1>3, <4>1, OneOwner DEF IInv
      <3>4. rec # None =>
               /\ rec.size = SizeOf[main] /\ rec.etag = main /\ Within(rec.done, main)
               /\ \/ \A i \in Pieces(main) : rec.done[i] = 0
                  \/ /\ part # None /\ Len(bytes[part]) = SizeOf[main]
                     /\ Arrived(rec.done, main, bytes[part])
                     /\ Arrived(rec.done, main, disk[part])
        BY <3>2 DEF IInv, Recorded
      <3> HIDE DEF e
      <3> QED
        BY <1>4, <1>5, <1>8, <3>2, <3>3, <3>4 DEF Recorded
    <2>8. bytes' = [bytes EXCEPT ![e.fd] = b] /\ disk' = [disk EXCEPT ![e.fd] = k]
      BY <1>4 DEF IInv, Types
    <2>9. rec' = None \/ \E v \in Versions :
                            rec'.size = SizeOf[v] /\ rec'.etag = Etag(v) /\ Within(rec'.done, v)
      BY <1>4 DEF IInv, Types
    <2>10. g.pc \in Owning /\ tmp' \in BOOLEAN
      BY <1>3, <1>4 DEF Owning, IInv, Types
    <2> HIDE DEF b, k
    <2> QED
      BY <1>1, <1>2, <1>3, <1>4, <1>8, <2>4, <2>6, <2>7, <2>8, <2>9, <2>10, GoesOnAs
  <1> QED
    BY <1>6, <1>7, <1>8

LEMMA FailedStep ==
    ASSUME IInv, NEW p \in Pulls, Failed(p)
    PROVE  IInv'
  <1> DEFINE e == pull[p]  d == [e EXCEPT !.pc = "forget"]
  <1>1. e.pc = "failed" /\ e.pc \in Owning \ {"look", "prepare"} /\ e.pc \in Owning \ Ranged
    BY DEF Failed, At, Owning, Ranged, Saving
  <1>2. e \in Work /\ Shape(setting, e)
    BY <1>1, OwnerNow
  <1>3. /\ d \in Work /\ d.pc = "forget" /\ d.want = e.want /\ d.url = e.url
        /\ d.moving = e.moving /\ d.fd = e.fd
        /\ d.locked = e.locked /\ d.done = e.done /\ d.conn = e.conn /\ d.cause = e.cause
    <2>1. e \in Work /\ "forget" \in PCs
      BY <1>2 DEF PCs
    <2> HIDE DEF e
    <2> QED
      BY <2>1 DEF Work
  <1>4. UNCHANGED <<world, final, rec, tmp, bytes, disk>> /\ UNCHANGED <<setting, main, left>>
    BY DEF Failed, world
  <1>5. \/ UNCHANGED part /\ Exit(p)
        \/ /\ Nobytes(e) \/ e.cause = "mismatch"
           /\ part' = None /\ pull' = [pull EXCEPT ![p] = d]
    BY DEF Failed, Goto
  <1> HIDE DEF d
  <1>6. CASE UNCHANGED part /\ Exit(p)
    BY <1>4, <1>6, Exits DEF IInv, Types
  <1>7. CASE /\ Nobytes(e) \/ e.cause = "mismatch"
             /\ part' = None /\ pull' = [pull EXCEPT ![p] = d]
    <2>1. Shape(setting, d)
      BY <1>1, <1>2, <1>3, PlainShape
    <2>2. Types' /\ Locks' /\ Pulling' /\ Still' /\ \A q \in Pulls : pull'[q].pc \notin Owning
      BY <1>1, <1>3, <1>4, <1>7, <2>1, GivesPart
    <2>3. Recorded'
      <3> SUFFICES ASSUME Bare(setting), setting.sized, setting.etag PROVE Recorded'
        BY <1>4 DEF Recorded
      <3>1. final = None
        BY <1>1 DEF IInv, Recorded
      <3>2. Nobytes(e)
        BY <1>2, <1>7 DEF Shape, Bare
      <3>3. rec # None =>
               /\ rec.size = SizeOf[main] /\ rec.etag = main /\ Within(rec.done, main)
               /\ e.done # <<>> /\ \A i \in Pieces(main) : rec.done[i] <= e.done[i]
        BY <1>1 DEF IInv, Recorded
      <3>4. e.want = main
        BY <1>1 DEF IInv, Still
      <3>5. rec # None => \A i \in Pieces(main) : rec.done[i] = 0
        BY <1>2, <3>2, <3>3, <3>4 DEF Shape, Within, Nobytes
      <3> QED
        BY <1>4, <2>2, <3>1, <3>3, <3>5 DEF Recorded
    <2>4. FinalSure'
      BY <1>4 DEF IInv, FinalSure
    <2> QED
      BY <2>2, <2>3, <2>4 DEF IInv
  <1> QED
    BY <1>5, <1>6, <1>7

LEMMA NameStep ==
    ASSUME IInv, NEW p \in Pulls, Name(p)
    PROVE  IInv'
  <1> DEFINE e == pull[p]  b == bytes[e.fd]  k == disk[e.fd]  d == [e EXCEPT !.pc = "close"]
  <1>1. e.pc = "name" /\ e.pc \in Owning \ {"look", "prepare"} /\ e.pc \in Owning \ Ranged
    BY DEF Name, At, Owning, Ranged, Saving
  <1>2. e \in Work /\ Shape(setting, e) /\ Holds(setting, e, b, k) /\ e.want \in Versions
        /\ e.url \in Versions
    BY <1>1, OwnerNow
  <1>3. /\ d \in Work /\ d.pc = "close" /\ d.want = e.want /\ d.url = e.url
        /\ d.moving = e.moving /\ d.fd = e.fd
        /\ d.locked = e.locked /\ d.done = e.done /\ d.conn = e.conn /\ d.cause = e.cause
    <2>1. e \in Work /\ "close" \in PCs
      BY <1>2 DEF PCs
    <2> HIDE DEF e
    <2> QED
      BY <2>1 DEF Work
  <1>4. part = e.fd /\ part # None
    BY <1>1, OwnFile DEF IInv, Locks
  <1>5. final' = part /\ part' = None /\ pull' = [pull EXCEPT ![p] = d]
    BY <1>4 DEF Name, Goto
  <1>6. UNCHANGED <<world, rec, tmp, bytes, disk>> /\ UNCHANGED <<setting, main, left>>
    BY DEF Name, world
  <1> HIDE DEF d
  <1>7. Shape(setting, d)
    BY <1>1, <1>2, <1>3, PlainShape
  <1>8. Types' /\ Locks' /\ Pulling' /\ Still' /\ \A q \in Pulls : pull'[q].pc \notin Owning
    BY <1>1, <1>3, <1>5, <1>6, <1>7, GivesPart
  <1>9. Sure(setting) => (b = Whole(e.want) \/ b = Whole(e.url)) /\ k = b
    BY <1>1, <1>2 DEF Holds
  <1>10. Recorded'
    <2> SUFFICES ASSUME Bare(setting), setting.sized, setting.etag PROVE Recorded'
      BY <1>6 DEF Recorded
    <2>1. e.want = main /\ e.url = e.want
      BY <1>1, <1>2 DEF IInv, Still, Shape
    <2>2. Len(b) = SizeOf[main]
      BY <1>2, <1>9, <2>1, WholeFile DEF Sure
    <2>3. rec # None => rec.size = SizeOf[main] /\ rec.etag = main /\ Within(rec.done, main)
      BY DEF IInv, Recorded
    <2> QED
      BY <1>4, <1>5, <1>6, <1>8, <2>2, <2>3 DEF Recorded
  <1>11. FinalSure'
    BY <1>2, <1>4, <1>5, <1>6, <1>9 DEF FinalSure
  <1> QED
    BY <1>8, <1>10, <1>11 DEF IInv

----------------------------------------------------------------------------
(* Steps of a pull that has not name.part, or takes it.                    *)

LEMMA OutsideStep ==
    ASSUME IInv, NEW p \in Pulls, pull[p].pc \notin Owning,
           NEW d \in Work, pull' = [pull EXCEPT ![p] = d],
           d.pc \in {"open", "lock", "confirm", "look", "forget"}, Shape(setting, d),
           d.pc \in {"open", "lock"} => ~d.locked, d.pc = "open" => d.fd = None,
           d.pc = "lock" \/ d.locked => d.fd # None,
           d.pc \in {"confirm", "look"} => d.locked, d.pc = "look" => part' = d.fd,
           d.locked => \A q \in Pulls \ {p} : ~ (pull[q].locked /\ pull[q].fd = d.fd),
           d.want = main \/ (pull[p].pc # "idle" /\ d.want = pull[p].want),
           UNCHANGED <<setting, main, final, rec, tmp>>,
           left' \in Bound, left'.pushes = left.pushes, left'.removals = left.removals,
           \/ UNCHANGED <<part, bytes, disk>>
           \/ /\ part = None /\ part' \in Files /\ part' # final
              /\ bytes' = [bytes EXCEPT ![part'] = <<>>] /\ disk' = [disk EXCEPT ![part'] = <<>>]
    PROVE  IInv'
  <1> USE DEF IInv
  <1>1. pull'[p] = d /\ (\A q \in Pulls \ {p} : pull'[q] = pull[q]) /\ pull' \in [Pulls -> Work]
    BY Moved
  <1>2. \A q \in Pulls : pull[q].pc \in Owning => part \in Files /\ part = pull[q].fd
    BY OwnFile
  <1>3. /\ (\E q \in Pulls : pull[q].pc \in Owning) => UNCHANGED <<part, bytes, disk>>
        /\ final # None => bytes'[final] = bytes[final] /\ disk'[final] = disk[final]
        /\ part # None => UNCHANGED <<part, bytes, disk>>
    <2>1. part # None => UNCHANGED <<part, bytes, disk>>
      OBVIOUS
    <2>2. (\E q \in Pulls : pull[q].pc \in Owning) => part # None
      BY <1>2, NoneAssumption
    <2>3. final # None => bytes'[final] = bytes[final] /\ disk'[final] = disk[final]
      BY DEF Types, Locks
    <2> QED
      BY <2>1, <2>2, <2>3
  <1>4. Types'
    <2>1. rec' = None \/ \E v \in Versions :
                            rec'.size = SizeOf[v] /\ rec'.etag = Etag(v)' /\ Within(rec'.done, v)
      BY DEF Types, Etag
    <2>2. bytes' \in [Files -> Seq(Byte)] /\ disk' \in [Files -> Seq(Byte)]
      <3>1. <<>> \in Seq(Byte) /\ bytes \in [Files -> Seq(Byte)] /\ disk \in [Files -> Seq(Byte)]
        BY DEF Types
      <3> QED
        BY <3>1
    <2> QED
      BY <1>1, <2>1, <2>2 DEF Types, Within
  <1>5. Locks'
    <2>1. {part', final'} \subseteq Files \cup {None} /\ (part' # None => part' # final')
      BY DEF Locks
    <2>2. ASSUME NEW q \in Pulls
          PROVE  LET x == pull'[q] IN
                 /\ x.pc \in {"idle", "open", "lock"} => ~x.locked
                 /\ x.pc \in {"idle", "open"} => x.fd = None
                 /\ x.pc = "lock" \/ x.locked => x.fd # None
                 /\ x.pc \in Owning \cup {"confirm", "close"} => x.locked
                 /\ x.pc \in Owning => part' = x.fd
      <3>1. CASE q = p
        BY <1>1, <3>1 DEF Owning, Ranged, Saving
      <3>2. CASE q # p
        BY <1>1, <1>3, <3>2 DEF Locks
      <3> QED
        BY <3>1, <3>2
    <2>3. ASSUME NEW q \in Pulls, NEW r \in Pulls,
                 pull'[q].locked, pull'[r].locked, pull'[q].fd = pull'[r].fd
          PROVE  q = r
      <3>1. CASE q = p
        BY <1>1, <2>3, <3>1
      <3>2. CASE r = p
        BY <1>1, <2>3, <3>2
      <3>3. CASE q # p /\ r # p
        BY <1>1, <2>3, <3>3 DEF Locks
      <3> QED
        BY <3>1, <3>2, <3>3
    <2> QED
      BY <2>1, <2>2, <2>3 DEF Locks
  <1>6. Pulling'
    <2>1. CASE d.pc = "look"
      <3>1. d.done = <<>> /\ \A c \in Conns : d.conn[c].state # "put"
        BY <2>1 DEF Shape, Early, Fresh, Free, Ended
      <3>2. Holds(setting, d, bytes'[d.fd], disk'[d.fd])
        BY <2>1, <3>1 DEF Holds, Ranged, Saving
      <3>3. ASSUME NEW q \in Pulls
            PROVE  Shape(setting', pull'[q])
                   /\ (pull'[q].pc \in Owning =>
                        Holds(setting', pull'[q], bytes'[pull'[q].fd], disk'[pull'[q].fd]))
        <4>1. CASE q = p
          BY <1>1, <3>2, <4>1
        <4>2. CASE q # p
          BY <1>1, <1>3, <4>2 DEF Pulling
        <4> QED
          BY <4>1, <4>2
      <3> QED
        BY <3>3 DEF Pulling
    <2>2. CASE d.pc # "look"
      <3>1. d.pc \notin Owning
        BY <2>2 DEF Owning, Ranged, Saving
      <3>2. \A q \in Pulls \ {p} : pull[q].pc \in Owning =>
                bytes'[pull[q].fd] = bytes[pull[q].fd] /\ disk'[pull[q].fd] = disk[pull[q].fd]
        BY <1>3
      <3> QED
        BY <3>1, <3>2, OthersStay
    <2> QED
      BY <2>1, <2>2
  <1>7. Still'
    BY <1>1 DEF Still
  <1>8. Recorded'
    <2> SUFFICES ASSUME Bare(setting), setting.sized, setting.etag PROVE Recorded'
      BY DEF Recorded
    <2>1. \A q \in Pulls : pull'[q].pc \in Owning => pull'[q].pc = "look" \/ pull'[q] = pull[q]
      BY <1>1 DEF Owning, Ranged, Saving
    <2>2. final # None => Len(bytes'[final]) = SizeOf[main]
                          /\ \A q \in Pulls : pull'[q].pc \in Owning => pull'[q].pc = "look"
      BY <1>3, <2>1 DEF Recorded
    <2>3. rec # None =>
            /\ rec.size = SizeOf[main] /\ rec.etag = main /\ Within(rec.done, main)
            /\ \/ \A i \in Pieces(main) : rec.done[i] = 0
               \/ final # None
               \/ /\ part # None /\ UNCHANGED <<part, bytes, disk>>
                  /\ Len(bytes[part]) = SizeOf[main]
                  /\ Arrived(rec.done, main, bytes[part])
                  /\ Arrived(rec.done, main, disk[part])
      BY <1>3 DEF Recorded
    <2>4. rec # None => \A q \in Pulls : pull'[q].pc \in Owning \ {"look", "prepare"} =>
                pull'[q].done # <<>> /\ \A i \in Pieces(main) : rec.done[i] <= pull'[q].done[i]
      BY <2>1 DEF Recorded
    <2> QED
      BY <2>2, <2>3, <2>4 DEF Recorded
  <1>9. FinalSure'
    BY <1>3 DEF FinalSure
  <1> QED
    BY <1>4, <1>5, <1>6, <1>7, <1>8, <1>9

LEMMA EarlyShape ==
    ASSUME NEW s \in Setting, NEW d \in Work, d.pc \in Early, d.want \in Versions, d.url \in Versions,
           Bare(s) /\ s.sized => d.url = d.want, d.moving => ~s.pinned, d.done = <<>>, Fresh(s, d)
    PROVE  Shape(s, d)
  <1>1. Lines(s, d) /\ NoneMissed(s, d)
    BY LinesBegin
  <1>2. d.pc \notin Ranged \cup {"idle", "extend", "empty", "streaming"} /\ d.pc \notin Saving
    BY DEF Early, Ranged, Saving
  <1> QED
    BY <1>1, <1>2 DEF Shape, Fresh

LEMMA StartStep ==
    ASSUME IInv, NEW p \in Pulls, Start(p)
    PROVE  IInv'
  <1> DEFINE d == [Off EXCEPT !.pc = "open", !.want = main, !.url = main, !.moving = ~setting.pinned]
  <1>1. pull[p].pc = "idle" /\ pull[p].pc \notin Owning /\ left.pulls > 0
    BY DEF Start, At, Owning, Ranged, Saving
  <1>2. Off \in Work /\ setting \in Setting /\ left \in Bound /\ main \in Versions
    BY OffType DEF IInv, Types
  <1>3. /\ d \in Work /\ d.pc = "open" /\ d.want = main /\ d.url = main /\ ~d.locked /\ d.fd = None
        /\ d.done = <<>> /\ d.conn = Off.conn /\ d.taken = 0 /\ d.checked = 0 /\ d.cause = "none"
        /\ d.moving = ~setting.pinned
    <2>1. "open" \in PCs
      BY DEF PCs
    <2>2. ~Off.locked /\ Off.fd = None /\ Off.done = <<>> /\ Off.taken = 0 /\ Off.checked = 0
          /\ Off.cause = "none"
      BY DEF Off
    <2> QED
      BY <1>2, <2>1, <2>2 DEF Work
  <1>4. pull' = [pull EXCEPT ![p] = d]
    BY DEF Start
  <1> HIDE DEF d
  <1>5. Off.conn = [c \in Conns |-> IF c \in setting.conns THEN Free ELSE Ended]
    BY DEF Off
  <1>6. Shape(setting, d)
    <2>1. Fresh(setting, d)
      BY <1>3, <1>5 DEF Fresh
    <2> QED
      BY <1>2, <1>3, <2>1, EarlyShape DEF Early
  <1>7. left' \in Bound /\ left'.pushes = left.pushes /\ left'.removals = left.removals
    BY <1>1, <1>2 DEF Start, Bound
  <1>8. UNCHANGED <<setting, main, final, rec, tmp, part, bytes, disk>>
    BY DEF Start, names
  <1> QED
    BY <1>1, <1>3, <1>4, <1>6, <1>7, <1>8, OutsideStep

\* There is a file for a pull that finds none.
LEMMA SomeUnused ==
    ASSUME Types, Locks, part = None
    PROVE  \E f \in Files : Unused(f)
  <1> DEFINE F == [q \in Pulls |-> pull[q].fd]  T == {pull[q].fd : q \in Pulls}
  <1>1. IsFiniteSet(Pulls) /\ IsFiniteSet(Files) /\ Cardinality(Files) > Cardinality(Pulls) + 1
    BY FilesAssumption
  <1>2. F \in Surjection(Pulls, T)
    <2>1. F \in [Pulls -> T] /\ \A t \in T : \E s \in Pulls : F[s] = t
      OBVIOUS
    <2> HIDE DEF F, T
    <2> QED
      BY <2>1, Fun_IsSurj
  <1> HIDE DEF F
  <1>3. IsFiniteSet(T) /\ Cardinality(T) <= Cardinality(Pulls)
    <2> HIDE DEF T
    <2> QED
      BY <1>1, <1>2, FS_Surjection
  <1>4. IsFiniteSet(T \cup {final}) /\ Cardinality(T \cup {final}) <= Cardinality(Pulls) + 1
    <2> HIDE DEF T
    <2>1. IsFiniteSet(T \cup {final})
          /\ Cardinality(T \cup {final}) = IF final \in T THEN Cardinality(T) ELSE Cardinality(T) + 1
      BY <1>3, FS_AddElement
    <2>2. Cardinality(T) \in Nat /\ Cardinality(Pulls) \in Nat
      BY <1>1, <1>3, FS_CardinalityType
    <2> QED
      BY <1>3, <2>1, <2>2
  <1>5. ~ (Files \subseteq T \cup {final})
    <2> HIDE DEF T
    <2> SUFFICES ASSUME Files \subseteq T \cup {final} PROVE FALSE
      OBVIOUS
    <2>1. Cardinality(Files) <= Cardinality(T \cup {final})
      BY <1>4, FS_Subset
    <2>2. Cardinality(Files) \in Nat /\ Cardinality(T \cup {final}) \in Nat /\ Cardinality(Pulls) \in Nat
      BY <1>1, <1>4, FS_CardinalityType
    <2> QED
      BY <1>1, <1>4, <2>1, <2>2
  <1>6. PICK f \in Files : f \notin T \cup {final}
    BY <1>5
  <1>7. f \notin {part, final} /\ \A q \in Pulls : pull[q].fd # f
    BY <1>6, NoneAssumption
  <1> QED
    BY <1>7 DEF Unused

LEMMA OpenStep ==
    ASSUME IInv, NEW p \in Pulls, Open(p)
    PROVE  IInv'
  <1> DEFINE e == pull[p]  f == IF part = None THEN CHOOSE g \in Files : Unused(g) ELSE part
             d == [e EXCEPT !.pc = "lock", !.fd = f]
  <1>1. e.pc = "open" /\ e.pc \in Early /\ e.pc \notin Owning
    BY DEF Open, At, Early, Owning, Ranged, Saving
  <1>2. e \in Work /\ Shape(setting, e) /\ ~e.locked /\ setting \in Setting
    BY <1>1 DEF IInv, Types, Locks, Pulling
  <1>3. f \in Files /\ (part = None => f # final) /\ (part # None => f = part)
    <2>1. CASE part = None
      <3>1. f \in Files /\ Unused(f)
        BY <2>1, SomeUnused DEF IInv
      <3> QED
        BY <2>1, <3>1 DEF Unused
    <2>2. CASE part # None
      BY <2>2 DEF IInv, Locks
    <2> QED
      BY <2>1, <2>2
  <1>4. part' = f /\ pull' = [pull EXCEPT ![p] = d]
        /\ (part = None => bytes' = [bytes EXCEPT ![f] = <<>>] /\ disk' = [disk EXCEPT ![f] = <<>>])
        /\ (part # None => UNCHANGED <<bytes, disk>>)
    <2>1. CASE part = None
      <3>1. part' = f
        BY Zenon DEF Open
      <3>2. pull' = [pull EXCEPT ![p] = d]
        <4>1. pull' = [pull EXCEPT ![p].pc = "lock", ![p].fd = f]
          BY Zenon DEF Open
        <4> HIDE DEF f
        <4> QED
          BY <4>1
      <3>3. bytes' = [bytes EXCEPT ![f] = <<>>] /\ disk' = [disk EXCEPT ![f] = <<>>]
        BY <2>1, Zenon DEF Open
      <3> QED
        BY <2>1, <3>1, <3>2, <3>3
    <2>2. CASE part # None
      BY <2>2, Zenon DEF Open
    <2> QED
      BY <2>1, <2>2
  <1> HIDE DEF f
  <1>5. /\ d \in Work /\ d.pc = "lock" /\ d.want = e.want /\ d.url = e.url
        /\ d.moving = e.moving /\ d.fd = f /\ ~d.locked
        /\ d.done = e.done /\ d.conn = e.conn /\ d.taken = e.taken /\ d.checked = e.checked
        /\ d.cause = e.cause
    <2>1. e \in Work /\ "lock" \in PCs /\ ~e.locked
      BY <1>2 DEF PCs
    <2> HIDE DEF e
    <2> QED
      BY <1>3, <2>1 DEF Work
  <1> HIDE DEF d
  <1>6. Shape(setting, d)
    <2>1. Fresh(setting, d) /\ d.done = <<>> /\ d.want \in Versions /\ d.url \in Versions
          /\ (Bare(setting) /\ setting.sized => d.url = d.want) /\ (d.moving => ~setting.pinned)
      BY <1>1, <1>2, <1>5 DEF Shape, Fresh
    <2> QED
      BY <1>2, <1>5, <2>1, EarlyShape DEF Early
  <1>7. UNCHANGED <<setting, main, left, final, rec, tmp>> /\ left \in Bound
    BY DEF Open, world, IInv, Types
  <1>8. d.fd # None
    BY <1>3, <1>5, NoneAssumption
  <1>9. \/ UNCHANGED <<part, bytes, disk>>
        \/ /\ part = None /\ part' \in Files /\ part' # final
           /\ bytes' = [bytes EXCEPT ![part'] = <<>>] /\ disk' = [disk EXCEPT ![part'] = <<>>]
    BY <1>3, <1>4
  <1> QED
    BY <1>1, <1>4, <1>5, <1>6, <1>7, <1>8, <1>9, OutsideStep

LEMMA LockStep ==
    ASSUME IInv, NEW p \in Pulls, Lock(p)
    PROVE  IInv'
  <1> DEFINE e == pull[p]  d == [e EXCEPT !.pc = "confirm", !.locked = TRUE]
  <1>1. e.pc = "lock" /\ e.pc \in Early /\ e.pc \notin Owning
    BY DEF Lock, At, Early, Owning, Ranged, Saving
  <1>2. e \in Work /\ Shape(setting, e) /\ e.fd # None /\ setting \in Setting
    BY <1>1 DEF IInv, Types, Locks, Pulling
  <1>3. /\ d \in Work /\ d.pc = "confirm" /\ d.want = e.want /\ d.url = e.url
        /\ d.moving = e.moving /\ d.fd = e.fd
        /\ d.locked /\ d.done = e.done /\ d.conn = e.conn /\ d.taken = e.taken
        /\ d.checked = e.checked /\ d.cause = e.cause
    <2>1. e \in Work /\ "confirm" \in PCs
      BY <1>2 DEF PCs
    <2> HIDE DEF e
    <2> QED
      BY <2>1 DEF Work
  <1>4. \/ Exit(p)
        \/ /\ ~ \E q \in Pulls : pull[q].locked /\ pull[q].fd = e.fd
           /\ pull' = [pull EXCEPT ![p] = d]
    BY DEF Lock
  <1>5. UNCHANGED <<setting, main, left, final, rec, tmp, part, bytes, disk>> /\ left \in Bound
        /\ tmp \in BOOLEAN
    BY DEF Lock, world, names, IInv, Types
  <1> HIDE DEF d
  <1>6. Shape(setting, d)
    <2>1. Fresh(setting, d) /\ d.done = <<>> /\ d.want \in Versions /\ d.url \in Versions
          /\ (Bare(setting) /\ setting.sized => d.url = d.want) /\ (d.moving => ~setting.pinned)
      BY <1>1, <1>2, <1>3 DEF Shape, Fresh
    <2> QED
      BY <1>2, <1>3, <2>1, EarlyShape DEF Early
  <1>7. CASE Exit(p)
    BY <1>5, <1>7, Exits
  <1>8. CASE /\ ~ \E q \in Pulls : pull[q].locked /\ pull[q].fd = e.fd
             /\ pull' = [pull EXCEPT ![p] = d]
    BY <1>1, <1>2, <1>3, <1>5, <1>6, <1>8, OutsideStep
  <1> QED
    BY <1>4, <1>7, <1>8

LEMMA ConfirmStep ==
    ASSUME IInv, NEW p \in Pulls, Confirm(p)
    PROVE  IInv'
  <1> DEFINE e == pull[p]  d == [e EXCEPT !.pc = "look"]
             f == [e EXCEPT !.pc = "open", !.fd = None, !.locked = FALSE, !.tries = @ + 1]
  <1>1. e.pc = "confirm" /\ e.pc \notin Owning
    BY DEF Confirm, At, Owning, Ranged, Saving
  <1>2. e \in Work /\ Shape(setting, e) /\ e.fd # None /\ e.locked /\ setting \in Setting
    BY <1>1 DEF IInv, Types, Locks, Pulling
  <1>3. e.done = <<>> /\ Fresh(setting, e) /\ e.want \in Versions /\ e.url \in Versions
        /\ (Bare(setting) /\ setting.sized => e.url = e.want) /\ (e.moving => ~setting.pinned)
    BY <1>1, <1>2 DEF Shape, Early
  <1>4. /\ d \in Work /\ d.pc = "look" /\ d.want = e.want /\ d.url = e.url
        /\ d.moving = e.moving /\ d.fd = e.fd
        /\ d.locked /\ d.done = e.done /\ d.conn = e.conn /\ d.taken = e.taken
        /\ d.checked = e.checked /\ d.cause = e.cause
        /\ f \in Work /\ f.pc = "open" /\ f.want = e.want /\ f.url = e.url
        /\ f.moving = e.moving /\ f.fd = None
        /\ ~f.locked /\ f.done = e.done /\ f.conn = e.conn /\ f.taken = e.taken
        /\ f.checked = e.checked /\ f.cause = e.cause
    <2>1. e \in Work /\ e.locked /\ "look" \in PCs /\ "open" \in PCs /\ e.tries + 1 \in Nat
      BY <1>2 DEF PCs, Owning, Work
    <2> HIDE DEF e
    <2> QED
      BY <2>1 DEF Work
  <1>5. \/ Exit(p)
        \/ part = e.fd /\ pull' = [pull EXCEPT ![p] = d]
        \/ pull' = [pull EXCEPT ![p] = f]
    BY DEF Confirm, Goto
  <1>6. UNCHANGED <<setting, main, left, final, rec, tmp, part, bytes, disk>> /\ left \in Bound
        /\ tmp \in BOOLEAN
    BY DEF Confirm, world, names, IInv, Types
  <1> HIDE DEF d, f
  <1>7. Shape(setting, d) /\ Shape(setting, f)
    <2>1. Fresh(setting, d) /\ Fresh(setting, f)
      BY <1>3, <1>4 DEF Fresh
    <2> QED
      BY <1>2, <1>3, <1>4, <2>1, EarlyShape DEF Early
  <1>8. CASE Exit(p)
    BY <1>6, <1>8, Exits
  <1>9. CASE part = e.fd /\ pull' = [pull EXCEPT ![p] = d]
    <2>1. \A q \in Pulls \ {p} : ~ (pull[q].locked /\ pull[q].fd = d.fd)
      BY <1>2, <1>4 DEF IInv, Locks
    <2> QED
      BY <1>1, <1>2, <1>4, <1>6, <1>7, <1>9, <2>1, OutsideStep
  <1>10. CASE pull' = [pull EXCEPT ![p] = f]
    BY <1>1, <1>4, <1>6, <1>7, <1>10, OutsideStep
  <1> QED
    BY <1>5, <1>8, <1>9, <1>10

LEMMA CloseStep ==
    ASSUME IInv, NEW p \in Pulls, Close(p)
    PROVE  IInv'
  <1> DEFINE e == pull[p]  d == [e EXCEPT !.pc = "forget", !.fd = None, !.locked = FALSE]
  <1>1. e.pc = "close" /\ e.pc \notin Owning
    BY DEF Close, At, Owning, Ranged, Saving
  <1>2. e \in Work /\ Shape(setting, e)
    BY <1>1 DEF IInv, Types, Pulling
  <1>3. /\ d \in Work /\ d.pc = "forget" /\ d.want = e.want /\ d.url = e.url
        /\ d.moving = e.moving /\ d.fd = None
        /\ ~d.locked /\ d.done = e.done /\ d.conn = e.conn /\ d.cause = e.cause
    <2>1. e \in Work /\ "forget" \in PCs
      BY <1>2 DEF PCs
    <2> HIDE DEF e
    <2> QED
      BY <2>1 DEF Work
  <1>4. pull' = [pull EXCEPT ![p] = d]
    BY DEF Close
  <1>5. UNCHANGED <<setting, main, left, final, rec, tmp, part, bytes, disk>> /\ left \in Bound
    BY DEF Close, world, names, IInv, Types
  <1> HIDE DEF d
  <1>6. Shape(setting, d)
    BY <1>1, <1>2, <1>3, PlainShape
  <1> QED
    BY <1>1, <1>3, <1>4, <1>5, <1>6, OutsideStep

----------------------------------------------------------------------------
(* What happens around the pulls.                                          *)

LEMMA PushStep ==
    ASSUME IInv, Push
    PROVE  IInv'
  <1> USE DEF IInv
  <1>1. /\ UNCHANGED <<setting, part, final, rec, tmp, bytes, disk, pull>>
        /\ main' \in Versions /\ left.pushes > 0 /\ left \in Bound
        /\ left' = [left EXCEPT !.pushes = @ - 1]
    BY DEF Push, names, Types
  <1>2. left' \in Bound /\ left'.removals = left.removals
    BY <1>1 DEF Bound
  <1>3. Types'
    BY <1>1, <1>2 DEF Types, Etag
  <1>4. Locks' /\ Pulling' /\ FinalSure'
    BY <1>1 DEF Locks, Pulling, FinalSure
  <1>5. Bare(setting) /\ setting.sized => ~ (setting.etag \/ ~setting.commit)
    BY <1>1 DEF Still
  <1>6. Still' /\ Recorded'
    BY <1>1, <1>2, <1>5 DEF Still, Recorded
  <1> QED
    BY <1>3, <1>4, <1>6

LEMMA DeleteStep ==
    ASSUME IInv, Delete
    PROVE  IInv'
  <1> USE DEF IInv
  <1>1. /\ UNCHANGED <<setting, main, part, rec, tmp, bytes, disk, pull>>
        /\ final' = None /\ left.removals > 0 /\ left \in Bound
        /\ left' = [left EXCEPT !.removals = @ - 1]
    BY DEF Delete, Types
  <1>2. left' \in Bound /\ left'.pushes = left.pushes
    BY <1>1 DEF Bound
  <1>3. Types'
    BY <1>1, <1>2 DEF Types, Etag
  <1>4. Locks' /\ Pulling' /\ FinalSure'
    BY <1>1 DEF Locks, Pulling, FinalSure
  <1>5. ~ (Bare(setting) /\ setting.sized /\ setting.etag)
    BY <1>1 DEF Still
  <1>6. Still' /\ Recorded'
    BY <1>1, <1>2, <1>5 DEF Still, Recorded
  <1> QED
    BY <1>3, <1>4, <1>6

\* A byte that both the file and the disk have survives.
LEMMA PowerCutStep ==
    ASSUME IInv, PowerCut
    PROVE  IInv'
  <1> USE DEF IInv
  <1>1. PICK lost \in SUBSET (1 .. Longest) :
            bytes' = [f \in Files |-> [i \in 1 .. Len(bytes[f]) |->
                        IF i \notin lost THEN bytes[f][i]
                        ELSE IF i <= Len(disk[f]) THEN disk[f][i] ELSE Hole]]
    BY DEF PowerCut
  <1>2. /\ UNCHANGED <<setting, main, part, final, rec, tmp>> /\ left \in Bound
        /\ left.cuts > 0 /\ left' = [left EXCEPT !.cuts = @ - 1] /\ disk' = bytes'
        /\ pull' = [p \in Pulls |-> Off]
    BY DEF PowerCut, names, Types
  <1>3. left' \in Bound /\ left'.pushes = left.pushes /\ left'.removals = left.removals
    BY <1>2 DEF Bound
  <1>4. ASSUME NEW f \in Files
        PROVE  /\ bytes'[f] \in Seq(Byte) /\ Len(bytes'[f]) = Len(bytes[f])
               /\ \A n \in 1 .. Len(bytes[f]) : \A x :
                    bytes[f][n] = x /\ n <= Len(disk[f]) /\ disk[f][n] = x => bytes'[f][n] = x
    <2> DEFINE b == bytes[f]  k == disk[f]
               c == [i \in 1 .. Len(b) |->
                        IF i \notin lost THEN b[i] ELSE IF i <= Len(k) THEN k[i] ELSE Hole]
    <2>1. bytes'[f] = c
      BY <1>1
    <2>2. b \in Seq(Byte) /\ k \in Seq(Byte) /\ Len(b) \in Nat /\ Len(k) \in Nat
      BY LenProperties DEF Types
    <2>3. \A i \in 1 .. Len(b) : b[i] \in Byte
      BY <2>2, ElementOfSeq
    <2>4. \A i \in 1 .. Len(k) : k[i] \in Byte
      BY <2>2, ElementOfSeq
    <2> HIDE DEF b, k
    <2>5. c \in [1 .. Len(b) -> Byte]
      <3>1. \A i \in 1 .. Len(b) : i <= Len(k) => i \in 1 .. Len(k)
        BY <2>2
      <3> QED
        BY <2>3, <2>4, <3>1 DEF Byte
    <2>6. c \in Seq(Byte) /\ Len(c) = Len(b)
      BY <2>2, <2>5, MakesSeq
    <2>7. \A n \in 1 .. Len(b) : \A x : b[n] = x /\ n <= Len(k) /\ k[n] = x => c[n] = x
      OBVIOUS
    <2> HIDE DEF c
    <2> QED
      BY <2>1, <2>6, <2>7 DEF b, k
  <1>5. Off \in Work /\ Shape(setting, Off) /\ Off.pc = "idle" /\ ~Off.locked /\ Off.fd = None
    BY OffType DEF Types, Off
  <1>6. \A p \in Pulls : pull'[p] = Off
    BY <1>2
  <1>7. \A p \in Pulls : pull'[p].pc = "idle" /\ pull'[p].pc \notin Owning
    BY <1>5, <1>6 DEF Owning, Ranged, Saving
  <1>8. Types'
    <2>1. bytes' \in [Files -> Seq(Byte)]
      <3>1. DOMAIN bytes' = Files /\ bytes' = [f \in Files |-> bytes'[f]]
        BY <1>1
      <3> QED
        BY <1>4, <3>1
    <2>2. pull' \in [Pulls -> Work]
      BY <1>2, <1>5
    <2> QED
      BY <1>2, <1>3, <2>1, <2>2 DEF Types, Etag
  <1>9. Locks'
    BY <1>2, <1>5, <1>6 DEF Locks, Owning, Ranged, Saving
  <1>10. Pulling'
    BY <1>2, <1>5, <1>6, <1>7 DEF Pulling
  <1>11. Still'
    BY <1>2, <1>3, <1>7 DEF Still
  <1>12. Recorded'
    <2> SUFFICES ASSUME Bare(setting), setting.sized, setting.etag PROVE Recorded'
      BY <1>2 DEF Recorded
    <2>1. final # None => Len(bytes'[final]) = SizeOf[main]
      BY <1>4 DEF Recorded, Locks
    <2>2. ASSUME rec # None, final = None, ~ \A i \in Pieces(main) : rec.done[i] = 0
          PROVE  part # None /\ Len(bytes'[part]) = SizeOf[main] /\ Arrived(rec.done, main, bytes'[part])
      <3>1. /\ part \in Files /\ part # None /\ Len(bytes[part]) = SizeOf[main]
            /\ Arrived(rec.done, main, bytes[part]) /\ Arrived(rec.done, main, disk[part])
            /\ Within(rec.done, main) /\ main \in Versions
        BY <2>2 DEF Recorded, Locks, Types
      <3>2. ASSUME NEW i \in Pieces(main), NEW n \in 1 .. rec.done[i]
            PROVE  StartOf(i) + n <= Len(bytes'[part]) /\ bytes'[part][StartOf(i) + n] = main
        <4>1. StartOf(i) + n \in 1 .. Len(bytes[part]) /\ SizeOf[main] \in Nat
          BY <3>1, CountedPlace, SizeType
        <4>2. /\ bytes[part][StartOf(i) + n] = main
              /\ StartOf(i) + n <= Len(disk[part]) /\ disk[part][StartOf(i) + n] = main
          BY <3>1 DEF Arrived
        <4>3. bytes'[part][StartOf(i) + n] = main /\ Len(bytes'[part]) = Len(bytes[part])
          BY <1>4, <3>1, <4>1, <4>2
        <4> QED
          BY <3>1, <4>1, <4>3
      <3>3. Arrived(rec.done, main, bytes'[part])
        BY <3>2 DEF Arrived
      <3> QED
        BY <1>4, <3>1, <3>3
    <2>3. rec # None => rec.size = SizeOf[main] /\ rec.etag = main /\ Within(rec.done, main)
      BY DEF Recorded
    <2> QED
      BY <1>2, <1>7, <2>1, <2>2, <2>3 DEF Recorded
  <1>13. FinalSure'
    <2> SUFFICES ASSUME Sure(setting), final # None,
                        NEW v \in Versions, bytes[final] = Whole(v), disk[final] = Whole(v)
                 PROVE  bytes'[final] = Whole(v)
      BY <1>2 DEF FinalSure
    <2>1. final \in Files /\ Len(Whole(v)) = SizeOf[v] /\ SizeOf[v] \in Nat
      BY WholeFile, SizeType DEF Locks
    <2>2. \A n \in 1 .. SizeOf[v] : Whole(v)[n] = v
      BY WholeFile
    <2>3. Len(bytes'[final]) = SizeOf[v] /\ bytes'[final] \in Seq(Byte)
      BY <1>4, <2>1
    <2>4. \A n \in 1 .. SizeOf[v] : bytes'[final][n] = v
      BY <1>4, <2>1, <2>2
    <2> QED
      BY <2>3, <2>4, IsWhole
  <1> QED
    BY <1>8, <1>9, <1>10, <1>11, <1>12, <1>13

LEMMA InitStep == Init => IInv
  <1> SUFFICES ASSUME Init PROVE IInv
    OBVIOUS
  <1>1. PICK l \in Loads : setting = l.setting /\ left = l.bound
    BY DEF Init
  <1>2. setting \in Setting /\ left \in Bound /\ l \in Loads
    BY <1>1, LoadsAssumption
  <1>3. main \in Versions
    BY SizesAssumption DEF Init
  <1>4. Off \in Work /\ Shape(setting, Off) /\ Off.pc = "idle" /\ ~Off.locked /\ Off.fd = None
    BY <1>2, OffType DEF Off
  <1>5. part = None /\ final = None /\ rec = None /\ tmp = FALSE
        /\ pull = [p \in Pulls |-> Off] /\ \A p \in Pulls : pull[p] = Off
    BY DEF Init
  <1>6. bytes \in [Files -> Seq(Byte)] /\ disk \in [Files -> Seq(Byte)]
    <2>1. <<>> \in Seq(Byte)
      OBVIOUS
    <2> QED
      BY <2>1 DEF Init
  <1>7. Types
    BY <1>2, <1>3, <1>4, <1>5, <1>6 DEF Types
  <1>8. Locks
    BY <1>4, <1>5 DEF Locks, Owning, Ranged, Saving
  <1>9. Pulling
    BY <1>4, <1>5 DEF Pulling, Owning, Ranged, Saving
  <1>10. Still
    <2> SUFFICES ASSUME Bare(setting), setting.sized
                 PROVE  /\ setting.etag \/ ~(setting.commit /\ setting.pinned) => left.pushes = 0
                        /\ setting.etag => left.removals = 0
      BY <1>4, <1>5 DEF Still
    <2> QED
      BY <1>1 DEF Bare, Kept
  <1>11. Recorded /\ FinalSure
    BY <1>4, <1>5 DEF Recorded, FinalSure
  <1> QED
    BY <1>7, <1>8, <1>9, <1>10, <1>11 DEF IInv

LEMMA GoesStep ==
    ASSUME IInv, NEW p \in Pulls, Goes(p)
    PROVE  IInv'
  <1>1. CASE Mismatch(p)
    BY <1>1, StopStep DEF Mismatch
  <1>2. CASE ForgetLast(p)
    BY <1>2, Exits DEF ForgetLast, Forget, world
  <1> QED
    BY <1>1, <1>2, OpenStep, LockStep, ConfirmStep, LookStep, PrepareStep, ExtendStep, FlushStep,
       WriteStep, RenameStep, CheckStep, RunEndsStep, StreamStep, EmptyStep, StreamsStep,
       StreamOverStep, SyncStep, NameStep, CloseStep, FailedStep
       DEF Goes

LEMMA ConnectionStep ==
    ASSUME IInv, NEW p \in Pulls, NEW c \in Conns, Connection(p, c)
    PROVE  IInv'
  <1>1. CASE Take(p, c)
    BY <1>1, TakeNoneStep, TakeSomeStep DEF Take
  <1>2. CASE GivesUp(p, c)
    BY <1>2, EndsWithStep DEF GivesUp
  <1> QED
    BY <1>1, <1>2, PutStep, CountStep, FilledStep DEF Connection

LEMMA MishapStep ==
    ASSUME IInv, NEW p \in Pulls, Mishap(p)
    PROVE  IInv'
  <1>1. ASSUME NEW c \in Conns, Fails(p, c)
        PROVE  IInv'
    BY <1>1, EndsWithStep DEF Fails
  <1>2. ASSUME NEW c \in Conns, Refresh(p, c)
        PROVE  IInv'
    <2> DEFINE v == IF setting.commit THEN pull[p].want ELSE main
    <2>1. v \in Versions /\ Lacks(p, c) /\ UNCHANGED <<world, names, bytes, disk>>
      <3>1. Lacks(p, c) /\ UNCHANGED <<world, names, bytes, disk>>
        BY <1>2 DEF Refresh
      <3>2. pull[p].pc \in Ranged
        BY <3>1 DEF Lacks, Filling, Running, At, Ranged
      <3> QED
        BY <3>1, <3>2, SnapNow DEF IInv, Types
    <2>2. EndsWith(p, c, "other")
          \/ /\ ~ (setting.etag /\ v # pull[p].want)
             /\ pull' = [pull EXCEPT ![p].url = v, ![p].moving = ~setting.pinned /\ ~setting.commit]
      BY <1>2 DEF Refresh
    <2>3. CASE EndsWith(p, c, "other")
      BY <2>1, <2>3, EndsWithStep
    <2>4. CASE /\ ~ (setting.etag /\ v # pull[p].want)
               /\ pull' = [pull EXCEPT ![p].url = v, ![p].moving = ~setting.pinned /\ ~setting.commit]
      BY <2>1, <2>4, RefreshStep
    <2> QED
      BY <2>2, <2>3, <2>4
  <1>3. CASE Stop(p)
    BY <1>3, StopStep DEF Stop
  <1>4. CASE StreamFails(p)
    BY <1>4, StreamOverStep
  <1>5. CASE Killed(p)
    BY <1>5, Exits DEF Killed, world, names, IInv, Types
  <1> QED
    BY <1>1, <1>2, <1>3, <1>4, <1>5 DEF Mishap

LEMMA NextStep ==
    ASSUME IInv, [Next]_vars
    PROVE  IInv'
  <1>1. CASE UNCHANGED vars
    <2>1. UNCHANGED <<setting, main, part, final, rec, tmp, bytes, disk, pull, left>>
      BY <1>1 DEF vars
    <2>2. Types' /\ Locks' /\ Pulling'
      BY <2>1 DEF IInv, Types, Locks, Pulling, Etag
    <2>3. Still' /\ Recorded' /\ FinalSure'
      BY <2>1 DEF IInv, Still, Recorded, FinalSure
    <2> QED
      BY <2>2, <2>3 DEF IInv
  <1>2. ASSUME NEW p \in Pulls,
               \/ Start(p) \/ Goes(p) \/ Tick(p) \/ Mishap(p)
               \/ \E c \in Conns : Connection(p, c)
        PROVE  IInv'
    BY <1>2, StartStep, GoesStep, TickStep, MishapStep, ConnectionStep
  <1>3. CASE Push \/ Delete \/ PowerCut
    BY <1>3, PushStep, DeleteStep, PowerCutStep
  <1> QED
    BY <1>1, <1>2, <1>3 DEF Next

LEMMA Inductive == Spec => []IInv
  <1>1. Init => IInv
    BY InitStep
  <1>2. IInv /\ [Next]_vars => IInv'
    BY NextStep
  <1> QED
    BY <1>1, <1>2, PTL DEF Spec

----------------------------------------------------------------------------
(* What the invariant says.                                                *)

LEMMA SaysTypeOK == IInv => TypeOK
  <1> SUFFICES ASSUME IInv PROVE TypeOK
    OBVIOUS
  <1>1. /\ setting \in Setting /\ left \in Bound /\ main \in Versions /\ tmp \in BOOLEAN
        /\ {part, final} \subseteq Files \cup {None}
    BY DEF IInv, Types, Locks
  <1>2. rec = None \/ \E v \in Versions :
                        /\ rec.size = SizeOf[v] /\ rec.etag = Etag(v)
                        /\ rec.done \in [Pieces(v) -> 0 .. PieceSize]
    <2> SUFFICES ASSUME rec # None
                 PROVE  \E v \in Versions :
                            /\ rec.size = SizeOf[v] /\ rec.etag = Etag(v)
                            /\ rec.done \in [Pieces(v) -> 0 .. PieceSize]
      OBVIOUS
    <2>1. PICK v \in Versions : rec.size = SizeOf[v] /\ rec.etag = Etag(v) /\ Within(rec.done, v)
      BY DEF IInv, Types
    <2>2. \A i \in Pieces(v) : rec.done[i] \in 0 .. PieceSize
      <3> SUFFICES ASSUME NEW i \in Pieces(v) PROVE rec.done[i] \in 0 .. PieceSize
        OBVIOUS
      <3>1. rec.done[i] \in 0 .. PieceLen(v, i)
        BY <2>1 DEF Within
      <3>2. PieceLen(v, i) \in 1 .. PieceSize
        BY PieceFacts
      <3> QED
        BY <3>1, <3>2, SizeType
    <2> QED
      BY <2>1, <2>2 DEF Within
  <1>3. \A f \in Files : {bytes[f], disk[f]} \subseteq Seq(Versions \cup {Hole})
    BY DEF IInv, Types, Byte
  <1>4. ASSUME NEW p \in Pulls
        PROVE  LET d == pull[p] IN
               /\ d.fd \in Files \cup {None} /\ d.locked \in BOOLEAN
               /\ {d.want, d.url} \subseteq Versions \cup {None} /\ d.moving \in BOOLEAN
               /\ d.done # <<>> => \A i \in Pieces(d.want) : d.done[i] \in 0 .. PieceLen(d.want, i)
               /\ d.cause \in {"none", "other", "noRanges", "mismatch"}
    <2>1. pull[p] \in Work /\ Shape(setting, pull[p])
      BY DEF IInv, Types, Pulling
    <2>2. ASSUME pull[p].done # <<>>, NEW i \in Pieces(pull[p].want)
          PROVE  pull[p].done[i] \in 0 .. PieceLen(pull[p].want, i)
      <3>1. pull[p].want \in Versions /\ Within(pull[p].done, pull[p].want)
        BY <2>1, <2>2 DEF Shape
      <3>2. PieceLen(pull[p].want, i) \in Nat
        BY <3>1, PieceFacts
      <3> QED
        BY <3>1, <3>2 DEF Within
    <2> QED
      BY <2>1, <2>2 DEF Work
  <1> QED
    BY <1>1, <1>2, <1>3, <1>4 DEF TypeOK

LEMMA OwnersOwn ==
    ASSUME IInv, NEW p \in Pulls, Owner(p)
    PROVE  pull[p].pc \in Owning /\ part = pull[p].fd
  BY DEF IInv, Types, Work, PCs, Locks, Owner

\* Whatever is killed, removed, pushed or lost, and whatever the server names,
\* no pull removes, renames or overwrites a name.part another pull has: from
\* the lock it confirmed to the name it gives the name leads to its own file.
THEOREM PartStaysOurs == Spec => [](TypeOK /\ PartIsOurs)
  <1>1. IInv => TypeOK /\ PartIsOurs
    BY SaysTypeOK, OwnersOwn DEF PartIsOurs
  <1> QED
    BY <1>1, Inductive, PTL

\* Where the record can be trusted, and the bytes are asked for at an address
\* of one version or nothing is pushed (Kept), what a pull counts as fetched is
\* in its file, byte for byte: no order of the connections, the saves, the kills
\* and the power cuts leaves a hole or another version behind a count.
THEOREM PartHoldsCounted ==
    ASSUME Kept
    PROVE  Spec => []PartHolds
  <1>1. IInv => PartHolds
    <2> SUFFICES ASSUME IInv PROVE PartHolds
      OBVIOUS
    <2>1. TypeOK /\ PartIsOurs
      BY SMTT(60), SaysTypeOK, OwnersOwn DEF PartIsOurs
    <2>2. RecordBehind
      <3> SUFFICES ASSUME setting.flushed, ~setting.sum, NEW p \in Pulls,
                          pull[p].done # <<>>, Owner(p), pull[p].pc # "extend"
                   PROVE  Arrived(pull[p].done, pull[p].want, bytes[pull[p].fd])
        BY DEF RecordBehind
      <3>1. Bare(setting)
        BY DEF Bare
      <3>2. pull[p].pc \in Owning
        BY OwnersOwn
      <3> QED
        BY <3>1, <3>2 DEF IInv, Pulling, Holds
    <2> QED
      BY <2>1, <2>2 DEF PartHolds
  <1> QED
    BY <1>1, Inductive, PTL

\* And a file under its final name is whole, of one version of the repository,
\* and on the disk so; with a sha256 whatever served the pieces and whether or
\* not the record is to be trusted, without one under Kept alone.
THEOREM FinalStaysWhole ==
    ASSUME Kept
    PROVE  Spec => []FinalWhole
  <1>1. IInv => FinalWhole
    BY DEF IInv, FinalSure, FinalWhole, Sure, Bare, Vouched
  <1> QED
    BY <1>1, Inductive, PTL

\* With a sha256 to compare it with (check, stream), a finished file is whole
\* from any record, whatever was pushed and removed.
THEOREM SummedIsWhole == Spec => [](setting.sum => FinalWhole)
  <1>1. IInv => (setting.sum => FinalWhole)
    BY DEF IInv, FinalSure, FinalWhole, Sure
  <1> QED
    BY <1>1, Inductive, PTL
=============================================================================
