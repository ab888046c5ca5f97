-------------------------- MODULE MLXEngineProofs --------------------------
(***************************************************************************)
(* Whoever is served with it, a request gets the reply the model writes of *)
(* its prompt alone: for every number of requests, rows, prompts, marks    *)
(* and pool entries, every width a buffer grows by and whatever fails.     *)
(*                                                                         *)
(* That replies so far are right is not inductive: the next token is       *)
(* written of what the request's row, or its cache, has read.  So the      *)
(* invariant says of each what text that is.  A cache Holds a text; row r  *)
(* of a batch Reads one; each operation on a batch, however it moves       *)
(* columns, keeps Reads for every row but the one it is about.  A reply's  *)
(* row has read all but its last token when no step is in flight; with one *)
(* in flight it has read that too, and what the step will say of it is     *)
(* what the model writes next (RowsRead).                                  *)
(*                                                                         *)
(* That no other row is taken for a request's needs each request to be in  *)
(* one place (OnePlace), and that a batch may hold rows the engine does    *)
(* not know of, left by a join that failed: Reads is claimed of the rows   *)
(* of requests, not of all rows in use.                                    *)
(***************************************************************************)
EXTENDS MLXEngine, FiniteSetTheorems, SequenceTheorems, WellFoundedInduction, TLAPS

-----------------------------------------------------------------------------
(* Numbers, and functions by recursion on them.                            *)

\* A set of numbers with 0, and with n + 1 for each n of its own, has them all.
LEMMA AllNaturals ==
  ASSUME NEW S, S \subseteq Nat, 0 \in S, \A n \in S : n + 1 \in S
  PROVE  S = Nat
  <1> DEFINE T == Nat \ S
             R == OpToRel(<, Nat)
  <1> SUFFICES ASSUME T # {} PROVE FALSE
    OBVIOUS
  <1>1. PICK n \in T : \A m \in T : ~ (<<m, n>> \in R)
    <2>1. IsWellFoundedOn(R, Nat) /\ T \subseteq Nat
      BY NatLessThanWellFounded
    <2> HIDE DEF R, T
    <2> QED
      BY <2>1, WFMin
  <1>2. n \in Nat \ {0} /\ n - 1 \in Nat
    OBVIOUS
  <1>3. n - 1 \notin S
    BY <1>2
  <1>4. <<n - 1, n>> \in Nat \X Nat /\ <<n - 1, n>>[1] = n - 1 /\ <<n - 1, n>>[2] = n
    BY <1>2
  <1>5. <<n - 1, n>> \in R
    BY <1>2, <1>4 DEF OpToRel
  <1> QED
    BY <1>1, <1>2, <1>3, <1>5

\* f begins at c, and each value is g's of the one before.
Follows(f, n, c, g) == f = [k \in 0 .. n |-> IF k = 0 THEN c ELSE g[k][f[k - 1]]]

\* When each step leads from what holds before it to what holds after it, the
\* function there is by recursion has what holds at each number.
LEMMA Recursion ==
  ASSUME NEW n \in Nat, NEW X, NEW c \in X[0], NEW g,
         \A k \in 1 .. n : \A x \in X[k - 1] : g[k][x] \in X[k]
  PROVE  \E f : Follows(f, n, c, g) /\ \A k \in 0 .. n : f[k] \in X[k]
  <1> DEFINE Is(f, m) == Follows(f, m, c, g) /\ \A k \in 0 .. m : f[k] \in X[k]
             Far == {m \in Nat : m <= n => \E f : Is(f, m)}
  <1>1. 0 \in Far
    <2> DEFINE f == [k \in 0 .. 0 |-> c]
    <2>1. \A k \in 0 .. 0 : k = 0 /\ f[k] = c
      OBVIOUS
    <2>2. f = [k \in 0 .. 0 |-> IF k = 0 THEN c ELSE g[k][f[k - 1]]]
      BY <2>1
    <2>3. Is(f, 0)
      <3> HIDE DEF f
      <3> QED
        BY <2>1, <2>2 DEF Follows
    <2> HIDE DEF f, Is
    <2> QED
      BY <2>3
  <1>2. ASSUME NEW m \in Far PROVE m + 1 \in Far
    <2>0. m \in Nat /\ m + 1 \in Nat /\ (m <= n => \E f : Is(f, m))
      OBVIOUS
    <2>1. ASSUME m + 1 <= n PROVE \E f : Is(f, m + 1)
      <3>1. m <= n /\ m + 1 \in 1 .. n /\ (m + 1) - 1 = m
        BY <2>0, <2>1
      <3>2. PICK f : Is(f, m)
        BY <2>0, <3>1
      <3>3. /\ \A k \in 0 .. m : f[k] = IF k = 0 THEN c ELSE g[k][f[k - 1]]
            /\ \A k \in 0 .. m : f[k] \in X[k]
        <4>1. f = [k \in 0 .. m |-> IF k = 0 THEN c ELSE g[k][f[k - 1]]]
          BY <3>2 DEF Follows
        <4> QED
          BY <3>2, <4>1
      <3>4. g[m + 1][f[m]] \in X[m + 1]
        BY <2>0, <3>1, <3>3
      <3> DEFINE h == [k \in 0 .. m + 1 |-> IF k = m + 1 THEN g[k][f[m]] ELSE f[k]]
      <3>5. h[m + 1] = g[m + 1][f[m]] /\ \A k \in 0 .. m : h[k] = f[k]
        BY <2>0
      <3>6. h = [k \in 0 .. m + 1 |-> h[k]]
        OBVIOUS
      <3> HIDE DEF h
      <3>7. ASSUME NEW k \in 0 .. m + 1
            PROVE  h[k] = (IF k = 0 THEN c ELSE g[k][h[k - 1]]) /\ h[k] \in X[k]
        <4>1. CASE k = m + 1
          <5>1. k # 0 /\ k - 1 = m /\ m \in 0 .. m
            BY <2>0, <4>1
          <5> QED
            BY <3>4, <3>5, <4>1, <5>1
        <4>2. CASE k # m + 1
          <5>1. k \in 0 .. m /\ (k # 0 => k - 1 \in 0 .. m)
            BY <2>0, <4>2
          <5> QED
            BY <3>3, <3>5, <5>1
        <4> QED
          BY <4>1, <4>2
      <3>8. h = [k \in 0 .. m + 1 |-> IF k = 0 THEN c ELSE g[k][h[k - 1]]]
        BY <3>6, <3>7
      <3>9. Is(h, m + 1)
        BY <3>7, <3>8 DEF Follows
      <3> HIDE DEF Is
      <3> QED
        BY <3>9
    <2> HIDE DEF Is
    <2> QED
      BY <2>0, <2>1
  <1>3. Far = Nat
    <2>1. Far \subseteq Nat
      OBVIOUS
    <2> HIDE DEF Far
    <2> QED
      BY <1>1, <1>2, <2>1, AllNaturals
  <1>4. n \in Far
    <2> HIDE DEF Far
    <2> QED
      BY <1>3
  <1> HIDE DEF Is
  <1>5. n <= n
    OBVIOUS
  <1>6. \E f : Is(f, n)
    BY <1>4, <1>5
  <1> QED
    BY <1>6 DEF Is

\* What each number passes on to the next, they all have.
LEMMA PassedOn ==
  ASSUME NEW n \in Nat, NEW X, NEW f, f[0] \in X[0],
         \A k \in 1 .. n : f[k - 1] \in X[k - 1] => f[k] \in X[k]
  PROVE  \A k \in 0 .. n : f[k] \in X[k]
  <1> DEFINE Far == {m \in Nat : m <= n => f[m] \in X[m]}
  <1>1. 0 \in Far
    OBVIOUS
  <1>2. ASSUME NEW m \in Far PROVE m + 1 \in Far
    <2> SUFFICES ASSUME m + 1 <= n PROVE f[m + 1] \in X[m + 1]
      OBVIOUS
    <2>1. m \in Nat /\ m <= n /\ m + 1 \in 1 .. n /\ (m + 1) - 1 = m
      OBVIOUS
    <2>2. f[m] \in X[m]
      BY <2>1
    <2> QED
      BY <2>1, <2>2
  <1>3. Far = Nat
    <2>1. Far \subseteq Nat
      OBVIOUS
    <2> HIDE DEF Far
    <2> QED
      BY <1>1, <1>2, <2>1, AllNaturals
  <1> SUFFICES ASSUME NEW k \in 0 .. n PROVE f[k] \in X[k]
    OBVIOUS
  <1>4. k \in Nat /\ k <= n
    OBVIOUS
  <1>5. k \in Far
    <2> HIDE DEF Far
    <2> QED
      BY <1>3, <1>4
  <1> QED
    BY <1>4, <1>5

\* Rounding up makes a buffer no shorter.
LEMMA RoundUpIs ==
  ASSUME NEW n \in Nat
  PROVE  RoundUp(n) \in Nat /\ n <= RoundUp(n)
  <1>1. kvStep \in Nat \ {0}
    BY StepAssumption
  <1> DEFINE a == n + kvStep - 1
             q == a \div kvStep
  <1>2. a \in Nat
    BY <1>1
  <1>3. q \in Nat /\ a < kvStep * q + kvStep
    <2> HIDE DEF a
    <2> QED
      BY <1>1, <1>2
  <1> HIDE DEF q
  <1>4. q * kvStep = kvStep * q /\ q * kvStep \in Nat
    BY <1>1, <1>3
  <1>5. RoundUp(n) = q * kvStep
    BY DEF RoundUp, q
  <1> DEFINE p == q * kvStep
  <1>6. p \in Nat /\ n + kvStep - 1 < p + kvStep
    BY <1>3, <1>4
  <1>7. RoundUp(n) = p
    BY <1>5
  <1> HIDE DEF p
  <1> QED
    BY <1>1, <1>6, <1>7

\* One sequence after another.
LEMMA Joined ==
  ASSUME NEW S, NEW a \in Seq(S), NEW b \in Seq(S)
  PROVE  /\ a \o b \in Seq(S)
         /\ Len(a \o b) = Len(a) + Len(b)
         /\ \A i \in 1 .. Len(a) : (a \o b)[i] = a[i]
         /\ \A i \in 1 .. Len(b) : (a \o b)[Len(a) + i] = b[i]
  <1>1. a \o b \in Seq(S) /\ Len(a \o b) = Len(a) + Len(b)
    BY ConcatProperties, SMT
  <1>2. \A i \in 1 .. Len(a) + Len(b) :
            (a \o b)[i] = IF i <= Len(a) THEN a[i] ELSE b[i - Len(a)]
    BY ConcatProperties, SMT
  <1>3. Len(a) \in Nat /\ Len(b) \in Nat
    BY LenProperties
  <1>4. ASSUME NEW i \in 1 .. Len(a) PROVE (a \o b)[i] = a[i]
    <2>1. i \in 1 .. Len(a) + Len(b) /\ i <= Len(a)
      BY <1>3
    <2> QED
      BY <1>2, <2>1
  <1>5. ASSUME NEW i \in 1 .. Len(b) PROVE (a \o b)[Len(a) + i] = b[i]
    <2>1. Len(a) + i \in 1 .. Len(a) + Len(b) /\ ~(Len(a) + i <= Len(a)) /\ (Len(a) + i) - Len(a) = i
      BY <1>3
    <2> QED
      BY <1>2, <2>1
  <1> QED
    BY <1>1, <1>4, <1>5

\* Columns from + 1 .. to of buf lie after the first `start`, in `cap` of them.
Lies(p, buf, from, to, start, cap) ==
    /\ p \in Seq(Nat) /\ Len(p) = cap
    /\ \A i \in 1 .. to - from : p[start + i] = buf[from + i]

\* The columns that are kept lie where they are put.
LEMMA PlaceIs ==
  ASSUME NEW buf \in Seq(Nat), NEW from \in Nat, NEW to \in Nat, NEW start \in Nat, NEW cap \in Nat,
         from <= to, to <= Len(buf), start + (to - from) <= cap
  PROVE  Lies(Place(buf, from, to, start, cap), buf, from, to, start, cap)
  <1> DEFINE mid == SubSeq(buf, from + 1, to)
             lead == Blanks(start)
             tail == Blanks(cap - start - (to - from))
  <1>1. mid \in Seq(Nat) /\ Len(mid) = to - from /\ \A i \in 1 .. to - from : mid[i] = buf[from + i]
    <2> DEFINE m == from + 1
    <2>1. m \in 1 .. Len(buf) + 1 /\ to \in m - 1 .. Len(buf)
      OBVIOUS
    <2> HIDE DEF m, mid, lead, tail
    <2>2. /\ SubSeq(buf, m, to) \in Seq(Nat)
          /\ Len(SubSeq(buf, m, to)) = IF m <= to THEN to - m + 1 ELSE 0
          /\ \A i \in 1 .. to - m + 1 : SubSeq(buf, m, to)[i] = buf[m + i - 1]
      <3>1. m \in Int /\ to \in Int /\ \A i \in m .. to : buf[i] \in Nat
        BY <2>1
      <3> QED
        BY <3>1, SubSeqProperties
    <2>3. to - m + 1 = to - from /\ (\A i \in Nat : m + i - 1 = from + i)
          /\ (IF m <= to THEN to - m + 1 ELSE 0) = to - from
      BY DEF m
    <2>4. mid = SubSeq(buf, m, to)
      BY DEF m, mid
    <2>5. Len(mid) = to - from /\ mid \in Seq(Nat)
      BY <2>2, <2>3, <2>4
    <2>6. ASSUME NEW i \in 1 .. to - from PROVE mid[i] = buf[from + i]
      <3>1. i \in Nat /\ i \in 1 .. to - m + 1
        BY <2>3
      <3>2. m + i - 1 = from + i
        BY <2>3, <3>1
      <3> QED
        BY <2>2, <2>4, <3>1, <3>2
    <2> QED
      BY <2>5, <2>6
  <1>2. lead \in Seq(Nat) /\ Len(lead) = start
    BY DEF Blanks, Blank
  <1>3. tail \in Seq(Nat) /\ Len(tail) = cap - start - (to - from)
    <2>1. cap - start - (to - from) \in Nat
      OBVIOUS
    <2> QED
      BY <2>1 DEF Blanks, Blank
  <1>4. Place(buf, from, to, start, cap) = (lead \o mid) \o tail
    BY DEF Place
  <1> HIDE DEF lead, mid, tail
  <1> DEFINE both == lead \o mid
  <1>5. both \in Seq(Nat) /\ Len(both) = start + (to - from)
    BY <1>1, <1>2, Joined
  <1>6. \A i \in 1 .. to - from : both[start + i] = mid[i]
    <2>0. lead \in Seq(Nat) /\ mid \in Seq(Nat)
      BY <1>1, <1>2
    <2>1. \A i \in 1 .. Len(mid) : (lead \o mid)[Len(lead) + i] = mid[i]
      BY <2>0, Joined
    <2>2. both = lead \o mid
      OBVIOUS
    <2> HIDE DEF both
    <2> QED
      BY <1>1, <1>2, <2>1, <2>2
  <1>7. Place(buf, from, to, start, cap) = both \o tail
    BY <1>4
  <1> HIDE DEF both
  <1>8. both \o tail \in Seq(Nat) /\ Len(both \o tail) = cap
    <2>1. both \o tail \in Seq(Nat) /\ Len(both \o tail) = Len(both) + Len(tail)
      BY <1>3, <1>5, Joined
    <2> QED
      BY <1>3, <1>5, <2>1
  <1>9. ASSUME NEW i \in 1 .. to - from PROVE (both \o tail)[start + i] = both[start + i]
    <2>1. start + i \in 1 .. Len(both)
      BY <1>5
    <2> QED
      BY <1>3, <1>5, <2>1, Joined
  <1> QED
    BY <1>1, <1>6, <1>7, <1>8, <1>9 DEF Lies

\* A write changes what it writes, and leaves what lies before.
LEMMA WrittenIs ==
  ASSUME NEW buf \in Seq(Nat), NEW start \in Nat, NEW toks \in Seq(Nat)
  PROVE  /\ Written(buf, start, toks) \in Seq(Nat)
         /\ Len(Written(buf, start, toks)) = Len(buf)
         /\ \A c \in 1 .. Len(buf) : c <= start => Written(buf, start, toks)[c] = buf[c]
         /\ \A i \in 1 .. Len(toks) :
                start + i <= Len(buf) => Written(buf, start, toks)[start + i] = toks[i]
  <1> DEFINE w == [c \in 1 .. Len(buf) |->
                      IF c \in start + 1 .. start + Len(toks) THEN toks[c - start] ELSE buf[c]]
  <1>1. \A c \in 1 .. Len(buf) : w[c] \in Nat
    OBVIOUS
  <1>2. w \in Seq(Nat) /\ Len(w) = Len(buf)
    BY <1>1
  <1>3. \A i \in 1 .. Len(toks) : start + i <= Len(buf) => w[start + i] = toks[i]
    <2> SUFFICES ASSUME NEW i \in 1 .. Len(toks), start + i <= Len(buf) PROVE w[start + i] = toks[i]
      OBVIOUS
    <2> DEFINE c == start + i
    <2>1. c \in 1 .. Len(buf) /\ c \in start + 1 .. start + Len(toks) /\ c - start = i
      OBVIOUS
    <2> HIDE DEF c
    <2>2. w[c] = toks[i]
      BY <2>1
    <2> QED
      BY <2>2 DEF c
  <1>4. \A c \in 1 .. Len(buf) : c <= start => w[c] = buf[c]
    OBVIOUS
  <1> QED
    BY <1>2, <1>3, <1>4 DEF Written

LEMMA BlanksAre == \A n \in Nat : Blanks(n) \in Seq(Nat) /\ Len(Blanks(n)) = n
  BY DEF Blanks, Blank

\* Two texts of one length with the same tokens are the same.
LEMMA SameText ==
  ASSUME NEW s \in Seq(Nat), NEW t \in Seq(Nat), Len(s) = Len(t), \A i \in 1 .. Len(s) : s[i] = t[i]
  PROVE  s = t
  BY SeqEqual

LEMMA BeginningIs ==
  ASSUME NEW s \in Seq(Nat), NEW n \in 0 .. Len(s)
  PROVE  /\ SubSeq(s, 1, n) \in Seq(Nat) /\ Len(SubSeq(s, 1, n)) = n
         /\ \A i \in 1 .. n : SubSeq(s, 1, n)[i] = s[i]
  OBVIOUS

\* A text read on to m.
LEMMA ReadOn ==
  ASSUME NEW s \in Seq(Nat), NEW n \in 0 .. Len(s), NEW m \in n .. Len(s)
  PROVE  /\ SubSeq(s, 1, n) \o SubSeq(s, n + 1, m) = SubSeq(s, 1, m)
         /\ SubSeq(s, n + 1, m) \in Seq(Nat) /\ Len(SubSeq(s, n + 1, m)) = m - n
  <1>1. 1 \in 1 .. Len(s) + 1 /\ n \in 1 - 1 .. Len(s)
    OBVIOUS
  <1>2. SubSeq(s, 1, n) \o SubSeq(s, n + 1, m) = SubSeq(s, 1, m)
    BY <1>1, ConcatAdjacentSubSeq
  <1> QED
    BY <1>2

LEMMA Together ==
  ASSUME NEW a \in Seq(Nat), NEW b \in Seq(Nat), NEW c \in Seq(Nat)
  PROVE  (a \o b) \o c = a \o (b \o c)
  BY ConcatAssociative

-----------------------------------------------------------------------------
(* The operators by recursion.                                             *)

\* The model writes a token, whatever it has read.
LEMMA ModelIs ==
  ASSUME NEW keys \in Seq(Nat), NEW state \in Seq(Nat)
  PROVE  Model(keys, state) \in Nat
  <1> DEFINE text == keys \o state
             n == Len(text)
             h == CHOOSE f : f = [i \in 0 .. n |-> IF i = 0 THEN 1 ELSE (7 * f[i - 1] + text[i] + 1) % 241]
             g == [i \in 1 .. n |-> [x \in Nat |-> (7 * x + text[i] + 1) % 241]]
             X == [i \in 0 .. n |-> Nat]
  <1>1. n \in Nat /\ \A i \in 1 .. n : text[i] \in Nat
    <2>1. text \in Seq(Nat)
      OBVIOUS
    <2> HIDE DEF text
    <2> QED
      BY <2>1
  <1>2. \A i \in 1 .. n : \A x \in Nat : g[i][x] = (7 * x + text[i] + 1) % 241
    <2> HIDE DEF n, text
    <2> QED
      OBVIOUS
  <1>3. \A i \in 1 .. n : \A x \in Nat : (7 * x + text[i] + 1) % 241 \in Nat
    <2> HIDE DEF n, text
    <2> QED
      BY <1>1
  <1>4. \A i \in 0 .. n : X[i] = Nat
    OBVIOUS
  <1>5. 0 \in 0 .. n /\ \A i \in 1 .. n : i - 1 \in 0 .. n /\ i \in 0 .. n
    BY <1>1
  <1>6. Model(keys, state) = 1 + h[n]
    BY DEF Model
  <1> HIDE DEF n, text, g, X
  <1>7. 1 \in X[0] /\ \A i \in 1 .. n : \A x \in X[i - 1] : g[i][x] \in X[i]
    <2>1. ASSUME NEW i \in 1 .. n, NEW x \in X[i - 1] PROVE g[i][x] \in X[i]
      <3>1. X[i - 1] = Nat /\ X[i] = Nat
        BY <1>4, <1>5
      <3>2. x \in Nat
        BY <3>1
      <3>3. g[i][x] = (7 * x + text[i] + 1) % 241
        BY <1>2, <3>2
      <3>4. (7 * x + text[i] + 1) % 241 \in Nat
        BY <1>3, <3>2
      <3> QED
        BY <3>1, <3>3, <3>4, Zenon
    <2> QED
      BY <1>4, <1>5, <2>1
  <1>8. PICK f : Follows(f, n, 1, g) /\ \A i \in 0 .. n : f[i] \in X[i]
    BY <1>1, <1>7, Recursion
  <1>9. f = [i \in 0 .. n |-> IF i = 0 THEN 1 ELSE g[i][f[i - 1]]]
    BY <1>8 DEF Follows
  <1>10. f = [i \in 0 .. n |-> IF i = 0 THEN 1 ELSE (7 * f[i - 1] + text[i] + 1) % 241]
    <2>1. ASSUME NEW i \in 0 .. n, i # 0 PROVE g[i][f[i - 1]] = (7 * f[i - 1] + text[i] + 1) % 241
      <3>1. i \in 1 .. n /\ i - 1 \in 0 .. n
        BY <1>1, <2>1
      <3>2. f[i - 1] \in Nat
        BY <1>4, <1>8, <3>1
      <3> QED
        BY <1>2, <3>1, <3>2
    <2> QED
      BY <1>9, <2>1
  <1>11. h = [i \in 0 .. n |-> IF i = 0 THEN 1 ELSE (7 * h[i - 1] + text[i] + 1) % 241]
    BY <1>10
  <1> HIDE DEF h
  <1>12. \A i \in 0 .. n : h[i] = IF i = 0 THEN 1 ELSE (7 * h[i - 1] + text[i] + 1) % 241
    BY <1>11
  <1>13. \A i \in 0 .. n : h[i] \in X[i]
    <2>1. h[0] \in X[0]
      BY <1>4, <1>5, <1>12
    <2>2. ASSUME NEW i \in 1 .. n, h[i - 1] \in X[i - 1] PROVE h[i] \in X[i]
      <3>1. i # 0 /\ i \in 0 .. n /\ i - 1 \in 0 .. n
        BY <1>5
      <3>2. h[i] = (7 * h[i - 1] + text[i] + 1) % 241 /\ h[i - 1] \in Nat
        BY <1>4, <1>12, <2>2, <3>1
      <3> QED
        BY <1>3, <1>4, <3>1, <3>2
    <2> QED
      BY <1>1, <2>1, <2>2, PassedOn
  <1>14. h[n] \in Nat
    BY <1>1, <1>4, <1>13
  <1> QED
    BY <1>6, <1>14

\* The rows that stay, in their order.
Staying(b, r) == {q \in 1 .. r : ~b.free[q]}
Ascends(s) == \A i, k \in DOMAIN s : i < k => s[i] < s[k]

\* The rows that stay are those in use, in their order.
LEMMA KeptIs ==
  ASSUME NEW b, Width(b) \in Nat
  PROVE  Kept(b) \in Seq(Nat) /\ ToSet(Kept(b)) = LiveRows(b) /\ Ascends(Kept(b))
  <1> DEFINE n == Width(b)
             h == CHOOSE f : f = [r \in 0 .. n |-> IF r = 0 THEN <<>>
                                   ELSE IF b.free[r] THEN f[r - 1] ELSE Append(f[r - 1], r)]
             X == [r \in 0 .. n |-> {s \in Seq(Nat) : ToSet(s) = Staying(b, r) /\ Ascends(s)}]
             g == [r \in 1 .. n |-> [x \in X[r - 1] |-> IF b.free[r] THEN x ELSE Append(x, r)]]
  <1>1. n \in Nat /\ 0 \in 0 .. n /\ n \in 0 .. n
    OBVIOUS
  <1>2. \A r \in 0 .. n : X[r] = {s \in Seq(Nat) : ToSet(s) = Staying(b, r) /\ Ascends(s)}
    OBVIOUS
  <1>3. \A r \in 1 .. n : \A x \in X[r - 1] : g[r][x] = IF b.free[r] THEN x ELSE Append(x, r)
    <2> HIDE DEF n, X
    <2> QED
      OBVIOUS
  <1>4. Kept(b) = h[n]
    BY DEF Kept
  <1> HIDE DEF n, X, g
  <1>5. <<>> \in X[0]
    <2>1. <<>> \in Seq(Nat) /\ DOMAIN <<>> = {} /\ Staying(b, 0) = {}
      BY DEF Staying
    <2>2. ToSet(<<>>) = Staying(b, 0) /\ Ascends(<<>>)
      BY <2>1 DEF ToSet, Ascends
    <2> QED
      BY <1>1, <1>2, <2>1, <2>2
  <1>6. ASSUME NEW r \in 1 .. n, NEW x \in X[r - 1]
        PROVE  (IF b.free[r] THEN x ELSE Append(x, r)) \in X[r]
    <2>1. r \in Nat /\ r - 1 \in 0 .. n /\ r \in 0 .. n
      BY <1>1
    <2>2. x \in Seq(Nat) /\ ToSet(x) = Staying(b, r - 1) /\ Ascends(x)
      BY <1>2, <2>1
    <2>3. CASE b.free[r]
      <3>1. Staying(b, r) = Staying(b, r - 1)
        BY <2>1, <2>3 DEF Staying
      <3> QED
        BY <1>2, <2>1, <2>2, <2>3, <3>1
    <2>4. CASE ~b.free[r]
      <3> DEFINE y == Append(x, r)
      <3>1. Staying(b, r) = Staying(b, r - 1) \cup {r} /\ \A q \in Staying(b, r - 1) : q < r
        BY <2>1, <2>4 DEF Staying
      <3>2. /\ y \in Seq(Nat) /\ Len(y) = Len(x) + 1 /\ y[Len(x) + 1] = r
            /\ \A i \in 1 .. Len(x) : y[i] = x[i]
        BY <2>1, <2>2
      <3>3. DOMAIN x = 1 .. Len(x) /\ DOMAIN y = 1 .. Len(y) /\ Len(x) \in Nat
        BY <2>2, <3>2
      <3> HIDE DEF y
      <3>4. ToSet(y) = ToSet(x) \cup {r}
        <4>1. \A i \in DOMAIN y : i \in DOMAIN x \/ i = Len(x) + 1
          BY <3>2, <3>3
        <4>2. \A i \in DOMAIN x : i \in DOMAIN y
          BY <3>2, <3>3
        <4>3. Len(x) + 1 \in DOMAIN y
          BY <3>2, <3>3
        <4> QED
          BY <3>2, <3>3, <4>1, <4>2, <4>3 DEF ToSet
      <3>5. Ascends(y)
        <4> SUFFICES ASSUME NEW i \in DOMAIN y, NEW k \in DOMAIN y, i < k PROVE y[i] < y[k]
          BY DEF Ascends
        <4>1. i \in 1 .. Len(x) /\ i \in DOMAIN x /\ y[i] = x[i]
          BY <3>2, <3>3
        <4>2. CASE k \in 1 .. Len(x)
          BY <2>2, <3>2, <3>3, <4>1, <4>2 DEF Ascends
        <4>3. CASE k = Len(x) + 1
          <5>1. x[i] \in Staying(b, r - 1)
            BY <2>2, <4>1 DEF ToSet
          <5> QED
            BY <3>1, <3>2, <4>1, <4>3, <5>1
        <4> QED
          BY <3>2, <3>3, <4>2, <4>3
      <3>6. y \in X[r]
        <4>1. y \in Seq(Nat) /\ ToSet(y) = Staying(b, r)
          BY <2>2, <3>1, <3>2, <3>4
        <4> QED
          BY <1>2, <2>1, <3>5, <4>1, Zenon
      <3> QED
        BY <2>4, <3>6 DEF y
    <2> QED
      BY <2>3, <2>4
  <1>7. PICK f : Follows(f, n, <<>>, g) /\ \A r \in 0 .. n : f[r] \in X[r]
    <2>1. \A r \in 1 .. n : \A x \in X[r - 1] : g[r][x] \in X[r]
      BY <1>3, <1>6
    <2> QED
      BY <1>1, <1>5, <2>1, Recursion
  <1>8. f = [r \in 0 .. n |-> IF r = 0 THEN <<>> ELSE g[r][f[r - 1]]]
    BY <1>7 DEF Follows
  <1>9. f = [r \in 0 .. n |-> IF r = 0 THEN <<>>
                              ELSE IF b.free[r] THEN f[r - 1] ELSE Append(f[r - 1], r)]
    <2>1. ASSUME NEW r \in 0 .. n, r # 0
          PROVE  g[r][f[r - 1]] = IF b.free[r] THEN f[r - 1] ELSE Append(f[r - 1], r)
      <3>1. r \in 1 .. n /\ r - 1 \in 0 .. n
        BY <1>1, <2>1
      <3> QED
        BY <1>3, <1>7, <3>1
    <2> QED
      BY <1>8, <2>1
  <1>10. h = [r \in 0 .. n |-> IF r = 0 THEN <<>>
                               ELSE IF b.free[r] THEN h[r - 1] ELSE Append(h[r - 1], r)]
    BY <1>9
  <1> HIDE DEF h
  <1>11. \A r \in 0 .. n : h[r] \in X[r]
    <2>1. h[0] \in X[0]
      BY <1>1, <1>5, <1>10
    <2>2. ASSUME NEW r \in 1 .. n, h[r - 1] \in X[r - 1] PROVE h[r] \in X[r]
      <3>1. r # 0 /\ r \in 0 .. n
        BY <1>1
      <3>2. h[r] = IF b.free[r] THEN h[r - 1] ELSE Append(h[r - 1], r)
        BY <1>10, <3>1
      <3> QED
        BY <1>6, <2>2, <3>2
    <2> QED
      BY <1>1, <2>1, <2>2, PassedOn
  <1>12. h[n] \in Seq(Nat) /\ ToSet(h[n]) = Staying(b, n) /\ Ascends(h[n])
    BY <1>1, <1>2, <1>11
  <1>13. Staying(b, n) = LiveRows(b)
    BY DEF Staying, LiveRows, n
  <1> QED
    BY <1>4, <1>12, <1>13

-----------------------------------------------------------------------------
(* A cache that has read a text.                                           *)

CacheSet == [keys : Seq(Nat), state : Seq(Nat), offset : Nat,
             drafting : BOOLEAN, head : {"none", "live", "freed"}, headOffset : Nat]

Holds(c, text) ==
    /\ c \in CacheSet /\ text \in Seq(Nat)
    /\ c.state = text /\ c.offset = Len(text)
    /\ c.offset <= Len(c.keys) /\ c.headOffset <= c.offset
    /\ \A i \in 1 .. Len(text) : c.keys[i] = text[i]

\* What a cache that has read a text says it has read.
LEMMA HoldsIs ==
  ASSUME NEW c, NEW text, Holds(c, text)
  PROVE  IsCache(c) /\ Keys(c) = text /\ c.state = text
  <1>1. /\ c.keys \in Seq(Nat) /\ c.offset \in Nat /\ c.headOffset \in Nat /\ text \in Seq(Nat)
        /\ c.offset = Len(text) /\ c.offset \in 0 .. Len(c.keys)
    BY DEF Holds, CacheSet
  <1>2. IsCache(c)
    BY <1>1 DEF Holds, IsCache
  <1>3. Keys(c) \in Seq(Nat) /\ Len(Keys(c)) = Len(text) /\ \A i \in 1 .. Len(text) : Keys(c)[i] = text[i]
    <2>1. /\ SubSeq(c.keys, 1, c.offset) \in Seq(Nat) /\ Len(SubSeq(c.keys, 1, c.offset)) = c.offset
          /\ \A i \in 1 .. c.offset : SubSeq(c.keys, 1, c.offset)[i] = c.keys[i]
      BY <1>1, BeginningIs
    <2> QED
      BY <1>1, <2>1 DEF Keys, Holds
  <1>4. Keys(c) = text
    BY <1>1, <1>3, SameText
  <1> QED
    BY <1>2, <1>4 DEF Holds

LEMMA NewHolds == \A d \in BOOLEAN : Holds([NewCache EXCEPT !.drafting = d], <<>>)
  <1> SUFFICES ASSUME NEW d \in BOOLEAN PROVE Holds([NewCache EXCEPT !.drafting = d], <<>>)
    OBVIOUS
  <1> DEFINE c == [NewCache EXCEPT !.drafting = d]
  <1>1. c = [keys |-> <<>>, state |-> <<>>, offset |-> 0, drafting |-> d, head |-> "none", headOffset |-> 0]
    BY DEF NewCache
  <1>2. <<>> \in Seq(Nat) /\ Len(<<>>) = 0
    OBVIOUS
  <1> HIDE DEF c
  <1>3. c \in CacheSet
    BY <1>1, <1>2 DEF CacheSet
  <1>4. Holds(c, <<>>)
    BY <1>1, <1>2, <1>3 DEF Holds
  <1> QED
    BY <1>4 DEF c

\* A pooled cache taken over whole has read the same.
LEMMA Adopted ==
  ASSUME NEW c, NEW text, Holds(c, text), NEW d \in BOOLEAN
  PROVE  Holds([c EXCEPT !.drafting = d], text)
  BY DEF Holds, CacheSet

\* A cache reads on, whether or not its buffer must grow.
LEMMA ReadHolds ==
  ASSUME NEW c, NEW text, Holds(c, text), NEW toks \in Seq(Nat)
  PROVE  Holds(Read(c, toks), text \o toks)
  <1> DEFINE end == c.offset + Len(toks)
             room == IF Len(c.keys) < end THEN Place(c.keys, 0, c.offset, 0, RoundUp(end)) ELSE c.keys
             keys == Written(room, c.offset, toks)
             both == text \o toks
  <1>1. /\ c.keys \in Seq(Nat) /\ c.state \in Seq(Nat) /\ c.offset \in Nat /\ c.headOffset \in Nat
        /\ c.head \in {"none", "live", "freed"} /\ c.drafting \in BOOLEAN
        /\ text \in Seq(Nat) /\ c.state = text /\ c.offset = Len(text) /\ c.offset <= Len(c.keys)
        /\ c.headOffset <= c.offset /\ \A i \in 1 .. Len(text) : c.keys[i] = text[i]
    BY DEF Holds, CacheSet
  <1>2. end \in Nat /\ Len(toks) \in Nat /\ c.offset <= end
    BY <1>1
  <1>3. both \in Seq(Nat) /\ Len(both) = end /\ (\A i \in 1 .. Len(text) : both[i] = text[i])
        /\ (\A i \in 1 .. Len(toks) : both[Len(text) + i] = toks[i])
    BY <1>1, Joined
  <1>4. /\ room \in Seq(Nat) /\ end <= Len(room) /\ \A i \in 1 .. Len(text) : room[i] = text[i]
    <2>1. CASE Len(c.keys) < end
      <3>1. RoundUp(end) \in Nat /\ end <= RoundUp(end)
        BY <1>2, RoundUpIs
      <3> DEFINE p == Place(c.keys, 0, c.offset, 0, RoundUp(end))
      <3>2. /\ c.keys \in Seq(Nat) /\ 0 \in Nat /\ c.offset \in Nat /\ RoundUp(end) \in Nat
            /\ 0 <= c.offset /\ c.offset <= Len(c.keys) /\ 0 + (c.offset - 0) <= RoundUp(end)
        BY <1>1, <1>2, <3>1
      <3>3. Lies(p, c.keys, 0, c.offset, 0, RoundUp(end))
        <4> HIDE DEF end
        <4> QED
          BY <3>2, PlaceIs
      <3>6. p \in Seq(Nat) /\ Len(p) = RoundUp(end) /\ \A i \in 1 .. c.offset : p[i] = c.keys[i]
        <4> HIDE DEF end, p
        <4> QED
          BY <3>2, <3>3 DEF Lies
      <3>4. room = p
        BY <2>1
      <3> HIDE DEF p, room
      <3>5. \A i \in 1 .. Len(text) : room[i] = text[i]
        BY <1>1, <3>4, <3>6
      <3> QED
        BY <3>1, <3>4, <3>5, <3>6
    <2>2. CASE ~(Len(c.keys) < end)
      BY <1>1, <1>2, <2>2
    <2> QED
      BY <2>1, <2>2
  <1> HIDE DEF room
  <1>5. /\ keys \in Seq(Nat) /\ Len(keys) = Len(room)
        /\ \A i \in 1 .. Len(room) : i <= c.offset => keys[i] = room[i]
        /\ \A i \in 1 .. Len(toks) : c.offset + i <= Len(room) => keys[c.offset + i] = toks[i]
    BY <1>1, <1>4, WrittenIs
  <1>6. Read(c, toks) = [keys |-> keys, state |-> both, offset |-> end, drafting |-> c.drafting,
                         head |-> IF c.drafting THEN "live" ELSE IF c.head = "none" THEN "none" ELSE "freed",
                         headOffset |-> IF c.drafting THEN c.headOffset + Len(toks) ELSE c.headOffset]
    <2>1. c \in CacheSet
      BY DEF Holds
    <2> DEFINE head == IF c.drafting THEN "live" ELSE IF c.head = "none" THEN "none" ELSE "freed"
               headOffset == IF c.drafting THEN c.headOffset + Len(toks) ELSE c.headOffset
    <2>2. Read(c, toks) = [c EXCEPT !.keys = keys, !.state = both, !.offset = end,
                                    !.head = head, !.headOffset = headOffset]
      BY <1>1, <2>1 DEF Read, CacheSet, room
    <2> HIDE DEF keys, both, end, head, headOffset
    <2>3. Read(c, toks) = [keys |-> keys, state |-> both, offset |-> end, drafting |-> c.drafting,
                           head |-> head, headOffset |-> headOffset]
      BY <2>1, <2>2 DEF CacheSet
    <2> QED
      BY <2>3 DEF head, headOffset
  <1> HIDE DEF keys, both
  <1>7. \A i \in 1 .. Len(both) : keys[i] = both[i]
    <2> SUFFICES ASSUME NEW i \in 1 .. Len(both) PROVE keys[i] = both[i]
      OBVIOUS
    <2>1. CASE i <= Len(text)
      <3>1. i \in 1 .. Len(text) /\ i \in 1 .. Len(room) /\ i <= c.offset
        BY <1>1, <1>2, <1>3, <1>4, <2>1
      <3> QED
        BY <1>3, <1>4, <1>5, <3>1
    <2>2. CASE ~(i <= Len(text))
      <3> DEFINE k == i - Len(text)
      <3>1. k \in 1 .. Len(toks) /\ c.offset + k = i /\ c.offset + k <= Len(room) /\ Len(text) + k = i
        BY <1>1, <1>2, <1>3, <1>4, <2>2
      <3> HIDE DEF k
      <3> QED
        BY <1>3, <1>5, <3>1
    <2> QED
      BY <2>1, <2>2
  <1>8. end <= Len(keys)
    BY <1>4, <1>5
  <1>9. /\ (IF c.drafting THEN c.headOffset + Len(toks) ELSE c.headOffset) \in Nat
        /\ (IF c.drafting THEN c.headOffset + Len(toks) ELSE c.headOffset) <= end
    BY <1>1, <1>2
  <1> HIDE DEF end
  <1>10. Read(c, toks) \in CacheSet
    BY <1>1, <1>2, <1>3, <1>5, <1>6, <1>9 DEF CacheSet
  <1> QED
    BY <1>2, <1>3, <1>6, <1>7, <1>8, <1>9, <1>10 DEF Holds, both

\* Back to what a reply keeps of a pass.
LEMMA KeepHolds ==
  ASSUME NEW mark, NEW text, Holds(mark, text), NEW toks \in Seq(Nat), NEW kept \in 0 .. Len(toks) - 1
  PROVE  Holds(Keep(Read(mark, toks), mark, kept), text \o SubSeq(toks, 1, kept + 1))
  <1> DEFINE c == Read(mark, toks)
             both == text \o toks
             part == text \o SubSeq(toks, 1, kept + 1)
  <1>1. Holds(c, both)
    BY ReadHolds
  <1>2. /\ mark.offset = Len(text) /\ text \in Seq(Nat) /\ mark.headOffset \in Nat /\ mark.headOffset <= mark.offset
        /\ Len(text) \in Nat
    BY DEF Holds, CacheSet
  <1> HIDE DEF c
  <1>3. Len(toks) \in Nat /\ kept + 1 \in 1 .. Len(toks)
    OBVIOUS
  <1> DEFINE front == SubSeq(toks, 1, kept + 1)
  <1>4. front \in Seq(Nat) /\ Len(front) = kept + 1 /\ \A i \in 1 .. kept + 1 : front[i] = toks[i]
    BY <1>3
  <1>5. both \in Seq(Nat) /\ Len(both) = Len(text) + Len(toks) /\ (\A i \in 1 .. Len(text) : both[i] = text[i])
        /\ (\A i \in 1 .. Len(toks) : both[Len(text) + i] = toks[i])
    BY <1>2, Joined
  <1>6. part = text \o front
    OBVIOUS
  <1> HIDE DEF front
  <1>7. (text \o front) \in Seq(Nat) /\ Len(text \o front) = Len(text) + Len(front) /\ (\A i \in 1 .. Len(text) : (text \o front)[i] = text[i])
        /\ (\A i \in 1 .. Len(front) : (text \o front)[Len(text) + i] = front[i])
    <2>1. text \in Seq(Nat) /\ front \in Seq(Nat)
      BY <1>2, <1>4
    <2> QED
      BY <2>1, Joined
  <1> HIDE DEF both, part
  <1>8. part \in Seq(Nat) /\ Len(part) = Len(text) + kept + 1
    BY <1>2, <1>3, <1>4, <1>6, <1>7
  <1>9. \A i \in 1 .. Len(part) : part[i] = both[i]
    <2> SUFFICES ASSUME NEW i \in 1 .. Len(part) PROVE part[i] = both[i]
      OBVIOUS
    <2>1. CASE i <= Len(text)
      <3>1. i \in 1 .. Len(text)
        BY <1>2, <1>8, <2>1
      <3> QED
        BY <1>5, <1>6, <1>7, <3>1
    <2>2. CASE ~(i <= Len(text))
      <3> DEFINE k == i - Len(text)
      <3>1. k \in 1 .. Len(front) /\ k \in 1 .. kept + 1 /\ k \in 1 .. Len(toks) /\ Len(text) + k = i
        <4> DEFINE l == Len(text)
                   n == Len(toks)
                   o == Len(part)
        <4>1. l \in Nat /\ n \in Nat /\ kept + 1 \in 1 .. n /\ o = l + kept + 1 /\ i \in 1 .. o /\ ~(i <= l)
              /\ kept \in Nat /\ k = i - l
          BY <1>2, <1>3, <1>8, <2>2
        <4> HIDE DEF k, l, n, o
        <4>2. k \in 1 .. kept + 1 /\ k \in 1 .. n /\ l + k = i
          BY <4>1
        <4> QED
          BY <1>4, <4>2 DEF l, n
      <3> HIDE DEF k
      <3> QED
        BY <1>4, <1>5, <1>6, <1>7, <3>1
    <2> QED
      BY <2>1, <2>2
  <1>10. /\ c \in CacheSet /\ c.offset = Len(both) /\ c.state = both /\ c.offset <= Len(c.keys)
         /\ \A i \in 1 .. Len(both) : c.keys[i] = both[i]
    BY <1>1 DEF Holds
  <1>11. CASE kept < c.offset - mark.offset - 1
    <2>1. SubSeq(both, 1, mark.offset + kept + 1) = part
      <3> DEFINE n == mark.offset + kept + 1
      <3>1. n \in 0 .. Len(both) /\ n = Len(part)
        BY <1>2, <1>3, <1>5, <1>8
      <3> HIDE DEF n
      <3>2. SubSeq(both, 1, n) \in Seq(Nat) /\ Len(SubSeq(both, 1, n)) = n
            /\ \A i \in 1 .. n : SubSeq(both, 1, n)[i] = both[i]
        BY <1>5, <3>1, BeginningIs
      <3>3. SubSeq(both, 1, n) = part
        <4> DEFINE s == SubSeq(both, 1, n)
        <4>1. s \in Seq(Nat) /\ Len(s) = Len(part) /\ \A i \in 1 .. Len(s) : s[i] = part[i]
          BY <1>9, <3>1, <3>2
        <4> HIDE DEF s
        <4>2. s = part
          BY <1>8, <4>1, SameText
        <4> QED
          BY <4>2 DEF s
      <3> QED
        BY <3>3 DEF n
    <2>2. Keep(c, mark, kept) = [keys |-> c.keys, state |-> part, offset |-> mark.offset + kept + 1,
                                 drafting |-> c.drafting, head |-> c.head,
                                 headOffset |-> mark.headOffset + kept + 1]
      BY <1>10, <1>11, <2>1 DEF Keep, CacheSet
    <2>3. mark.offset + kept + 1 \in Nat /\ mark.headOffset + kept + 1 \in Nat /\ mark.offset + kept + 1 = Len(part)
          /\ mark.headOffset + kept + 1 <= mark.offset + kept + 1 /\ mark.offset + kept + 1 <= c.offset /\ c.offset = Len(both)
          /\ c.keys \in Seq(Nat)
      <3>1. mark.offset \in Nat /\ kept \in Nat /\ mark.headOffset \in Nat /\ Len(part) = mark.offset + kept + 1
            /\ mark.headOffset <= mark.offset
        BY <1>2, <1>8
      <3>2. c.offset = Len(both) /\ Len(both) = mark.offset + Len(toks)
        BY <1>2, <1>5, <1>10
      <3>3. c.keys \in Seq(Nat)
        BY <1>10 DEF CacheSet
      <3> DEFINE o == mark.offset
                 h == mark.headOffset
                 n == Len(toks)
                 e == Len(part)
                 f == Len(both)
      <3>4. o \in Nat /\ kept \in Nat /\ h \in Nat /\ e = o + kept + 1 /\ h <= o /\ f = o + n
            /\ n \in Nat /\ kept + 1 <= n
        BY <1>3, <3>1, <3>2
      <3> HIDE DEF c, o, h, n, e, f
      <3>5. o + kept + 1 \in Nat /\ h + kept + 1 \in Nat /\ o + kept + 1 = e /\ h + kept + 1 <= o + kept + 1
            /\ o + kept + 1 <= f
        BY <3>4
      <3> QED
        BY <3>2, <3>3, <3>5 DEF o, h, e, f
    <2> DEFINE d == Keep(c, mark, kept)
    <2>4. d \in CacheSet
      BY <1>8, <1>10, <2>2, <2>3 DEF CacheSet
    <2>5. /\ d.state = part /\ d.offset = Len(part) /\ d.keys = c.keys /\ d.headOffset <= d.offset
          /\ d.offset <= Len(d.keys)
      BY <1>10, <2>2, <2>3
    <2> HIDE DEF d
    <2>6. \A i \in 1 .. Len(part) : d.keys[i] = part[i]
      <3>1. \A i \in 1 .. Len(part) : i \in 1 .. Len(both)
        BY <2>3
      <3> QED
        BY <1>9, <1>10, <2>5, <3>1
    <2>7. Holds(d, part)
      BY <1>8, <2>4, <2>5, <2>6 DEF Holds
    <2> QED
      BY <2>7 DEF d, c, part
  <1>12. CASE ~(kept < c.offset - mark.offset - 1)
    <2>1. kept + 1 = Len(toks)
      BY <1>2, <1>3, <1>5, <1>10, <1>12
    <2>2. Len(part) = Len(both)
      <3>1. Len(part) = Len(text) + (kept + 1) /\ Len(both) = Len(text) + Len(toks)
        BY <1>2, <1>5, <1>8
      <3> QED
        BY <2>1, <3>1
    <2>3. part = both
      BY <1>5, <1>8, <1>9, <2>2, SameText
    <2>4. Keep(c, mark, kept) = c
      BY <1>12 DEF Keep
    <2> QED
      BY <1>1, <2>3, <2>4 DEF c, part
  <1> QED
    BY <1>11, <1>12

-----------------------------------------------------------------------------
(* The batch, row by row.                                                  *)

LEMMA MinIs ==
  ASSUME NEW lo \in Int, NEW S, S \subseteq Int, S # {}, \A i \in S : lo <= i
  PROVE  Min(S) \in S /\ \A i \in S : Min(S) <= i
  <1> DEFINE T == {i - lo : i \in S}
             R == OpToRel(<, Nat)
  <1>1. T \subseteq Nat /\ T # {}
    <2>1. \A i \in S : i - lo \in Nat
      OBVIOUS
    <2>2. \E i \in S : i - lo \in T
      OBVIOUS
    <2> QED
      BY <2>1, <2>2
  <1>2. PICK t \in T : \A m \in T : ~ (<<m, t>> \in R)
    <2> HIDE DEF R, T
    <2>1. IsWellFoundedOn(OpToRel(<, Nat), Nat)
      BY NatLessThanWellFounded
    <2> QED
      BY <1>1, <2>1, WFMin DEF R
  <1>3. PICK n \in S : t = n - lo
    OBVIOUS
  <1>4. \A i \in S : n <= i
    <2> SUFFICES ASSUME NEW i \in S, i < n PROVE FALSE
      BY <1>1
    <2> DEFINE m == i - lo
    <2>1. m \in T /\ m \in Nat /\ t \in Nat /\ m < t
      BY <1>1, <1>3
    <2> HIDE DEF m
    <2>2. <<m, t>> \in Nat \X Nat /\ <<m, t>>[1] = m /\ <<m, t>>[2] = t
      BY <2>1
    <2>3. <<m, t>> \in R
      BY <2>1, <2>2 DEF OpToRel
    <2> QED
      BY <1>2, <2>1, <2>3
  <1>5. \E x \in S : \A y \in S : x <= y
    BY <1>4
  <1> QED
    BY <1>5 DEF Min

LEMMA MaxOfTwo ==
  ASSUME NEW a \in Int, NEW b \in Int
  PROVE  Max({a, b}) \in {a, b} /\ a <= Max({a, b}) /\ b <= Max({a, b})
  <1>1. \E x \in {a, b} : \A y \in {a, b} : x >= y
    OBVIOUS
  <1> QED
    BY <1>1 DEF Max

LEMMA FunctionIsSeq ==
  ASSUME NEW n \in Nat, NEW S, NEW f \in [1 .. n -> S]
  PROVE  f \in Seq(S) /\ Len(f) = n /\ DOMAIN f = 1 .. n
  OBVIOUS

Columns(cap) == {s \in Seq(Nat) : Len(s) = cap}

Good(b) ==
    /\ Width(b) \in Nat
    /\ b \in [idx : Nat, cap : Nat, pad : [1 .. Width(b) -> 0 .. b.idx],
              free : [1 .. Width(b) -> BOOLEAN], keys : [1 .. Width(b) -> Columns(b.cap)],
              state : [1 .. Width(b) -> Seq(Nat)]]
    /\ b.idx <= b.cap

\* Row r has read text.
Reads(b, r, text) ==
    /\ r \in 1 .. Width(b) /\ ~b.free[r] /\ text \in Seq(Nat)
    /\ b.pad[r] + Len(text) = b.idx /\ b.state[r] = text
    /\ \A i \in 1 .. Len(text) : b.keys[r][b.pad[r] + i] = text[i]

LEMMA GoodIs ==
  ASSUME NEW b, Good(b)
  PROVE  /\ b.idx \in Nat /\ b.cap \in Nat /\ b.idx <= b.cap
         /\ Width(b) \in Nat
         /\ b.pad \in [1 .. Width(b) -> 0 .. b.idx]
         /\ b.free \in [1 .. Width(b) -> BOOLEAN]
         /\ b.keys \in [1 .. Width(b) -> Columns(b.cap)]
         /\ b.state \in [1 .. Width(b) -> Seq(Nat)]
  BY DEF Good

\* A batch put together is one.
Parts(n, idx, cap, pad, free, keys, state) ==
    /\ n \in Nat /\ idx \in Nat /\ cap \in Nat /\ idx <= cap
    /\ pad \in [1 .. n -> 0 .. idx] /\ free \in [1 .. n -> BOOLEAN]
    /\ keys \in [1 .. n -> Columns(cap)] /\ state \in [1 .. n -> Seq(Nat)]

Made(idx, cap, pad, free, keys, state) ==
    [idx |-> idx, cap |-> cap, pad |-> pad, free |-> free, keys |-> keys, state |-> state]

LEMMA MadeGood ==
  ASSUME NEW n, NEW idx, NEW cap, NEW pad, NEW free, NEW keys, NEW state,
         Parts(n, idx, cap, pad, free, keys, state)
  PROVE  Good(Made(idx, cap, pad, free, keys, state)) /\ Width(Made(idx, cap, pad, free, keys, state)) = n
  <1> DEFINE b == Made(idx, cap, pad, free, keys, state)
  <1>1. Len(pad) = n
    BY FunctionIsSeq DEF Parts
  <1>2. Width(b) = n
    BY <1>1 DEF Width, Made
  <1>3. Good(b)
    BY <1>2 DEF Good, Parts, Made
  <1> QED
    BY <1>2, <1>3

LEMMA BatchIs ==
  ASSUME NEW b, Good(b)
  PROVE  b = Made(b.idx, b.cap, b.pad, b.free, b.keys, b.state)
  BY DEF Good, Made

\* The batch's part of the type invariant.
LEMMA GoodBatch ==
  ASSUME NEW b, Good(b)
  PROVE  IsBatch(b)
  <1> DEFINE n == Width(b)
  <1>1. n \in Nat /\ b.idx <= b.cap
    BY GoodIs
  <1>2. /\ b.pad \in [1 .. n -> 0 .. b.idx] /\ b.free \in [1 .. n -> BOOLEAN]
        /\ b.keys \in [1 .. n -> Columns(b.cap)] /\ b.state \in [1 .. n -> Seq(Nat)]
    BY GoodIs
  <1> HIDE DEF n
  <1>3. Len(b.free) = n /\ Len(b.keys) = n /\ Len(b.state) = n
    BY <1>1, <1>2, FunctionIsSeq
  <1>4. \A r \in 1 .. n : Len(b.keys[r]) = b.cap /\ b.pad[r] \in 0 .. b.idx
    BY <1>2 DEF Columns
  <1> QED
    BY <1>1, <1>3, <1>4 DEF IsBatch, n

\* What a row attends to is what it has read.
LEMMA RowKeysIs ==
  ASSUME NEW b, Good(b), NEW r, NEW text, Reads(b, r, text)
  PROVE  RowKeys(b, r) = text
  <1> DEFINE k == b.keys[r]
             p == b.pad[r]
  <1>1. /\ r \in 1 .. Width(b) /\ text \in Seq(Nat) /\ p + Len(text) = b.idx
        /\ \A i \in 1 .. Len(text) : k[p + i] = text[i]
    BY DEF Reads
  <1>2. k \in Seq(Nat) /\ Len(k) = b.cap /\ p \in 0 .. b.idx /\ b.idx \in Nat /\ b.idx <= b.cap
    BY <1>1, GoodIs DEF Columns
  <1>3. RowKeys(b, r) = SubSeq(k, p + 1, b.idx)
    BY DEF RowKeys
  <1> HIDE DEF k, p
  <1> DEFINE s == SubSeq(k, p + 1, b.idx)
  <1>4. s \in Seq(Nat) /\ Len(s) = b.idx - p /\ \A i \in 1 .. b.idx - p : s[i] = k[p + i]
    <2>1. p + 1 \in 1 .. b.idx + 1 /\ b.idx \in 0 .. Len(k) /\ p \in Nat
      BY <1>2
    <2>2. s \in Seq(Nat)
      BY <1>2, <2>1
    <2>3. Len(s) = b.idx - p
      BY <1>2, <2>1
    <2>4. \A i \in 1 .. b.idx - p : s[i] = k[p + i]
      BY <1>2, <2>1
    <2> QED
      BY <2>2, <2>3, <2>4
  <1>5. Len(s) = Len(text) /\ \A i \in 1 .. Len(s) : s[i] = text[i]
    <2> HIDE DEF s
    <2>1. Len(text) \in Nat /\ b.idx - p = Len(text)
      BY <1>1, <1>2
    <2> QED
      BY <1>1, <1>4, <2>1
  <1> HIDE DEF s
  <1>6. s = text
    BY <1>1, <1>4, <1>5, SameText
  <1> QED
    BY <1>3, <1>6 DEF s

\* Rows given up leave the others as they are.
LEMMA ReleaseIs ==
  ASSUME NEW b, Good(b), NEW S
  PROVE  /\ Good(Release(b, S)) /\ Width(Release(b, S)) = Width(b)
         /\ \A r, text : Reads(b, r, text) /\ r \notin S => Reads(Release(b, S), r, text)
  <1> DEFINE n == Width(b)
             c == Release(b, S)
             free == [r \in 1 .. n |-> b.free[r] \/ r \in S]
  <1>1. b.free \in [1 .. n -> BOOLEAN] /\ n \in Nat
    BY GoodIs
  <1>2. free \in [1 .. n -> BOOLEAN]
    OBVIOUS
  <1>3. c = Made(b.idx, b.cap, b.pad, free, b.keys, b.state)
    <2>1. DOMAIN b.free = 1 .. n
      BY <1>1
    <2>2. c = [b EXCEPT !.free = free]
      BY <2>1 DEF Release
    <2> HIDE DEF c, free
    <2> QED
      BY <2>2 DEF Good, Made
  <1>4. \A r \in 1 .. n : r \notin S => (free[r] <=> b.free[r])
    BY <1>1
  <1> HIDE DEF free, c
  <1>5. Good(c) /\ Width(c) = n
    <2>1. Parts(n, b.idx, b.cap, b.pad, free, b.keys, b.state)
      BY <1>2, GoodIs DEF Parts
    <2> QED
      BY <1>3, <2>1, MadeGood
  <1>6. ASSUME NEW r, NEW text, Reads(b, r, text), r \notin S PROVE Reads(c, r, text)
    BY <1>3, <1>4, <1>5, <1>6 DEF Reads, Made
  <1> QED
    BY <1>5, <1>6 DEF c

\* The same rows, moved.
Kin(b, c) ==
    /\ Good(c) /\ Width(c) = Width(b) /\ c.free = b.free
    /\ \A r, text : Reads(b, r, text) => Reads(c, r, text)

\* A row whose columns lie elsewhere has still read its text.
LEMMA MovedReads ==
  ASSUME NEW b, NEW c, Good(b), NEW from \in Nat, NEW start \in Nat, NEW cap \in Nat,
         NEW r, NEW text, Reads(b, r, text), from <= b.pad[r],
         Lies(c.keys[r], b.keys[r], from, b.idx, start, cap),
         c.pad[r] = (b.pad[r] - from) + start, c.idx = (b.idx - from) + start,
         Width(c) = Width(b), c.free = b.free, c.state = b.state
  PROVE  Reads(c, r, text)
  <1> DEFINE old == b.keys[r]
             new == c.keys[r]
             p == b.pad[r]
  <1>1. /\ r \in 1 .. Width(b) /\ ~b.free[r] /\ text \in Seq(Nat) /\ p + Len(text) = b.idx
        /\ b.state[r] = text /\ \A i \in 1 .. Len(text) : old[p + i] = text[i]
    BY DEF Reads
  <1>2. p \in Nat /\ b.idx \in Nat /\ Len(text) \in Nat /\ from <= p
    <2>1. b.pad \in [1 .. Width(b) -> 0 .. b.idx] /\ b.idx \in Nat
      BY GoodIs
    <2>2. p \in 0 .. b.idx
      BY <1>1, <2>1
    <2> QED
      BY <1>1, <2>1, <2>2
  <1>3. \A i \in 1 .. b.idx - from : new[start + i] = old[from + i]
    BY DEF Lies
  <1>4. c.pad[r] = (p - from) + start
    OBVIOUS
  <1> HIDE DEF old, new, p
  <1>5. c.pad[r] + Len(text) = c.idx
    BY <1>1, <1>2, <1>4
  <1>6. ASSUME NEW i \in 1 .. Len(text) PROVE new[c.pad[r] + i] = text[i]
    <2> DEFINE k == (p - from) + i
    <2>1. k \in 1 .. b.idx - from /\ from + k = p + i
      <3> DEFINE l == Len(text)
      <3>1. b.idx = p + l /\ l \in Nat /\ i \in 1 .. l /\ p - from \in Nat
        BY <1>1, <1>2
      <3> HIDE DEF l
      <3>2. p \in Nat
        BY <1>2
      <3> QED
        BY <3>1, <3>2
    <2>2. start + k = c.pad[r] + i
      BY <1>2, <1>4
    <2> HIDE DEF k
    <2> QED
      BY <1>1, <1>3, <2>1, <2>2
  <1> QED
    BY <1>1, <1>5, <1>6 DEF Reads, new

\* trim cuts padding only: every row has read what it had.
LEMMA TrimIs ==
  ASSUME NEW b, Good(b), NEW most \in Int, most <= b.idx
  PROVE  Kin(b, Trim(b, most))
  <1> DEFINE n == Width(b)
             S == {most} \cup {b.pad[r] : r \in LiveRows(b)}
             cut == Min(S)
             cap == RoundUp(b.idx - cut + 1)
             pad == [r \in 1 .. n |-> AtLeastZero(b.pad[r] - cut)]
             keys == [r \in 1 .. n |-> Place(b.keys[r], cut, b.idx, 0, cap)]
             c == Trim(b, most)
  <1>1. Parts(n, b.idx, b.cap, b.pad, b.free, b.keys, b.state)
    BY GoodIs DEF Parts
  <1>2. cut \in Int /\ cut <= most /\ \A r \in 1 .. n : ~b.free[r] => cut <= b.pad[r]
    <2> DEFINE lo == IF most < 0 THEN most ELSE 0
    <2>1. lo \in Int /\ lo <= most /\ lo <= 0
      OBVIOUS
    <2>2. \A r \in 1 .. n : b.pad[r] \in Nat
      BY <1>1 DEF Parts
    <2>3. LiveRows(b) = {r \in 1 .. n : ~b.free[r]}
      BY DEF LiveRows
    <2> HIDE DEF n, lo
    <2>4. S \subseteq Int /\ S # {} /\ \A i \in S : lo <= i
      BY <2>1, <2>2, <2>3
    <2>5. \A r \in 1 .. n : ~b.free[r] => b.pad[r] \in S
      BY <2>3
    <2>6. most \in S
      OBVIOUS
    <2> HIDE DEF S
    <2>7. Min(S) \in S /\ \A i \in S : Min(S) <= i
      BY <2>1, <2>4, MinIs
    <2> QED
      BY <2>4, <2>5, <2>6, <2>7
  <1>3. c = IF cut < kvStep THEN b
            ELSE [b EXCEPT !.idx = @ - cut, !.cap = cap,
                           !.pad = [r \in DOMAIN @ |-> AtLeastZero(@[r] - cut)],
                           !.keys = [r \in DOMAIN @ |-> Place(@[r], cut, b.idx, 0, cap)]]
    BY DEF Trim
  <1> HIDE DEF S, cut
  <1>4. CASE cut < kvStep
    BY <1>3, <1>4 DEF Kin
  <1>5. CASE ~(cut < kvStep)
    <2>1. cut \in Nat /\ b.idx - cut \in Nat /\ cut <= b.idx /\ b.idx - cut + 1 \in Nat /\ b.idx \in Nat
      BY <1>1, <1>2, <1>5, StepAssumption DEF Parts
    <2>2. cap \in Nat /\ b.idx - cut + 1 <= cap
      <3> DEFINE m == b.idx - cut + 1
      <3>1. m \in Nat
        BY <2>1
      <3> HIDE DEF m
      <3>2. RoundUp(m) \in Nat /\ m <= RoundUp(m)
        BY <3>1, RoundUpIs
      <3> QED
        BY <3>2 DEF m
    <2> HIDE DEF cap
    <2>3. \A r \in 1 .. n : Lies(Place(b.keys[r], cut, b.idx, 0, cap), b.keys[r], cut, b.idx, 0, cap)
      <3> SUFFICES ASSUME NEW r \in 1 .. n
                   PROVE  Lies(Place(b.keys[r], cut, b.idx, 0, cap), b.keys[r], cut, b.idx, 0, cap)
        OBVIOUS
      <3>1. b.keys[r] \in Seq(Nat) /\ Len(b.keys[r]) = b.cap
        BY <1>1 DEF Parts, Columns
      <3>2. cut <= b.idx /\ b.idx <= Len(b.keys[r]) /\ 0 + (b.idx - cut) <= cap
        BY <1>1, <2>1, <2>2, <3>1 DEF Parts
      <3> QED
        BY <2>1, <2>2, <3>1, <3>2, PlaceIs
    <2>4. pad \in [1 .. n -> 0 .. b.idx - cut]
      <3>1. ASSUME NEW r \in 1 .. n PROVE AtLeastZero(b.pad[r] - cut) \in 0 .. b.idx - cut
        <4> DEFINE p == b.pad[r]
                   e == b.idx
        <4>1. p \in 0 .. e /\ e \in Nat /\ cut \in Nat /\ cut <= e
          BY <1>1, <2>1 DEF Parts
        <4> HIDE DEF p, e
        <4>2. AtLeastZero(p - cut) \in 0 .. e - cut
          BY <4>1 DEF AtLeastZero
        <4> QED
          BY <4>2 DEF p, e
      <3> QED
        BY <3>1
    <2>5. keys \in [1 .. n -> Columns(cap)]
      <3>1. \A r \in 1 .. n : Place(b.keys[r], cut, b.idx, 0, cap) \in Columns(cap)
        BY <2>3 DEF Lies, Columns
      <3> QED
        BY <3>1
    <2>6. c = Made(b.idx - cut, cap, pad, b.free, keys, b.state)
      <3>1. DOMAIN b.pad = 1 .. n /\ DOMAIN b.keys = 1 .. n
        BY <1>1 DEF Parts
      <3>2. c = [b EXCEPT !.idx = b.idx - cut, !.cap = cap, !.pad = pad, !.keys = keys]
        <4>1. pad = [r \in DOMAIN b.pad |-> AtLeastZero(b.pad[r] - cut)]
          BY <3>1
        <4>2. keys = [r \in DOMAIN b.keys |-> Place(b.keys[r], cut, b.idx, 0, cap)]
          BY <3>1
        <4> HIDE DEF pad, keys, c
        <4>3. b = Made(b.idx, b.cap, b.pad, b.free, b.keys, b.state)
          BY BatchIs
        <4> QED
          BY <1>3, <1>5, <4>1, <4>2, <4>3 DEF cap, Made
      <3> HIDE DEF c, pad, keys
      <3>3. b = Made(b.idx, b.cap, b.pad, b.free, b.keys, b.state)
        BY BatchIs
      <3> QED
        BY <3>2, <3>3 DEF Made
    <2>7. \A r \in 1 .. n : pad[r] = AtLeastZero(b.pad[r] - cut) /\ keys[r] = Place(b.keys[r], cut, b.idx, 0, cap)
      OBVIOUS
    <2> HIDE DEF c, pad, keys
    <2>8. Parts(n, b.idx - cut, cap, pad, b.free, keys, b.state)
      BY <1>1, <2>1, <2>2, <2>4, <2>5 DEF Parts
    <2>9. Good(c) /\ Width(c) = n
      BY <2>6, <2>8, MadeGood
    <2>10. c.idx = b.idx - cut /\ c.pad = pad /\ c.free = b.free /\ c.keys = keys /\ c.state = b.state
      BY <2>6 DEF Made
    <2>11. ASSUME NEW r, NEW text, Reads(b, r, text) PROVE Reads(c, r, text)
      <3>1. r \in 1 .. n /\ ~b.free[r]
        BY <2>11 DEF Reads
      <3>2. cut <= b.pad[r] /\ b.pad[r] \in Nat
        BY <1>1, <1>2, <3>1 DEF Parts
      <3>3. c.pad[r] = (b.pad[r] - cut) + 0 /\ c.idx = (b.idx - cut) + 0
        BY <2>1, <2>7, <2>10, <3>1, <3>2 DEF AtLeastZero
      <3>4. Lies(c.keys[r], b.keys[r], cut, b.idx, 0, cap)
        BY <2>3, <2>7, <2>10, <3>1
      <3>5. 0 \in Nat
        OBVIOUS
      <3> QED
        BY <2>1, <2>2, <2>9, <2>10, <2>11, <3>2, <3>3, <3>4, <3>5, MovedReads
    <2> QED
      BY <2>9, <2>10, <2>11 DEF Kin, c, n
  <1> QED
    BY <1>4, <1>5

\* makeRoom moves each row with its padding.
LEMMA MakeRoomIs ==
  ASSUME NEW b, Good(b), NEW n \in Nat
  PROVE  Kin(b, MakeRoom(b, n)) /\ n <= MakeRoom(b, n).idx
  <1> DEFINE w == Width(b)
             shift == AtLeastZero(n - b.idx)
             wide == RoundUp(b.idx + shift + 1)
             cap == Max({b.cap, wide})
             pad == [r \in 1 .. w |-> b.pad[r] + shift]
             keys == [r \in 1 .. w |-> Place(b.keys[r], 0, b.idx, shift, cap)]
             c == MakeRoom(b, n)
  <1>1. Parts(w, b.idx, b.cap, b.pad, b.free, b.keys, b.state)
    BY GoodIs DEF Parts
  <1>2. shift \in Nat /\ n <= b.idx + shift /\ b.idx \in Nat /\ b.cap \in Nat /\ b.idx <= b.cap
    BY <1>1 DEF Parts, AtLeastZero
  <1>3. wide \in Nat /\ b.idx + shift + 1 <= wide
    <2> DEFINE m == b.idx + shift + 1
    <2>1. m \in Nat
      <3> HIDE DEF shift
      <3> QED
        BY <1>2
    <2> HIDE DEF m
    <2>2. RoundUp(m) \in Nat /\ m <= RoundUp(m)
      BY <2>1, RoundUpIs
    <2> QED
      BY <2>2 DEF m
  <1>4. cap \in Nat /\ wide <= cap
    <2> HIDE DEF wide
    <2>1. b.cap \in Int /\ wide \in Int
      BY <1>2, <1>3
    <2>2. Max({b.cap, wide}) \in {b.cap, wide} /\ wide <= Max({b.cap, wide})
      BY <2>1, MaxOfTwo
    <2> QED
      BY <1>2, <1>3, <2>2
  <1>5. c = IF shift = 0 /\ cap = b.cap THEN b
            ELSE [b EXCEPT !.idx = @ + shift, !.cap = cap,
                           !.pad = [r \in DOMAIN @ |-> @[r] + shift],
                           !.keys = [r \in DOMAIN @ |-> Place(@[r], 0, b.idx, shift, cap)]]
    BY DEF MakeRoom
  <1> HIDE DEF shift, wide, cap
  <1>6. CASE shift = 0 /\ cap = b.cap
    BY <1>2, <1>5, <1>6 DEF Kin
  <1>7. CASE ~(shift = 0 /\ cap = b.cap)
    <2>1. b.idx + shift \in Nat /\ b.idx + shift <= cap
      BY <1>2, <1>3, <1>4
    <2>2. \A r \in 1 .. w : Lies(Place(b.keys[r], 0, b.idx, shift, cap), b.keys[r], 0, b.idx, shift, cap)
      <3> SUFFICES ASSUME NEW r \in 1 .. w
                   PROVE  Lies(Place(b.keys[r], 0, b.idx, shift, cap), b.keys[r], 0, b.idx, shift, cap)
        OBVIOUS
      <3>1. b.keys[r] \in Seq(Nat) /\ Len(b.keys[r]) = b.cap
        BY <1>1 DEF Parts, Columns
      <3>2. 0 <= b.idx /\ b.idx <= Len(b.keys[r]) /\ shift + (b.idx - 0) <= cap /\ 0 \in Nat
        BY <1>2, <2>1, <3>1
      <3> QED
        BY <1>2, <1>4, <3>1, <3>2, PlaceIs
    <2>3. pad \in [1 .. w -> 0 .. b.idx + shift]
      <3>1. \A r \in 1 .. w : b.pad[r] + shift \in 0 .. b.idx + shift
        BY <1>1, <1>2 DEF Parts
      <3> QED
        BY <3>1
    <2>4. keys \in [1 .. w -> Columns(cap)]
      <3>1. \A r \in 1 .. w : Place(b.keys[r], 0, b.idx, shift, cap) \in Columns(cap)
        BY <2>2 DEF Lies, Columns
      <3> QED
        BY <3>1
    <2>5. b = Made(b.idx, b.cap, b.pad, b.free, b.keys, b.state)
      BY BatchIs
    <2>6. c = Made(b.idx + shift, cap, pad, b.free, keys, b.state)
      <3>1. DOMAIN b.pad = 1 .. w /\ DOMAIN b.keys = 1 .. w
        BY <1>1 DEF Parts
      <3>2. pad = [r \in DOMAIN b.pad |-> b.pad[r] + shift]
        BY <3>1
      <3>3. keys = [r \in DOMAIN b.keys |-> Place(b.keys[r], 0, b.idx, shift, cap)]
        BY <3>1
      <3> HIDE DEF pad, keys, c
      <3>4. c = [b EXCEPT !.idx = b.idx + shift, !.cap = cap, !.pad = pad, !.keys = keys]
        BY <1>5, <1>7, <2>5, <3>2, <3>3 DEF Made
      <3> QED
        BY <2>5, <3>4 DEF Made
    <2>7. \A r \in 1 .. w : pad[r] = b.pad[r] + shift /\ keys[r] = Place(b.keys[r], 0, b.idx, shift, cap)
      OBVIOUS
    <2> HIDE DEF c, pad, keys
    <2>8. Parts(w, b.idx + shift, cap, pad, b.free, keys, b.state)
      BY <1>1, <1>4, <2>1, <2>3, <2>4 DEF Parts
    <2>9. Good(c) /\ Width(c) = w
      BY <2>6, <2>8, MadeGood
    <2>10. c.idx = b.idx + shift /\ c.pad = pad /\ c.free = b.free /\ c.keys = keys /\ c.state = b.state
      BY <2>6 DEF Made
    <2>11. ASSUME NEW r, NEW text, Reads(b, r, text) PROVE Reads(c, r, text)
      <3>1. r \in 1 .. w
        BY <2>11 DEF Reads
      <3>2. 0 <= b.pad[r] /\ b.pad[r] \in Nat /\ 0 \in Nat
        BY <1>1, <3>1 DEF Parts
      <3>3. c.pad[r] = (b.pad[r] - 0) + shift /\ c.idx = (b.idx - 0) + shift
        BY <1>2, <2>7, <2>10, <3>1, <3>2
      <3>4. Lies(c.keys[r], b.keys[r], 0, b.idx, shift, cap)
        BY <2>2, <2>7, <2>10, <3>1
      <3> QED
        BY <1>2, <1>4, <2>9, <2>10, <2>11, <3>2, <3>3, <3>4, MovedReads
    <2> QED
      BY <1>2, <2>9, <2>10, <2>11 DEF Kin, c, w
  <1> QED
    BY <1>6, <1>7

\* The cache of one more takes a row.
Joins(b, c, r, text) ==
    /\ Good(c) /\ Width(b) <= Width(c) /\ Reads(c, r, text)
    /\ \A q, t : q # r /\ Reads(b, q, t) => Reads(c, q, t)

\* A free row takes the newcomer's columns over whatever it held.
LEMMA FillIs ==
  ASSUME NEW b, Good(b), NEW r \in FreeRows(b), NEW c, NEW text, Holds(c, text), c.offset <= b.idx
  PROVE  Joins(b, Fill(b, r, c), r, text)
  <1> DEFINE w == Width(b)
             p == b.idx - c.offset
             new == Written(b.keys[r], p, Keys(c))
             pad == [b.pad EXCEPT ![r] = p]
             free == [b.free EXCEPT ![r] = FALSE]
             keys == [b.keys EXCEPT ![r] = new]
             state == [b.state EXCEPT ![r] = c.state]
             d == Fill(b, r, c)
  <1>1. Parts(w, b.idx, b.cap, b.pad, b.free, b.keys, b.state)
    BY GoodIs DEF Parts
  <1>2. r \in 1 .. w
    BY DEF FreeRows
  <1>3. text \in Seq(Nat) /\ c.state = text /\ c.offset = Len(text) /\ Keys(c) = text /\ Len(text) \in Nat
    BY HoldsIs DEF Holds
  <1>4. p \in 0 .. b.idx /\ p + Len(text) = b.idx /\ b.idx \in Nat /\ b.cap \in Nat /\ b.idx <= b.cap
    BY <1>1, <1>3 DEF Parts
  <1>5. b.keys[r] \in Seq(Nat) /\ Len(b.keys[r]) = b.cap
    BY <1>1, <1>2 DEF Parts, Columns
  <1> HIDE DEF p
  <1>6. /\ new \in Seq(Nat) /\ Len(new) = b.cap
        /\ \A i \in 1 .. Len(text) : p + i <= b.cap => new[p + i] = text[i]
    <2> DEFINE k == b.keys[r]
               t == Keys(c)
               v == Written(k, p, t)
    <2>1. p \in Nat /\ k \in Seq(Nat) /\ t \in Seq(Nat) /\ Len(k) = b.cap /\ t = text
      BY <1>3, <1>4, <1>5
    <2>2. new = v
      OBVIOUS
    <2> HIDE DEF k, t, new
    <2>3. /\ v \in Seq(Nat) /\ Len(v) = Len(k)
          /\ \A i \in 1 .. Len(t) : p + i <= Len(k) => v[p + i] = t[i]
      BY <2>1, WrittenIs
    <2> HIDE DEF v
    <2> QED
      BY <2>1, <2>2, <2>3
  <1> HIDE DEF new
  <1>7. Parts(w, b.idx, b.cap, pad, free, keys, state)
    <2>1. pad \in [1 .. w -> 0 .. b.idx]
      BY <1>1, <1>4 DEF Parts
    <2>2. free \in [1 .. w -> BOOLEAN]
      BY <1>1 DEF Parts
    <2>3. keys \in [1 .. w -> Columns(b.cap)]
      BY <1>1, <1>6 DEF Parts, Columns
    <2>4. state \in [1 .. w -> Seq(Nat)]
      BY <1>1, <1>3 DEF Parts
    <2> QED
      BY <1>1, <2>1, <2>2, <2>3, <2>4 DEF Parts
  <1>8. b = Made(b.idx, b.cap, b.pad, b.free, b.keys, b.state)
    BY BatchIs
  <1>9. d = [b EXCEPT !.pad = pad, !.free = free, !.keys = keys, !.state = state]
    BY <1>8 DEF Fill, Made, new, p
  <1>10. \A q \in 1 .. w : /\ pad[q] = (IF q = r THEN p ELSE b.pad[q])
                           /\ keys[q] = (IF q = r THEN new ELSE b.keys[q])
                           /\ state[q] = (IF q = r THEN c.state ELSE b.state[q])
    BY <1>1 DEF Parts
  <1>11. ~free[r] /\ \A q \in 1 .. w : q # r => (free[q] <=> b.free[q])
    BY <1>1, <1>2 DEF Parts
  <1> HIDE DEF d, pad, free, keys, state
  <1>12. d = Made(b.idx, b.cap, pad, free, keys, state)
    BY <1>8, <1>9 DEF Made
  <1>13. Good(d) /\ Width(d) = w
    BY <1>7, <1>12, MadeGood
  <1>14. d.idx = b.idx /\ d.pad = pad /\ d.free = free /\ d.keys = keys /\ d.state = state
    BY <1>12 DEF Made
  <1>15. Reads(d, r, text)
    <2>1. \A i \in 1 .. Len(text) : new[p + i] = text[i]
      <3> SUFFICES ASSUME NEW i \in 1 .. Len(text) PROVE new[p + i] = text[i]
        OBVIOUS
      <3>1. p + i <= b.cap
        BY <1>3, <1>4
      <3> QED
        BY <1>6, <3>1
    <2> QED
      BY <1>2, <1>3, <1>4, <1>10, <1>11, <1>13, <1>14, <2>1 DEF Reads
  <1>16. ASSUME NEW q, NEW t, q # r, Reads(b, q, t) PROVE Reads(d, q, t)
    <2>1. q \in 1 .. w
      BY <1>16 DEF Reads
    <2>2. d.pad[q] = b.pad[q] /\ d.keys[q] = b.keys[q] /\ d.state[q] = b.state[q]
      BY <1>10, <1>14, <1>16, <2>1
    <2>3. d.free[q] <=> b.free[q]
      BY <1>11, <1>14, <1>16, <2>1
    <2> QED
      BY <1>13, <1>14, <1>16, <2>1, <2>2, <2>3 DEF Reads
  <1>17. Width(b) <= Width(d)
    BY <1>1, <1>13 DEF Parts
  <1> QED
    BY <1>13, <1>15, <1>16, <1>17 DEF Joins, d

\* x after old's, then others.
Longer(s, old, w, x, all, S) ==
    s \in [1 .. all -> S] /\ s[w + 1] = x /\ \A r \in 1 .. w : s[r] = old[r]

LEMMA LongerIs ==
  ASSUME NEW w \in Nat, NEW extra \in Nat, NEW S, NEW old \in [1 .. w -> S], NEW x \in S, NEW y \in S
  PROVE  Longer(old \o <<x>> \o [k \in 1 .. extra |-> y], old, w, x, w + 1 + extra, S)
  <1> DEFINE last == [k \in 1 .. extra |-> y]
             one == old \o <<x>>
             two == one \o last
  <1>1. old \in Seq(S) /\ Len(old) = w /\ <<x>> \in Seq(S) /\ Len(<<x>>) = 1
    BY FunctionIsSeq
  <1>2. last \in [1 .. extra -> S]
    OBVIOUS
  <1> HIDE DEF last
  <1>3. last \in Seq(S) /\ Len(last) = extra
    BY <1>2, FunctionIsSeq
  <1>4. one \in Seq(S) /\ Len(one) = w + 1 /\ one[w + 1] = x /\ \A r \in 1 .. w : one[r] = old[r]
    BY <1>3, <1>1
  <1> HIDE DEF one
  <1>5. two \in Seq(S) /\ Len(two) = Len(one) + Len(last) /\ \A i \in 1 .. Len(one) : two[i] = one[i]
    <2>1. one \in Seq(S) /\ last \in Seq(S)
      BY <1>3, <1>4
    <2> QED
      BY <2>1, Joined
  <1>6. two = old \o <<x>> \o [k \in 1 .. extra |-> y]
    BY DEF one, last
  <1> HIDE DEF two
  <1>7. Len(two) = w + 1 + extra /\ w + 1 + extra \in Nat
    BY <1>3, <1>3, <1>4, <1>5
  <1>8. two \in [1 .. w + 1 + extra -> S]
    BY <1>5, <1>7
  <1>9. two[w + 1] = x /\ \A r \in 1 .. w : two[r] = old[r]
    <2>1. w + 1 \in 1 .. Len(one) /\ \A r \in 1 .. w : r \in 1 .. Len(one)
      BY <1>3, <1>4
    <2> QED
      BY <1>4, <1>5, <2>1
  <1> QED
    BY <1>6, <1>8, <1>9 DEF Longer

\* A new row, with free ones after it, leaves those before.
LEMMA AppendRowsIs ==
  ASSUME NEW b, Good(b), NEW c, NEW text, Holds(c, text), c.offset <= b.idx, NEW extra \in Nat
  PROVE  Joins(b, AppendRows(b, c, extra), Width(b) + 1, text)
  <1> DEFINE w == Width(b)
             all == w + 1 + extra
             p == b.idx - c.offset
             new == Place(c.keys, 0, c.offset, p, b.cap)
             spare(x) == [k \in 1 .. extra |-> x]
             padded == AtLeastZero(b.idx - 1)
             pad == b.pad \o <<p>> \o spare(padded)
             free == b.free \o <<FALSE>> \o spare(TRUE)
             keys == b.keys \o <<new>> \o spare(Blanks(b.cap))
             state == b.state \o <<c.state>> \o spare(<<>>)
             d == AppendRows(b, c, extra)
  <1>1. Parts(w, b.idx, b.cap, b.pad, b.free, b.keys, b.state)
    BY GoodIs DEF Parts
  <1>2. /\ text \in Seq(Nat) /\ c.state = text /\ c.offset = Len(text) /\ Len(text) \in Nat
        /\ c.keys \in Seq(Nat) /\ c.offset <= Len(c.keys)
        /\ \A i \in 1 .. Len(text) : c.keys[i] = text[i]
    BY DEF Holds, CacheSet
  <1>3. p \in 0 .. b.idx /\ p + Len(text) = b.idx /\ b.idx \in Nat /\ b.cap \in Nat /\ b.idx <= b.cap
        /\ w \in Nat
    BY <1>1, <1>2 DEF Parts
  <1> HIDE DEF p
  <1>4. Lies(new, c.keys, 0, c.offset, p, b.cap)
    <2>1. 0 \in Nat /\ c.offset \in Nat /\ 0 <= c.offset /\ p \in Nat /\ p + (c.offset - 0) <= b.cap
      BY <1>2, <1>3
    <2> QED
      BY <1>2, <1>3, <2>1, PlaceIs
  <1> HIDE DEF new
  <1>6. padded \in 0 .. b.idx
    BY <1>3 DEF AtLeastZero
  <1>7. new \in Columns(b.cap) /\ Blanks(b.cap) \in Columns(b.cap)
    BY <1>3, <1>4, BlanksAre DEF Lies, Columns
  <1> HIDE DEF padded, spare
  <1>8. /\ b.pad \in [1 .. w -> 0 .. b.idx] /\ b.free \in [1 .. w -> BOOLEAN]
        /\ b.keys \in [1 .. w -> Columns(b.cap)] /\ b.state \in [1 .. w -> Seq(Nat)]
        /\ <<>> \in Seq(Nat) /\ TRUE \in BOOLEAN /\ FALSE \in BOOLEAN /\ all = w + 1 + extra
    BY <1>1 DEF Parts
  <1> HIDE DEF w, all
  <1>9. Longer(pad, b.pad, w, p, all, 0 .. b.idx)
    BY <1>3, <1>6, <1>8, LongerIs DEF spare
  <1>10. Longer(keys, b.keys, w, new, all, Columns(b.cap)) /\ Longer(state, b.state, w, c.state, all, Seq(Nat))
    <2>1. Longer(keys, b.keys, w, new, all, Columns(b.cap))
      BY <1>3, <1>7, <1>8, LongerIs DEF spare
    <2>2. Longer(state, b.state, w, c.state, all, Seq(Nat))
      BY <1>2, <1>3, <1>8, LongerIs DEF spare
    <2> QED
      BY <2>1, <2>2
  <1>11. Longer(free, b.free, w, FALSE, all, BOOLEAN)
    BY <1>3, <1>8, LongerIs DEF spare
  <1>12. b = Made(b.idx, b.cap, b.pad, b.free, b.keys, b.state)
    BY BatchIs
  <1>13. d = [b EXCEPT !.pad = pad, !.free = free, !.keys = keys, !.state = state]
    BY <1>12 DEF AppendRows, Made, new, p, padded, spare, w
  <1> HIDE DEF d, pad, free, keys, state
  <1>14. d = Made(b.idx, b.cap, pad, free, keys, state)
    BY <1>12, <1>13 DEF Made
  <1>15. Parts(all, b.idx, b.cap, pad, free, keys, state)
    <2>1. all \in Nat
      BY <1>3, <1>8
    <2> QED
      BY <1>3, <1>9, <1>10, <1>11, <2>1 DEF Parts, Longer
  <1>16. Good(d) /\ Width(d) = all
    BY <1>14, <1>15, MadeGood
  <1>17. d.idx = b.idx /\ d.pad = pad /\ d.free = free /\ d.keys = keys /\ d.state = state
    BY <1>14 DEF Made
  <1>18. Reads(d, w + 1, text)
    <2>1. \A i \in 1 .. Len(text) : new[p + i] = text[i]
      <3> SUFFICES ASSUME NEW i \in 1 .. Len(text) PROVE new[p + i] = text[i]
        OBVIOUS
      <3>1. i \in 1 .. c.offset - 0 /\ 0 + i = i
        BY <1>2
      <3>2. new[p + i] = c.keys[0 + i]
        BY <1>4, <3>1 DEF Lies
      <3> QED
        BY <1>2, <3>1, <3>2
    <2>2. w + 1 \in 1 .. Width(d) /\ ~d.free[w + 1] /\ d.pad[w + 1] = p /\ d.keys[w + 1] = new
          /\ d.state[w + 1] = text
      <3>1. w + 1 \in 1 .. Width(d)
        BY <1>3, <1>8, <1>16
      <3>2. d.pad[w + 1] = p /\ d.keys[w + 1] = new /\ d.state[w + 1] = text
        BY <1>2, <1>9, <1>10, <1>17 DEF Longer
      <3>3. ~d.free[w + 1]
        BY <1>11, <1>17 DEF Longer
      <3> QED
        BY <3>1, <3>2, <3>3
    <2> QED
      BY <1>2, <1>3, <1>17, <2>1, <2>2 DEF Reads
  <1>19. ASSUME NEW q, NEW t, Reads(b, q, t) PROVE Reads(d, q, t)
    <2>1. q \in 1 .. w
      BY <1>19 DEF Reads, w
    <2>2. d.pad[q] = b.pad[q] /\ d.keys[q] = b.keys[q] /\ d.state[q] = b.state[q] /\ d.free[q] = b.free[q]
      BY <1>9, <1>10, <1>11, <1>17, <2>1 DEF Longer
    <2>3. q \in 1 .. Width(d)
      BY <1>3, <1>8, <1>16, <2>1
    <2> QED
      BY <1>17, <1>19, <2>2, <2>3 DEF Reads
  <1>20. Width(b) <= Width(d)
    BY <1>3, <1>8, <1>16 DEF w
  <1> QED
    BY <1>16, <1>18, <1>19, <1>20 DEF Joins, d, w

\* The newcomer gets nobody's row.
LEMMA JoinsAtIs ==
  ASSUME NEW b, Good(b)
  PROVE  /\ FreeRows(b) # {} => JoinsAt(b) \in FreeRows(b)
         /\ FreeRows(b) = {} => JoinsAt(b) = Width(b) + 1
         /\ \A t : ~Reads(b, JoinsAt(b), t)
  <1>1. Width(b) \in Nat /\ FreeRows(b) = {r \in 1 .. Width(b) : b.free[r]}
    BY GoodIs DEF FreeRows
  <1>2. CASE FreeRows(b) # {}
    <2>1. FreeRows(b) \subseteq Int /\ \A i \in FreeRows(b) : 0 <= i
      BY <1>1
    <2>2. Min(FreeRows(b)) \in FreeRows(b)
      BY <1>2, <2>1, MinIs
    <2> QED
      BY <1>1, <1>2, <2>2 DEF JoinsAt, Reads
  <1>3. CASE FreeRows(b) = {}
    <2>1. JoinsAt(b) = Width(b) + 1
      BY <1>3 DEF JoinsAt
    <2>2. ~(JoinsAt(b) \in 1 .. Width(b))
      BY <1>1, <2>1
    <2> QED
      BY <1>3, <2>1, <2>2 DEF Reads
  <1> QED
    BY <1>2, <1>3

\* Add: the newcomer's row has read its text, the others theirs.
LEMMA AddIs ==
  ASSUME NEW b, Good(b), NEW c, NEW text, Holds(c, text), NEW room \in Int
  PROVE  Joins(b, Add(b, c, room), JoinsAt(b), text)
  <1>1. Width(b) \in Nat /\ b.idx \in Nat
    BY GoodIs
  <1>2. /\ text \in Seq(Nat) /\ c.state = text /\ c.offset = Len(text) /\ c.offset \in Nat
        /\ c.keys \in Seq(Nat) /\ c.offset <= Len(c.keys)
        /\ \A i \in 1 .. Len(text) : c.keys[i] = text[i]
    BY DEF Holds, CacheSet
  <1>3. CASE Width(b) = 0
    <2> DEFINE d == Add(b, c, room)
    <2>1. d = Made(c.offset, Len(c.keys), <<0>>, <<FALSE>>, <<c.keys>>, <<c.state>>)
      BY <1>3 DEF Add, Made
    <2> HIDE DEF d
    <2>2. Parts(1, c.offset, Len(c.keys), <<0>>, <<FALSE>>, <<c.keys>>, <<c.state>>)
      <3>1. <<0>> \in [1 .. 1 -> 0 .. c.offset] /\ <<FALSE>> \in [1 .. 1 -> BOOLEAN]
        <4>1. <<0>> \in [1 .. 1 -> 0 .. c.offset]
          BY <1>2
        <4>2. <<FALSE>> \in [1 .. 1 -> BOOLEAN]
          <5> DEFINE f == <<FALSE>>
          <5>1. f \in Seq(BOOLEAN) /\ Len(f) = 1
            OBVIOUS
          <5> HIDE DEF f
          <5>2. f \in [1 .. 1 -> BOOLEAN]
            BY <5>1
          <5> QED
            BY <5>2 DEF f
        <4> QED
          BY <4>1, <4>2
      <3>2. <<c.keys>> \in [1 .. 1 -> Columns(Len(c.keys))]
        BY <1>2 DEF Columns
      <3>3. <<c.state>> \in [1 .. 1 -> Seq(Nat)]
        BY <1>2
      <3> QED
        BY <1>2, <3>1, <3>2, <3>3 DEF Parts
    <2>3. Good(d) /\ Width(d) = 1
      BY <2>1, <2>2, MadeGood
    <2>4. /\ d.idx = c.offset /\ d.pad[1] = 0 /\ d.free[1] = FALSE /\ d.keys[1] = c.keys
          /\ d.state[1] = c.state
      BY <2>1 DEF Made
    <2>5. FreeRows(b) = {} /\ JoinsAt(b) = 1
      BY <1>3 DEF FreeRows, JoinsAt
    <2>6. Reads(d, 1, text)
      <3>1. 0 + Len(text) = c.offset /\ \A i \in 1 .. Len(text) : 0 + i = i
        BY <1>2
      <3>2. 1 \in 1 .. 1
        OBVIOUS
      <3> QED
        BY <1>2, <2>3, <2>4, <3>1, <3>2 DEF Reads
    <2>7. \A q, t : ~Reads(b, q, t)
      BY <1>3 DEF Reads
    <2> QED
      BY <1>3, <2>3, <2>5, <2>6, <2>7 DEF Joins, d
  <1>4. CASE Width(b) # 0
    <2> DEFINE most == b.idx - c.offset
               cut == Trim(b, most)
               wide == MakeRoom(cut, c.offset)
               extra == AtLeastZero(room - Width(b) - 1)
    <2>1. most \in Int /\ most <= b.idx
      BY <1>1, <1>2
    <2> HIDE DEF most
    <2>2. Kin(b, cut)
      BY <2>1, TrimIs
    <2> HIDE DEF cut
    <2>3. Kin(cut, wide) /\ c.offset <= wide.idx
      BY <1>2, <2>2, MakeRoomIs DEF Kin
    <2>4. Add(b, c, room) = IF FreeRows(b) # {} THEN Fill(wide, JoinsAt(b), c) ELSE AppendRows(wide, c, extra)
      BY <1>4 DEF Add, cut, most
    <2>5. extra \in Nat
      BY <1>1 DEF AtLeastZero
    <2> HIDE DEF wide, extra
    <2>6. /\ Good(wide) /\ Width(wide) = Width(b) /\ wide.free = b.free
          /\ \A r, t : Reads(b, r, t) => Reads(wide, r, t)
      BY <2>2, <2>3 DEF Kin
    <2>7. FreeRows(wide) = FreeRows(b)
      BY <2>6 DEF FreeRows
    <2>8. CASE FreeRows(b) # {}
      <3>1. JoinsAt(b) \in FreeRows(wide)
        BY <2>7, <2>8, JoinsAtIs
      <3>2. Joins(wide, Fill(wide, JoinsAt(b), c), JoinsAt(b), text)
        BY <2>3, <2>6, <3>1, FillIs
      <3> QED
        BY <2>4, <2>6, <2>8, <3>2 DEF Joins
    <2>9. CASE FreeRows(b) = {}
      <3>1. JoinsAt(b) = Width(wide) + 1
        BY <2>6, <2>9, JoinsAtIs
      <3>2. Joins(wide, AppendRows(wide, c, extra), Width(wide) + 1, text)
        BY <2>3, <2>5, <2>6, AppendRowsIs
      <3> QED
        BY <2>4, <2>6, <2>9, <3>1, <3>2 DEF Joins
    <2> QED
      BY <2>8, <2>9
  <1> QED
    BY <1>3, <1>4

LEMMA EmptyGood == Good(EmptyBatch) /\ Width(EmptyBatch) = 0
  <1>1. EmptyBatch = Made(0, 0, <<>>, <<>>, <<>>, <<>>)
    BY DEF EmptyBatch, Made
  <1>2. Parts(0, 0, 0, <<>>, <<>>, <<>>, <<>>)
    BY DEF Parts
  <1> QED
    BY <1>1, <1>2, MadeGood

\* Compact takes each row that stays to its place among them.
LEMMA CompactedIs ==
  ASSUME NEW b, Good(b)
  PROVE  /\ Good(Compacted(b)) /\ Width(Compacted(b)) = Len(Kept(b))
         /\ \A k \in 1 .. Len(Kept(b)) : \A t : Reads(b, Kept(b)[k], t) => Reads(Compacted(b), k, t)
  <1> DEFINE w == Width(b)
             kept == Kept(b)
             m == Len(kept)
             pad == Taken(b.pad, kept)
             free == Taken(b.free, kept)
             keys == Taken(b.keys, kept)
             state == Taken(b.state, kept)
             rest == [b EXCEPT !.pad = pad, !.free = free, !.keys = keys, !.state = state]
  <1>1. Parts(w, b.idx, b.cap, b.pad, b.free, b.keys, b.state)
    BY GoodIs DEF Parts
  <1>2. kept \in Seq(Nat) /\ ToSet(kept) = LiveRows(b)
    BY GoodIs, KeptIs
  <1> HIDE DEF kept
  <1>3. m \in Nat /\ DOMAIN kept = 1 .. m /\ \A k \in 1 .. m : kept[k] \in 1 .. w
    BY <1>2 DEF ToSet, LiveRows
  <1>4. CASE kept = <<>>
    <2>1. Compacted(b) = EmptyBatch /\ m = 0
      BY <1>4 DEF Compacted, kept
    <2> QED
      BY <2>1, EmptyGood DEF kept
  <1>5. CASE kept # <<>>
    <2>1. Compacted(b) = Trim(rest, b.idx)
      BY <1>5 DEF Compacted, kept
    <2>2. \A k \in 1 .. m : /\ pad[k] = b.pad[kept[k]] /\ free[k] = b.free[kept[k]]
                            /\ keys[k] = b.keys[kept[k]] /\ state[k] = b.state[kept[k]]
      BY <1>3 DEF Taken
    <2>3. pad \in [1 .. m -> 0 .. b.idx]
      BY <1>1, <1>3 DEF Taken, Parts
    <2>4. free \in [1 .. m -> BOOLEAN]
      <3>1. \A k \in 1 .. m : b.free[kept[k]] \in BOOLEAN
        BY <1>1, <1>3 DEF Parts
      <3> QED
        BY <1>3, <3>1 DEF Taken
    <2>5. keys \in [1 .. m -> Columns(b.cap)]
      BY <1>1, <1>3 DEF Taken, Parts
    <2>6. state \in [1 .. m -> Seq(Nat)]
      BY <1>1, <1>3 DEF Taken, Parts
    <2>7. b = Made(b.idx, b.cap, b.pad, b.free, b.keys, b.state)
      BY BatchIs
    <2> HIDE DEF pad, free, keys, state
    <2>8. rest = Made(b.idx, b.cap, pad, free, keys, state)
      <3>1. rest = [b EXCEPT !.pad = pad, !.free = free, !.keys = keys, !.state = state]
        OBVIOUS
      <3> HIDE DEF rest
      <3> QED
        BY <2>7, <3>1 DEF Made
    <2> HIDE DEF rest, m
    <2>9. Parts(m, b.idx, b.cap, pad, free, keys, state)
      BY <1>1, <1>3, <2>3, <2>4, <2>5, <2>6 DEF Parts
    <2>10. Good(rest) /\ Width(rest) = m
      BY <2>8, <2>9, MadeGood
    <2>11. rest.idx = b.idx /\ rest.pad = pad /\ rest.free = free /\ rest.keys = keys /\ rest.state = state
      BY <2>8 DEF Made
    <2>12. b.idx \in Int /\ b.idx <= rest.idx
      BY <1>1, <2>11 DEF Parts
    <2>13. Kin(rest, Trim(rest, b.idx))
      BY <2>10, <2>12, TrimIs
    <2>14. ASSUME NEW k \in 1 .. m, NEW t, Reads(b, kept[k], t) PROVE Reads(rest, k, t)
      <3>1. k \in 1 .. Width(rest)
        BY <2>10
      <3> QED
        BY <2>2, <2>11, <2>14, <3>1 DEF Reads
    <2> QED
      BY <2>1, <2>10, <2>13, <2>14 DEF Kin, kept, m
  <1> QED
    BY <1>4, <1>5

\* A step: every row reads one token more.
LEMMA StepIs ==
  ASSUME NEW b, Good(b), NEW toks, \A r \in 1 .. Width(b) : toks[r] \in Nat
  PROVE  /\ Good(StepBatch(b, toks)) /\ Width(StepBatch(b, toks)) = Width(b)
         /\ \A r, t : Reads(b, r, t) => Reads(StepBatch(b, toks), r, Append(t, toks[r]))
  <1> DEFINE w == Width(b)
             cap == IF b.cap > b.idx THEN b.cap ELSE RoundUp(b.idx + 1)
             place(r) == Place(b.keys[r], 0, b.idx, 0, cap)
             keys == [r \in 1 .. w |-> Written(place(r), b.idx, <<toks[r]>>)]
             state == [r \in 1 .. w |-> Append(b.state[r], toks[r])]
             c == StepBatch(b, toks)
  <1>1. Parts(w, b.idx, b.cap, b.pad, b.free, b.keys, b.state)
    BY GoodIs DEF Parts
  <1>2. b.idx \in Nat /\ b.cap \in Nat /\ b.idx <= b.cap /\ b.idx + 1 \in Nat
    BY <1>1 DEF Parts
  <1>3. cap \in Nat /\ b.idx + 1 <= cap
    <2>1. RoundUp(b.idx + 1) \in Nat /\ b.idx + 1 <= RoundUp(b.idx + 1)
      BY <1>2, RoundUpIs
    <2> QED
      BY <1>2, <2>1
  <1> HIDE DEF cap
  <1>4. \A r \in 1 .. w : Lies(place(r), b.keys[r], 0, b.idx, 0, cap)
    <2> SUFFICES ASSUME NEW r \in 1 .. w PROVE Lies(place(r), b.keys[r], 0, b.idx, 0, cap)
      OBVIOUS
    <2>1. b.keys[r] \in Seq(Nat) /\ Len(b.keys[r]) = b.cap
      BY <1>1 DEF Parts, Columns
    <2>2. 0 <= b.idx /\ b.idx <= Len(b.keys[r]) /\ 0 + (b.idx - 0) <= cap /\ 0 \in Nat
      BY <1>2, <1>3, <2>1
    <2> QED
      BY <1>2, <1>3, <2>1, <2>2, PlaceIs
  <1> HIDE DEF place
  <1>5. ASSUME NEW r \in 1 .. w
        PROVE  /\ keys[r] \in Columns(cap)
               /\ \A i \in 1 .. b.idx : keys[r][i] = b.keys[r][i]
               /\ keys[r][b.idx + 1] = toks[r]
    <2> DEFINE p == place(r)
               one == <<toks[r]>>
               new == Written(p, b.idx, one)
    <2>1. p \in Seq(Nat) /\ Len(p) = cap /\ \A i \in 1 .. b.idx : p[i] = b.keys[r][i]
      BY <1>2, <1>4 DEF Lies
    <2>2. one \in Seq(Nat) /\ Len(one) = 1 /\ one[1] = toks[r]
      OBVIOUS
    <2>3. keys[r] = new
      OBVIOUS
    <2> HIDE DEF p, one, keys
    <2>4. /\ new \in Seq(Nat) /\ Len(new) = Len(p)
          /\ \A k \in 1 .. Len(p) : k <= b.idx => new[k] = p[k]
          /\ \A i \in 1 .. Len(one) : b.idx + i <= Len(p) => new[b.idx + i] = one[i]
      BY <1>2, <2>1, <2>2, WrittenIs
    <2> HIDE DEF new
    <2>5. 1 \in 1 .. Len(one) /\ b.idx + 1 <= Len(p)
      BY <1>3, <2>1, <2>2
    <2>6. new[b.idx + 1] = toks[r]
      BY <2>2, <2>4, <2>5
    <2>7. \A i \in 1 .. b.idx : i \in 1 .. Len(p) /\ i <= b.idx
      BY <1>2, <1>3, <2>1
    <2> QED
      BY <2>1, <2>3, <2>4, <2>6, <2>7 DEF Columns
  <1>6. keys \in [1 .. w -> Columns(cap)]
    <2> DEFINE value(r) == Written(place(r), b.idx, <<toks[r]>>)
    <2>1. \A r \in 1 .. w : keys[r] = value(r)
      OBVIOUS
    <2>2. \A r \in 1 .. w : value(r) \in Columns(cap)
      BY <1>5, <2>1
    <2>3. keys = [r \in 1 .. w |-> value(r)]
      OBVIOUS
    <2> HIDE DEF value, keys
    <2> QED
      BY <2>2, <2>3
  <1>7. state \in [1 .. w -> Seq(Nat)] /\ \A r \in 1 .. w : state[r] = Append(b.state[r], toks[r])
    <2>1. \A r \in 1 .. w : Append(b.state[r], toks[r]) \in Seq(Nat)
      <3> SUFFICES ASSUME NEW r \in 1 .. w PROVE Append(b.state[r], toks[r]) \in Seq(Nat)
        OBVIOUS
      <3>1. b.state[r] \in Seq(Nat) /\ toks[r] \in Nat
        BY <1>1 DEF Parts
      <3> QED
        BY <3>1
    <2> QED
      BY <2>1
  <1>8. b = Made(b.idx, b.cap, b.pad, b.free, b.keys, b.state)
    BY BatchIs
  <1>9. c = Made(b.idx + 1, cap, b.pad, b.free, keys, state)
    <2>1. DOMAIN b.keys = 1 .. w /\ DOMAIN b.state = 1 .. w
      BY <1>1 DEF Parts
    <2>2. keys = [r \in DOMAIN b.keys |-> Written(Place(b.keys[r], 0, b.idx, 0, cap), b.idx, <<toks[r]>>)]
      BY <2>1 DEF place
    <2>3. state = [r \in DOMAIN b.state |-> Append(b.state[r], toks[r])]
      BY <2>1
    <2> HIDE DEF keys, state, c
    <2>4. c = [b EXCEPT !.idx = b.idx + 1, !.cap = cap, !.keys = keys, !.state = state]
      BY <1>8, <2>2, <2>3 DEF StepBatch, c, cap, Made
    <2> QED
      BY <1>8, <2>4 DEF Made
  <1> HIDE DEF c, keys, state
  <1>10. Parts(w, b.idx + 1, cap, b.pad, b.free, keys, state)
    <2>1. b.pad \in [1 .. w -> 0 .. b.idx + 1]
      BY <1>1, <1>2 DEF Parts
    <2> QED
      BY <1>1, <1>2, <1>3, <1>6, <1>7, <2>1 DEF Parts
  <1>11. Good(c) /\ Width(c) = w
    BY <1>9, <1>10, MadeGood
  <1>12. c.idx = b.idx + 1 /\ c.pad = b.pad /\ c.free = b.free /\ c.keys = keys /\ c.state = state
    BY <1>9 DEF Made
  <1>13. ASSUME NEW r, NEW t, Reads(b, r, t) PROVE Reads(c, r, Append(t, toks[r]))
    <2> DEFINE u == Append(t, toks[r])
               p == b.pad[r]
    <2>1. /\ r \in 1 .. w /\ ~b.free[r] /\ t \in Seq(Nat) /\ p + Len(t) = b.idx /\ b.state[r] = t
          /\ \A i \in 1 .. Len(t) : b.keys[r][p + i] = t[i]
      BY <1>13 DEF Reads
    <2>2. toks[r] \in Nat /\ p \in Nat /\ Len(t) \in Nat
      BY <1>1, <2>1 DEF Parts
    <2>3. u \in Seq(Nat) /\ Len(u) = Len(t) + 1 /\ u[Len(t) + 1] = toks[r] /\ \A i \in 1 .. Len(t) : u[i] = t[i]
      BY <2>1, <2>2
    <2>4. state[r] = u
      BY <1>7, <2>1
    <2> HIDE DEF u
    <2> DEFINE l == Len(t)
    <2>7. l \in Nat /\ p \in Nat /\ b.idx = p + l
      BY <2>1, <2>2
    <2>5. c.pad[r] + Len(u) = c.idx
      <3>1. c.pad[r] = p /\ Len(u) = l + 1 /\ c.idx = b.idx + 1
        BY <1>12, <2>3
      <3> HIDE DEF l, p
      <3> QED
        BY <2>7, <3>1
    <2>6. ASSUME NEW i \in 1 .. Len(u) PROVE c.keys[r][c.pad[r] + i] = u[i]
      <3>1. CASE i = Len(t) + 1
        <4>1. p + i = b.idx + 1
          <5>1. i = l + 1
            BY <3>1
          <5> HIDE DEF l, p
          <5> QED
            BY <2>7, <5>1
        <4> QED
          BY <1>5, <1>12, <2>1, <2>3, <3>1, <4>1
      <3>2. CASE i # Len(t) + 1
        <4>1. i \in 1 .. Len(t)
          BY <2>2, <2>3, <3>2
        <4>2. p + i \in 1 .. b.idx
          <5>1. i \in 1 .. l
            BY <4>1
          <5> HIDE DEF l, p
          <5> QED
            BY <2>7, <5>1
        <4>3. c.keys[r][c.pad[r] + i] = b.keys[r][p + i]
          BY <1>5, <1>12, <2>1, <4>2
        <4>4. b.keys[r][p + i] = u[i]
          BY <2>1, <2>3, <4>1
        <4> QED
          BY <4>3, <4>4
      <3> QED
        BY <3>1, <3>2
    <2> QED
      BY <1>11, <1>12, <2>1, <2>3, <2>4, <2>5, <2>6 DEF Reads, u
  <1> QED
    BY <1>11, <1>13 DEF c, w

-----------------------------------------------------------------------------
(* What the model writes.                                                  *)

\* w is what the model writes after p.
AsAlone(p, w) == \A i \in DOMAIN w : w[i] = Says(p \o SubSeq(w, 1, i - 1))

LEMMA SaysIs == \A t \in Seq(Nat) : Says(t) \in Nat
  BY ModelIs DEF Says

\* A beginning of two texts, one after the other.
LEMMA BeginningOfBoth ==
  ASSUME NEW a \in Seq(Nat), NEW b \in Seq(Nat)
  PROVE  /\ \A n \in 0 .. Len(a) : SubSeq(a \o b, 1, n) = SubSeq(a, 1, n)
         /\ \A n \in 0 .. Len(b) : SubSeq(a \o b, 1, Len(a) + n) = a \o SubSeq(b, 1, n)
  <1> DEFINE c == a \o b
  <1>0. Len(a) \in Nat /\ Len(b) \in Nat
    OBVIOUS
  <1>1. c \in Seq(Nat) /\ Len(c) = Len(a) + Len(b) /\ (\A i \in 1 .. Len(a) : c[i] = a[i])
        /\ \A i \in 1 .. Len(b) : c[Len(a) + i] = b[i]
    BY Joined
  <1> HIDE DEF c
  <1>2. ASSUME NEW n \in 0 .. Len(a) PROVE SubSeq(c, 1, n) = SubSeq(a, 1, n)
    <2> DEFINE s == SubSeq(c, 1, n)
               t == SubSeq(a, 1, n)
    <2>1. n \in 0 .. Len(c)
      BY <1>0, <1>1
    <2>2. s \in Seq(Nat) /\ Len(s) = n /\ \A i \in 1 .. n : s[i] = c[i]
      BY <1>1, <2>1, BeginningIs
    <2>3. t \in Seq(Nat) /\ Len(t) = n /\ \A i \in 1 .. n : t[i] = a[i]
      BY BeginningIs
    <2> HIDE DEF s, t
    <2>4. \A i \in 1 .. Len(s) : s[i] = t[i]
      <3>1. \A i \in 1 .. n : i \in 1 .. Len(a)
        BY <1>0
      <3> QED
        BY <1>1, <2>2, <2>3, <3>1
    <2>5. s = t
      BY <2>2, <2>3, <2>4, SameText
    <2> QED
      BY <2>5 DEF s, t
  <1>3. ASSUME NEW n \in 0 .. Len(b) PROVE SubSeq(c, 1, Len(a) + n) = a \o SubSeq(b, 1, n)
    <2> DEFINE l == Len(a)
               s == SubSeq(c, 1, l + n)
               u == SubSeq(b, 1, n)
               t == a \o u
    <2>1. l + n \in 0 .. Len(c) /\ l \in Nat /\ n \in Nat
      BY <1>0, <1>1
    <2>2. s \in Seq(Nat) /\ Len(s) = l + n /\ \A i \in 1 .. l + n : s[i] = c[i]
      <3> DEFINE k == l + n
      <3>1. k \in 0 .. Len(c)
        BY <2>1
      <3> HIDE DEF k
      <3>2. SubSeq(c, 1, k) \in Seq(Nat) /\ Len(SubSeq(c, 1, k)) = k /\ \A i \in 1 .. k : SubSeq(c, 1, k)[i] = c[i]
        BY <1>1, <3>1, BeginningIs
      <3> QED
        BY <3>2 DEF k
    <2>3. u \in Seq(Nat) /\ Len(u) = n /\ \A i \in 1 .. n : u[i] = b[i]
      BY BeginningIs
    <2> HIDE DEF u
    <2>4. t \in Seq(Nat) /\ Len(t) = Len(a) + Len(u) /\ (\A i \in 1 .. Len(a) : t[i] = a[i])
          /\ \A i \in 1 .. Len(u) : t[Len(a) + i] = u[i]
      <3>1. u \in Seq(Nat)
        BY <2>3
      <3> QED
        BY <3>1, Joined
    <2> HIDE DEF s, t
    <2>5. ASSUME NEW i \in 1 .. Len(s) PROVE s[i] = t[i]
      <3>1. i \in 1 .. l + n
        BY <2>2
      <3>2. CASE i <= l
        <4>1. i \in 1 .. Len(a)
          BY <2>1, <3>1, <3>2
        <4> QED
          BY <1>1, <2>2, <2>4, <3>1, <4>1
      <3>3. CASE ~(i <= l)
        <4> DEFINE k == i - l
        <4>1. k \in 1 .. n /\ l + k = i
          BY <2>1, <3>1, <3>3
        <4> HIDE DEF k
        <4>2. k \in 1 .. Len(b) /\ k \in 1 .. Len(u)
          BY <1>0, <2>3, <4>1
        <4>3. c[l + k] = b[k] /\ t[l + k] = u[k] /\ u[k] = b[k]
          BY <1>1, <2>3, <2>4, <4>1, <4>2
        <4> QED
          BY <2>2, <3>1, <4>1, <4>3
      <3> QED
        BY <3>2, <3>3
    <2>6. Len(s) = Len(t)
      BY <2>2, <2>3, <2>4
    <2>7. s = t
      BY <2>2, <2>4, <2>5, <2>6, SameText
    <2> QED
      BY <2>7 DEF s, t, u
  <1> QED
    BY <1>2, <1>3 DEF c

\* A reply goes on as it would alone.
LEMMA AloneOn ==
  ASSUME NEW p \in Seq(Nat), NEW g \in Seq(Nat), NEW w \in Seq(Nat), AsAlone(p, g), AsAlone(p \o g, w)
  PROVE  AsAlone(p, g \o w)
  <1> DEFINE both == g \o w
  <1>1. both \in Seq(Nat) /\ Len(both) = Len(g) + Len(w) /\ (\A i \in 1 .. Len(g) : both[i] = g[i])
        /\ \A i \in 1 .. Len(w) : both[Len(g) + i] = w[i]
    BY Joined
  <1>2. Len(g) \in Nat /\ Len(w) \in Nat /\ DOMAIN g = 1 .. Len(g) /\ DOMAIN w = 1 .. Len(w)
    OBVIOUS
  <1>3. DOMAIN both = 1 .. Len(g) + Len(w)
    BY <1>1
  <1>4. /\ \A n \in 0 .. Len(g) : SubSeq(both, 1, n) = SubSeq(g, 1, n)
        /\ \A n \in 0 .. Len(w) : SubSeq(both, 1, Len(g) + n) = g \o SubSeq(w, 1, n)
    BY BeginningOfBoth
  <1> HIDE DEF both
  <1> SUFFICES ASSUME NEW i \in DOMAIN both PROVE both[i] = Says(p \o SubSeq(both, 1, i - 1))
    BY DEF AsAlone, both
  <1>5. CASE i <= Len(g)
    <2>1. i \in 1 .. Len(g) /\ i - 1 \in 0 .. Len(g)
      BY <1>2, <1>3, <1>5
    <2>2. both[i] = g[i] /\ SubSeq(both, 1, i - 1) = SubSeq(g, 1, i - 1)
      BY <1>1, <1>4, <2>1
    <2>3. g[i] = Says(p \o SubSeq(g, 1, i - 1))
      BY <1>2, <2>1 DEF AsAlone
    <2> QED
      BY <2>2, <2>3
  <1>6. CASE ~(i <= Len(g))
    <2> DEFINE k == i - Len(g)
               s == SubSeq(w, 1, k - 1)
    <2>1. k \in 1 .. Len(w) /\ k - 1 \in 0 .. Len(w) /\ Len(g) + k = i /\ Len(g) + (k - 1) = i - 1
      BY <1>2, <1>3, <1>6
    <2> HIDE DEF k
    <2>2. both[i] = w[k] /\ SubSeq(both, 1, i - 1) = g \o s
      BY <1>1, <1>4, <2>1
    <2>3. w[k] = Says((p \o g) \o s)
      BY <1>2, <2>1 DEF AsAlone
    <2>4. s \in Seq(Nat)
      BY <2>1, BeginningIs
    <2>5. (p \o g) \o s = p \o (g \o s)
      <3> HIDE DEF s
      <3> QED
        BY <2>4, Together
    <2> QED
      BY <2>2, <2>3, <2>5
  <1> QED
    BY <1>5, <1>6

\* A beginning of what the model writes is what it writes.
LEMMA AloneBegins ==
  ASSUME NEW p \in Seq(Nat), NEW w \in Seq(Nat), AsAlone(p, w), NEW m \in 0 .. Len(w)
  PROVE  AsAlone(p, SubSeq(w, 1, m))
  <1> DEFINE u == SubSeq(w, 1, m)
  <1>1. u \in Seq(Nat) /\ Len(u) = m /\ \A i \in 1 .. m : u[i] = w[i]
    BY BeginningIs
  <1>2. DOMAIN u = 1 .. m /\ DOMAIN w = 1 .. Len(w) /\ m \in Nat /\ Len(w) \in Nat
    BY <1>1
  <1> SUFFICES ASSUME NEW i \in DOMAIN u PROVE u[i] = Says(p \o SubSeq(u, 1, i - 1))
    BY DEF AsAlone
  <1> HIDE DEF u
  <1>3. i \in 1 .. m /\ i \in 1 .. Len(w) /\ i - 1 \in 0 .. m /\ i - 1 \in 0 .. Len(w)
    BY <1>2
  <1>4. SubSeq(u, 1, i - 1) = SubSeq(w, 1, i - 1)
    <2> DEFINE k == i - 1
               s == SubSeq(u, 1, k)
               t == SubSeq(w, 1, k)
    <2>1. k \in 0 .. Len(u) /\ k \in 0 .. Len(w)
      BY <1>1, <1>3
    <2> HIDE DEF k
    <2>2. s \in Seq(Nat) /\ Len(s) = k /\ \A x \in 1 .. k : s[x] = u[x]
      BY <1>1, <2>1, BeginningIs
    <2>3. t \in Seq(Nat) /\ Len(t) = k /\ \A x \in 1 .. k : t[x] = w[x]
      BY <2>1, BeginningIs
    <2>4. \A x \in 1 .. k : u[x] = w[x]
      BY <1>1, <1>2, <2>1
    <2> HIDE DEF s, t
    <2>5. s = t
      BY <2>2, <2>3, <2>4, SameText
    <2> QED
      BY <2>5 DEF s, t, k
  <1>5. w[i] = Says(p \o SubSeq(w, 1, i - 1))
    BY <1>2, <1>3 DEF AsAlone
  <1> QED
    BY <1>1, <1>3, <1>4, <1>5

LEMMA AloneOne ==
  ASSUME NEW p \in Seq(Nat)
  PROVE  AsAlone(p, <<Says(p)>>) /\ AsAlone(p, <<>>)
  <1>1. <<>> \in Seq(Nat) /\ Says(p) \in Nat
    BY SaysIs
  <1> DEFINE x == Says(p)
             s == SubSeq(<<x>>, 1, 0)
  <1>2. s = <<>> /\ DOMAIN <<x>> = {1} /\ <<x>>[1] = x /\ DOMAIN <<>> = {}
    OBVIOUS
  <1>3. p \o <<>> = p
    OBVIOUS
  <1>4. \A i \in {1} : i - 1 = 0
    OBVIOUS
  <1>5. AsAlone(p, <<x>>)
    <2> SUFFICES ASSUME NEW i \in DOMAIN <<x>> PROVE <<x>>[i] = Says(p \o SubSeq(<<x>>, 1, i - 1))
      BY DEF AsAlone
    <2>1. i = 1 /\ i - 1 = 0
      BY <1>2, <1>4
    <2> QED
      BY <1>2, <1>3, <2>1
  <1> QED
    BY <1>2, <1>5 DEF AsAlone

\* A token more.
LEMMA AloneAppend ==
  ASSUME NEW p \in Seq(Nat), NEW g \in Seq(Nat), AsAlone(p, g)
  PROVE  AsAlone(p, Append(g, Says(p \o g))) /\ Append(g, Says(p \o g)) \in Seq(Nat)
  <1> DEFINE x == Says(p \o g)
  <1>1. p \o g \in Seq(Nat)
    OBVIOUS
  <1>2. x \in Nat /\ AsAlone(p \o g, <<x>>)
    BY <1>1, SaysIs, AloneOne
  <1> HIDE DEF x
  <1>3. <<x>> \in Seq(Nat) /\ Append(g, x) = g \o <<x>> /\ Append(g, x) \in Seq(Nat)
    BY <1>2
  <1>4. AsAlone(p, g \o <<x>>)
    BY <1>2, <1>3, AloneOn
  <1> QED
    BY <1>3, <1>4 DEF x

\* What the model writes once it has read a text.
LEMMA WritesIs ==
  ASSUME NEW c, NEW text, Holds(c, text), NEW t \in Nat, NEW n \in Nat
  PROVE  Writes(c, t, n) \in Seq(Nat) /\ Len(Writes(c, t, n)) = n /\ AsAlone(text \o <<t>>, Writes(c, t, n))
  <1> DEFINE before == text \o <<t>>
             next(w) == Append(w, Model(Keys(c) \o <<t>> \o w, c.state \o <<t>> \o w))
             h == CHOOSE f : f = [i \in 0 .. n |-> IF i = 0 THEN <<>> ELSE next(f[i - 1])]
             X == [i \in 0 .. n |-> {w \in Seq(Nat) : Len(w) = i /\ AsAlone(before, w)}]
             g == [i \in 1 .. n |-> [w \in X[i - 1] |-> next(w)]]
  <1>1. Keys(c) = text /\ c.state = text /\ text \in Seq(Nat)
    BY HoldsIs DEF Holds
  <1>2. before \in Seq(Nat)
    BY <1>1
  <1>3. Writes(c, t, n) = h[n]
    BY DEF Writes
  <1>4. \A i \in 0 .. n : X[i] = {w \in Seq(Nat) : Len(w) = i /\ AsAlone(before, w)}
    OBVIOUS
  <1>5. \A i \in 1 .. n : \A w \in X[i - 1] : g[i][w] = next(w)
    <2> HIDE DEF X, next
    <2> QED
      OBVIOUS
  <1> HIDE DEF X, g
  <1>6. \A w : next(w) = Append(w, Says(before \o w))
    BY <1>1 DEF Says
  <1> HIDE DEF before, next
  <1>7. <<>> \in X[0]
    <2>1. <<>> \in Seq(Nat) /\ Len(<<>>) = 0 /\ 0 \in 0 .. n
      OBVIOUS
    <2>2. AsAlone(before, <<>>)
      BY <1>2, AloneOne
    <2> QED
      BY <1>4, <2>1, <2>2
  <1>8. ASSUME NEW i \in 1 .. n, NEW w \in X[i - 1] PROVE next(w) \in X[i]
    <2>1. i - 1 \in 0 .. n /\ i \in 0 .. n
      OBVIOUS
    <2>2. w \in Seq(Nat) /\ Len(w) = i - 1 /\ AsAlone(before, w)
      BY <1>4, <2>1
    <2> DEFINE y == Append(w, Says(before \o w))
    <2>3. y \in Seq(Nat) /\ AsAlone(before, y)
      BY <1>2, <2>2, AloneAppend
    <2>4. Len(y) = i
      BY <2>1, <2>2
    <2> HIDE DEF y
    <2>5. y \in X[i]
      BY <1>4, <2>1, <2>3, <2>4
    <2> QED
      BY <1>6, <2>5 DEF y
  <1>9. PICK f : Follows(f, n, <<>>, g) /\ \A i \in 0 .. n : f[i] \in X[i]
    <2>1. \A i \in 1 .. n : \A w \in X[i - 1] : g[i][w] \in X[i]
      BY <1>5, <1>8
    <2> QED
      BY <1>7, <2>1, Recursion
  <1>10. f = [i \in 0 .. n |-> IF i = 0 THEN <<>> ELSE next(f[i - 1])]
    <2>1. f = [i \in 0 .. n |-> IF i = 0 THEN <<>> ELSE g[i][f[i - 1]]]
      BY <1>9 DEF Follows
    <2>2. ASSUME NEW i \in 0 .. n, i # 0 PROVE g[i][f[i - 1]] = next(f[i - 1])
      <3>1. i \in 1 .. n /\ i - 1 \in 0 .. n
        BY <2>2
      <3> QED
        BY <1>5, <1>9, <3>1
    <2> QED
      BY <2>1, <2>2
  <1>11. h = [i \in 0 .. n |-> IF i = 0 THEN <<>> ELSE next(h[i - 1])]
    BY <1>10
  <1> HIDE DEF h
  <1>12. \A i \in 0 .. n : h[i] \in X[i]
    <2>1. h[0] \in X[0]
      BY <1>7, <1>11
    <2>2. ASSUME NEW i \in 1 .. n, h[i - 1] \in X[i - 1] PROVE h[i] \in X[i]
      <3>1. h[i] = next(h[i - 1])
        BY <1>11
      <3> QED
        BY <1>8, <2>2, <3>1
    <2> QED
      BY <2>1, <2>2, PassedOn
  <1>13. h[n] \in {w \in Seq(Nat) : Len(w) = n /\ AsAlone(before, w)}
    <2>1. n \in 0 .. n
      OBVIOUS
    <2> QED
      BY <1>4, <1>12, <2>1
  <1> QED
    BY <1>3, <1>13 DEF before

-----------------------------------------------------------------------------
(* The pool.                                                               *)

Entry(x) ==
    /\ DOMAIN x = {"tokens", "cache", "shared", "lastUse"}
    /\ Holds(x.cache, x.tokens)

PoolOK(p) == \A e \in DOMAIN p : Entry(p[e])

\* match changes no entry but its age.
LEMMA TouchedOK ==
  ASSUME NEW p, PoolOK(p), NEW e
  PROVE  PoolOK(Touched(p, e)) /\ DOMAIN Touched(p, e) = DOMAIN p
  <1> DEFINE now == Now(p)
             q == [p EXCEPT ![e].lastUse = now]
  <1>1. DOMAIN q = DOMAIN p
    OBVIOUS
  <1>2. ASSUME NEW d \in DOMAIN p PROVE Entry(q[d])
    <2>1. CASE d = e
      <3> DEFINE x == p[d]
                 y == [x EXCEPT !.lastUse = now]
      <3>1. q[d] = y
        BY <2>1
      <3>2. DOMAIN x = {"tokens", "cache", "shared", "lastUse"} /\ Holds(x.cache, x.tokens)
        BY DEF PoolOK, Entry
      <3> HIDE DEF x, now, q
      <3>3. DOMAIN y = DOMAIN x /\ y.cache = x.cache /\ y.tokens = x.tokens
        BY <3>2
      <3> HIDE DEF y
      <3> QED
        BY <3>1, <3>2, <3>3 DEF Entry
    <2>2. CASE d # e
      <3>1. q[d] = p[d]
        BY <2>2
      <3> QED
        BY <3>1 DEF PoolOK
    <2> QED
      BY <2>1, <2>2
  <1> HIDE DEF q
  <1>3. PoolOK(q)
    BY <1>1, <1>2 DEF PoolOK
  <1> QED
    BY <1>1, <1>3 DEF Touched, q, now

\* What put keeps is a cache that has read the entry's tokens.
LEMMA PutOK ==
  ASSUME NEW p, PoolOK(p), NEW c, NEW tokens, Holds(c, tokens), NEW shared
  PROVE  PoolOK(Put(p, tokens, shared, c))
  <1> DEFINE e == Victim(p, tokens, shared)
             x == [tokens |-> tokens, cache |-> c, shared |-> shared, lastUse |-> Now(p)]
             q == [p EXCEPT ![e] = x]
  <1>1. Put(p, tokens, shared, c) = IF p = <<>> THEN p ELSE IF p[e].tokens = tokens THEN Touched(p, e) ELSE q
    BY DEF Put
  <1>2. PoolOK(Touched(p, e))
    BY TouchedOK
  <1>3. Entry(x)
    BY DEF Entry
  <1> HIDE DEF x, e
  <1>4. DOMAIN q = DOMAIN p /\ \A d \in DOMAIN p : q[d] = x \/ q[d] = p[d]
    OBVIOUS
  <1> HIDE DEF q
  <1>5. PoolOK(q)
    BY <1>3, <1>4 DEF PoolOK
  <1> QED
    BY <1>1, <1>2, <1>5

\* Between two marks: the cache has read a beginning of the prompt.
Reading(r, tokens) ==
    /\ DOMAIN r = {"pool", "cache"}
    /\ PoolOK(r.pool) /\ \E n \in 0 .. Len(tokens) : Holds(r.cache, SubSeq(tokens, 1, n))

\* Reading begins with a beginning of the prompt, pooled or empty.
LEMMA BegunIs ==
  ASSUME PoolOK(pool), NEW tokens \in Seq(Nat), NEW d \in BOOLEAN
  PROVE  Reading(Begun(tokens, d), tokens)
  <1> DEFINE found == Match(tokens)
             e == CHOOSE e \in found : TRUE
             fresh == [NewCache EXCEPT !.drafting = d]
             adopted == [pool[e].cache EXCEPT !.drafting = d]
  <1>1. Begun(tokens, d) = IF found = {} THEN [pool |-> pool, cache |-> fresh]
                           ELSE [pool |-> Touched(pool, e), cache |-> adopted]
    BY DEF Begun
  <1>2. Len(tokens) \in Nat
    OBVIOUS
  <1>3. CASE found = {}
    <2>1. Holds(fresh, <<>>)
      BY NewHolds
    <2>2. SubSeq(tokens, 1, 0) = <<>> /\ 0 \in 0 .. Len(tokens)
      BY <1>2
    <2> DEFINE r == [pool |-> pool, cache |-> fresh]
    <2> HIDE DEF fresh
    <2>3. Reading(r, tokens)
      BY <2>1, <2>2 DEF Reading
    <2> QED
      BY <1>1, <1>3, <2>3
  <1>4. CASE found # {}
    <2>1. e \in found
      BY <1>4
    <2>2. e \in DOMAIN pool /\ IsStrictPrefix(pool[e].tokens, tokens)
      BY <2>1 DEF Match
    <2> DEFINE s == pool[e].tokens
    <2>3. Holds(pool[e].cache, s)
      BY <2>2 DEF PoolOK, Entry
    <2>4. s \in Seq(Nat)
      BY <2>3 DEF Holds
    <2>5. Len(s) <= Len(tokens) /\ SubSeq(s, 1, Len(s)) = SubSeq(tokens, 1, Len(s))
      BY <2>2 DEF IsStrictPrefix, IsPrefix
    <2> HIDE DEF s, e, found
    <2>6. s = SubSeq(tokens, 1, Len(s)) /\ Len(s) \in 0 .. Len(tokens)
      <3>1. SubSeq(s, 1, Len(s)) = s /\ Len(s) \in Nat
        BY <2>4
      <3> QED
        BY <1>2, <2>5, <3>1
    <2>7. Holds(adopted, s)
      BY <2>3, Adopted
    <2>8. PoolOK(Touched(pool, e))
      BY TouchedOK
    <2> DEFINE r == [pool |-> Touched(pool, e), cache |-> adopted]
    <2> HIDE DEF adopted
    <2>9. Reading(r, tokens)
      BY <2>6, <2>7, <2>8 DEF Reading
    <2> QED
      BY <1>1, <1>4, <2>9 DEF found
  <1> QED
    BY <1>3, <1>4

\* At each mark all up to the mark has been read, or more.
LEMMA ReadToIs ==
  ASSUME NEW tokens \in Seq(Nat), NEW r, Reading(r, tokens), NEW mark, mark.pos \in 0 .. Len(tokens)
  PROVE  Reading(ReadTo(r, tokens, mark), tokens)
  <1> DEFINE old == r.cache
             more == SubSeq(tokens, old.offset + 1, mark.pos)
             c == Read(old, more)
             text == SubSeq(tokens, 1, mark.pos)
             q == [pool |-> Put(r.pool, text, mark.shared, c), cache |-> c]
  <1>1. ReadTo(r, tokens, mark) = IF mark.pos <= old.offset THEN r ELSE q
    BY DEF ReadTo
  <1>2. ASSUME ~(mark.pos <= old.offset) PROVE Reading(q, tokens)
    <2>1. PICK n \in 0 .. Len(tokens) : Holds(old, SubSeq(tokens, 1, n))
      BY DEF Reading
    <2>2. Len(SubSeq(tokens, 1, n)) = n
      BY BeginningIs
    <2>3. old.offset = n
      BY <2>1, <2>2 DEF Holds
    <2> DEFINE m == mark.pos
               before == SubSeq(tokens, 1, n)
    <2>4. Len(tokens) \in Nat
      OBVIOUS
    <2>5. m \in n .. Len(tokens) /\ m \in 0 .. Len(tokens)
      BY <1>2, <2>3, <2>4
    <2>6. more = SubSeq(tokens, n + 1, m)
      BY <2>3
    <2> HIDE DEF m
    <2>7. before \o SubSeq(tokens, n + 1, m) = SubSeq(tokens, 1, m) /\ SubSeq(tokens, n + 1, m) \in Seq(Nat)
      BY <2>5, ReadOn
    <2>8. before \o more = text /\ more \in Seq(Nat)
      BY <2>6, <2>7 DEF m
    <2> HIDE DEF more, before
    <2>9. Holds(old, before)
      BY <2>1 DEF before
    <2>10. Holds(c, before \o more)
      BY <2>8, <2>9, ReadHolds
    <2>11. Holds(c, text)
      BY <2>8, <2>10
    <2>12. PoolOK(r.pool)
      BY DEF Reading
    <2>13. text = SubSeq(tokens, 1, m)
      BY DEF m
    <2> HIDE DEF text, c
    <2> DEFINE after == Put(r.pool, text, mark.shared, c)
    <2>14. PoolOK(after)
      BY <2>11, <2>12, PutOK
    <2>15. q = [pool |-> after, cache |-> c]
      OBVIOUS
    <2> HIDE DEF after, q
    <2>16. DOMAIN q = {"pool", "cache"} /\ q.pool = after /\ q.cache = c
      BY <2>15
    <2> QED
      BY <2>5, <2>11, <2>13, <2>14, <2>16 DEF Reading
  <1> QED
    BY <1>1, <1>2

\* So after any number of the prompt's marks.
LEMMA ReadMarksIs ==
  ASSUME NEW p, IsPrompt(p), PoolOK(pool), NEW d \in BOOLEAN, NEW n \in 0 .. Len(p.marks)
  PROVE  Reading(ReadMarks(p, d, n), p.tokens)
  <1> DEFINE c == Begun(p.tokens, d)
             next(k, r) == ReadTo(r, p.tokens, p.marks[k])
             Is(f, m) == f = [i \in 0 .. m |-> IF i = 0 THEN c ELSE next(i, f[i - 1])]
             h == CHOOSE f : Is(f, n)
             Far == {m \in Nat : \E f : Is(f, m)}
             X == [i \in 0 .. n |-> {x \in {h[i]} : Reading(x, p.tokens)}]
  <1>1. ReadMarks(p, d, n) = h[n]
    BY DEF ReadMarks
  <1>2. p.tokens \in Seq(Nat) /\ \A i \in DOMAIN p.marks : p.marks[i].pos \in 0 .. Len(p.tokens)
    BY BoundsAssumption DEF IsPrompt
  <1>3. n \in Nat /\ Len(p.marks) \in Nat /\ DOMAIN p.marks = 1 .. Len(p.marks)
    BY DEF IsPrompt
  <1>4. Reading(c, p.tokens)
    BY <1>2, BegunIs
  <1>5. ASSUME NEW k \in 1 .. n, NEW r, Reading(r, p.tokens) PROVE Reading(next(k, r), p.tokens)
    <2>1. k \in DOMAIN p.marks
      BY <1>3
    <2>2. p.marks[k].pos \in 0 .. Len(p.tokens)
      BY <1>2, <2>1
    <2> QED
      BY <1>2, <1>5, <2>2, ReadToIs
  <1>6. \A i \in 0 .. n : X[i] = {x \in {h[i]} : Reading(x, p.tokens)}
    OBVIOUS
  <1> HIDE DEF c, next, X
  <1>7. 0 \in Far
    <2> DEFINE f == [i \in 0 .. 0 |-> c]
    <2>1. f = [i \in 0 .. 0 |-> IF i = 0 THEN c ELSE next(i, f[i - 1])]
      BY \A i \in 0 .. 0 : i = 0
    <2> HIDE DEF f
    <2>2. Is(f, 0)
      BY <2>1
    <2> HIDE DEF Is
    <2> QED
      BY <2>2
  <1>8. ASSUME NEW m \in Far PROVE m + 1 \in Far
    <2>1. m \in Nat /\ m + 1 \in Nat
      OBVIOUS
    <2>2. PICK f : Is(f, m)
      OBVIOUS
    <2> DEFINE g == [i \in 0 .. m + 1 |-> IF i = m + 1 THEN next(m + 1, f[m]) ELSE f[i]]
    <2>3. g[m + 1] = next(m + 1, f[m]) /\ \A i \in 0 .. m : g[i] = f[i]
      BY <2>1
    <2>4. g = [i \in 0 .. m + 1 |-> g[i]]
      OBVIOUS
    <2> HIDE DEF g
    <2>5. \A i \in 0 .. m : f[i] = IF i = 0 THEN c ELSE next(i, f[i - 1])
      BY <2>2
    <2>6. ASSUME NEW i \in 0 .. m + 1 PROVE g[i] = IF i = 0 THEN c ELSE next(i, g[i - 1])
      <3>1. CASE i = m + 1
        <4>1. i # 0 /\ i - 1 = m /\ m \in 0 .. m
          BY <2>1, <3>1
        <4> QED
          BY <2>3, <3>1, <4>1
      <3>2. CASE i # m + 1
        <4>1. i \in 0 .. m
          BY <2>1, <3>2
        <4>2. i # 0 => i - 1 \in 0 .. m
          BY <2>1, <4>1
        <4> QED
          BY <2>3, <2>5, <4>1, <4>2
      <3> QED
        BY <3>1, <3>2
    <2>7. Is(g, m + 1)
      BY <2>4, <2>6
    <2> HIDE DEF Is
    <2> QED
      BY <2>1, <2>7
  <1>9. Far = Nat
    <2>1. Far \subseteq Nat
      OBVIOUS
    <2> HIDE DEF Far
    <2> QED
      BY <1>7, <1>8, <2>1, AllNaturals
  <1>10. \E f : Is(f, n)
    BY <1>3, <1>9
  <1>11. Is(h, n)
    <2> HIDE DEF Is
    <2> QED
      BY <1>10
  <1> HIDE DEF h, Far
  <1>12. h[0] = c /\ \A i \in 1 .. n : h[i] = next(i, h[i - 1])
    BY <1>3, <1>11
  <1> HIDE DEF Is
  <1>13. \A i \in 0 .. n : h[i] \in X[i]
    <2>1. h[0] \in X[0]
      BY <1>3, <1>4, <1>6, <1>12
    <2>2. ASSUME NEW k \in 1 .. n, h[k - 1] \in X[k - 1] PROVE h[k] \in X[k]
      <3>1. k - 1 \in 0 .. n /\ k \in 0 .. n
        BY <1>3
      <3>2. Reading(h[k - 1], p.tokens)
        BY <1>6, <2>2, <3>1
      <3>3. Reading(h[k], p.tokens)
        BY <1>5, <1>12, <3>2
      <3> QED
        BY <1>6, <3>1, <3>3
    <2> QED
      BY <1>3, <2>1, <2>2, PassedOn
  <1>14. Reading(h[n], p.tokens)
    <2>1. n \in 0 .. n
      BY <1>3
    <2> QED
      BY <1>6, <1>13, <2>1
  <1> QED
    BY <1>1, <1>14

\* The whole prompt is read.
LEMMA ReadPromptIs ==
  ASSUME NEW p, IsPrompt(p), PoolOK(pool), NEW d \in BOOLEAN
  PROVE  PoolOK(ReadPrompt(p, d).pool) /\ Holds(ReadPrompt(p, d).cache, p.tokens)
  <1> DEFINE r == ReadMarks(p, d, Len(p.marks))
             c == r.cache
             l == Len(p.tokens)
             more == SubSeq(p.tokens, c.offset + 1, l)
             q == [r EXCEPT !.cache = Read(c, more)]
  <1>1. ReadPrompt(p, d) = IF c.offset = l THEN r ELSE q
    BY DEF ReadPrompt
  <1>2. p.tokens \in Seq(Nat) /\ Len(p.marks) \in 0 .. Len(p.marks)
    BY DEF IsPrompt
  <1>3. Reading(r, p.tokens)
    BY <1>2, ReadMarksIs
  <1> HIDE DEF r
  <1>4. PICK n \in 0 .. l : Holds(c, SubSeq(p.tokens, 1, n))
    BY <1>3 DEF Reading
  <1>5. c.offset = n
    <2>1. Len(SubSeq(p.tokens, 1, n)) = n
      BY <1>2, BeginningIs
    <2> QED
      BY <1>4, <2>1 DEF Holds
  <1>6. l \in Nat /\ l \in n .. l /\ SubSeq(p.tokens, 1, l) = p.tokens
    BY <1>2
  <1>7. CASE c.offset = l
    <2>1. Holds(c, p.tokens)
      BY <1>4, <1>5, <1>6, <1>7
    <2> QED
      BY <1>1, <1>3, <1>7, <2>1 DEF Reading
  <1>8. CASE c.offset # l
    <2> DEFINE before == SubSeq(p.tokens, 1, n)
    <2>1. before \o SubSeq(p.tokens, n + 1, l) = SubSeq(p.tokens, 1, l) /\ SubSeq(p.tokens, n + 1, l) \in Seq(Nat)
      <3> HIDE DEF before
      <3>1. SubSeq(p.tokens, 1, n) \o SubSeq(p.tokens, n + 1, l) = SubSeq(p.tokens, 1, l) /\ SubSeq(p.tokens, n + 1, l) \in Seq(Nat)
        BY <1>2, <1>6, ReadOn
      <3> QED
        BY <3>1 DEF before
    <2>2. before \o more = p.tokens /\ more \in Seq(Nat)
      BY <1>5, <1>6, <2>1
    <2>3. Holds(c, before)
      BY <1>4
    <2>4. DOMAIN r = {"pool", "cache"} /\ PoolOK(r.pool)
      BY <1>3 DEF Reading
    <2> HIDE DEF before, more
    <2>5. Holds(Read(c, more), before \o more)
      BY <2>2, <2>3, ReadHolds
    <2>6. Holds(Read(c, more), p.tokens)
      BY <2>2, <2>5
    <2> DEFINE x == Read(c, more)
    <2> HIDE DEF x
    <2>7. q.pool = r.pool /\ q.cache = Read(c, more)
      BY <2>4
    <2> QED
      BY <1>1, <1>8, <2>4, <2>6, <2>7
  <1> QED
    BY <1>7, <1>8

-----------------------------------------------------------------------------
(* The inductive invariant.                                                *)

Stages == {"new", "queued", "running", "done", "refused"}
Places == {"admit", "settle", "prefill", "solo", "join", "decode", "compact", "step",
           "returned", "panicked"}

\* The text of j so far, and without the token that was written last.
Text(j) == prompt[j].tokens \o gen[j]
Before(j) == prompt[j].tokens \o Front(gen[j])

Types ==
    /\ setting \in Settings
    /\ jobs \in Seq(Jobs)
    /\ stage \in [Jobs -> Stages] /\ ended \in [Jobs -> Nat]
    /\ prompt \in [Jobs -> Prompts] /\ gen \in [Jobs -> Seq(Nat)]
    /\ at \in Places /\ cur \in Jobs \cup {NoJob}
    /\ rows \in Seq(Jobs \cup {NoJob}) /\ pending \in Seq(Nat)

\* A request is queued once, or being admitted, or in one row.
InQueue(j) == \E i \in DOMAIN jobs : jobs[i] = j
InRows(j) == \E r \in DOMAIN rows : rows[r] = j

OnePlace ==
    /\ \A i, k \in DOMAIN jobs : jobs[i] = jobs[k] => i = k
    /\ \A r, q \in DOMAIN rows : rows[r] = rows[q] /\ rows[r] # NoJob => r = q
    /\ cur # NoJob => ~InRows(cur)
    /\ \A j \in Jobs : stage[j] = "queued" <=> InQueue(j)
    /\ \A j \in Jobs : stage[j] = "running" <=> j = cur \/ InRows(j)

Standing ==
    /\ at \in {"settle", "prefill", "solo", "join"} <=> cur # NoJob
    /\ at \in {"prefill", "solo", "join", "compact", "step"} => pending = <<>>

Replies ==
    /\ \A j \in Jobs : AsAlone(prompt[j].tokens, gen[j])
    /\ \A j \in Jobs : stage[j] = "new" => gen[j] = <<>>

\* What the cache, the pool and each row have read.
CacheRead ==
    /\ Holds(cache, cache.state)
    /\ at \in {"solo", "join"} => gen[cur] # <<>> /\ Holds(cache, Before(cur))

RowsRead ==
    /\ Good(batch) /\ Len(rows) <= Width(batch)
    /\ pending # <<>> => Len(pending) = Len(rows)
    /\ \A r \in Active :
        /\ gen[rows[r]] # <<>>
        /\ pending = <<>> => Reads(batch, r, Before(rows[r]))
        /\ pending # <<>> => Reads(batch, r, Text(rows[r])) /\ pending[r] = Says(Text(rows[r]))

IInv ==
    /\ Types /\ OnePlace /\ Standing /\ FinishedOnce /\ Replies
    /\ CacheRead /\ PoolOK(pool) /\ RowsRead

\* What finish does.
Ended(J) ==
    /\ stage' \in [Jobs -> Stages] /\ ended' \in [Jobs -> Nat]
    /\ \A j \in Jobs : stage'[j] = IF j \in J THEN "done" ELSE stage[j]
    /\ FinishedOnce'

\* A request that runs is finished for the first time.
LEMMA FinishIs ==
  ASSUME Types, FinishedOnce, NEW J, \A j \in J \cap Jobs : stage[j] # "done", Finish(J)
  PROVE  Ended(J)
  <1>1. /\ stage \in [Jobs -> Stages] /\ ended \in [Jobs -> Nat]
        /\ stage' = [j \in Jobs |-> IF j \in J THEN "done" ELSE stage[j]]
        /\ ended' = [j \in Jobs |-> IF j \in J THEN ended[j] + 1 ELSE ended[j]]
    BY DEF Types, Finish
  <1>2. stage' \in [Jobs -> Stages] /\ ended' \in [Jobs -> Nat]
    BY <1>1 DEF Stages
  <1>3. \A j \in Jobs : stage'[j] = IF j \in J THEN "done" ELSE stage[j]
    BY <1>1
  <1>4. \A j \in Jobs : ended'[j] = IF j \in J THEN ended[j] + 1 ELSE ended[j]
    BY <1>1
  <1>5. ASSUME NEW j \in Jobs PROVE ended'[j] = IF stage'[j] = "done" THEN 1 ELSE 0
    <2>1. ended[j] = IF stage[j] = "done" THEN 1 ELSE 0
      BY DEF FinishedOnce
    <2>2. j \in J => stage[j] # "done"
      OBVIOUS
    <2> QED
      BY <1>3, <1>4, <2>1, <2>2
  <1> QED
    BY <1>2, <1>3, <1>5 DEF Ended, FinishedOnce

\* The replies stay as they are.
LEMMA RepliesStay ==
  ASSUME Replies, UNCHANGED <<prompt, gen>>, \A j \in Jobs : stage'[j] = "new" => stage[j] = "new"
  PROVE  Replies'
  BY DEF Replies

LEMMA RowsStay ==
  ASSUME RowsRead, UNCHANGED <<prompt, gen, batch, rows, pending>>
  PROVE  RowsRead'
  BY DEF RowsRead, Active, Before, Text, Front

LEMMA PoolStays ==
  ASSUME PoolOK(pool), pool' = pool
  PROVE  PoolOK(pool')
  OBVIOUS

LEMMA CacheStays ==
  ASSUME CacheRead, cache' = cache, at' \notin {"solo", "join"}
  PROVE  CacheRead'
  BY DEF CacheRead

\* Nothing is in the rows, or in flight.
LEMMA NoRows ==
  ASSUME rows' = <<>>, batch' = EmptyBatch, pending' = <<>>
  PROVE  RowsRead'
  <1>1. Good(batch') /\ Width(batch') = 0
    BY EmptyGood
  <1>2. Active' = {} /\ Len(rows') = 0
    BY DEF Active
  <1> QED
    BY <1>1, <1>2 DEF RowsRead

\* The job being admitted is answered.
LEMMA CurEnds ==
  ASSUME IInv, cur # NoJob, Finish({cur}), cur' = NoJob, at' = "admit",
         UNCHANGED <<setting, jobs, quit, prompt, rows, pending>>
  PROVE  (gen' \in [Jobs -> Seq(Nat)] => Types') /\ OnePlace' /\ Standing' /\ FinishedOnce'
         /\ \A j \in Jobs : stage'[j] = "new" => stage[j] = "new"
  <1>1. Types /\ OnePlace /\ FinishedOnce /\ cur \in Jobs
    BY DEF IInv, Types
  <1>2. stage[cur] = "running" /\ NoJob \notin Jobs
    BY <1>1, BoundsAssumption DEF OnePlace
  <1>3. Ended({cur})
    BY <1>1, <1>2, FinishIs
  <1>4. ASSUME gen' \in [Jobs -> Seq(Nat)] PROVE Types'
    BY <1>1, <1>3, <1>4 DEF Types, Ended, Places
  <1>5. \A j \in Jobs : stage'[j] = IF j = cur THEN "done" ELSE stage[j]
    BY <1>3 DEF Ended
  <1>6. OnePlace'
    <2>1. \A j : InQueue(j)' = InQueue(j) /\ InRows(j)' = InRows(j)
      BY DEF InQueue, InRows
    <2>2. ASSUME NEW j \in Jobs PROVE (stage'[j] = "queued" <=> InQueue(j)) /\ (stage'[j] = "running" <=> j = cur' \/ InRows(j))
      <3>1. (stage[j] = "queued" <=> InQueue(j)) /\ (stage[j] = "running" <=> j = cur \/ InRows(j))
        BY <1>1 DEF OnePlace
      <3>2. ~InRows(cur)
        BY <1>1 DEF OnePlace
      <3> QED
        BY <1>2, <1>5, <3>1, <3>2
    <2> QED
      BY <1>1, <2>1, <2>2 DEF OnePlace
  <1>7. Standing'
    BY DEF Standing
  <1>8. FinishedOnce'
    BY <1>3 DEF Ended
  <1> QED
    BY <1>4, <1>5, <1>6, <1>7, <1>8

\* And nothing else changes.
LEMMA CurEndsIs ==
  ASSUME IInv, cur # NoJob, Finish({cur}), cur' = NoJob, at' = "admit", PoolOK(pool'),
         UNCHANGED <<setting, jobs, quit, prompt, gen, cache, batch, rows, pending>>
  PROVE  IInv'
  <1>1. Types /\ Replies /\ CacheRead /\ RowsRead
    BY DEF IInv
  <1>2. gen' \in [Jobs -> Seq(Nat)]
    BY <1>1 DEF Types
  <1>3. /\ Types' /\ OnePlace' /\ Standing' /\ FinishedOnce'
        /\ \A j \in Jobs : stage'[j] = "new" => stage[j] = "new"
    BY <1>2, CurEnds
  <1>4. Replies'
    BY <1>1, <1>3, RepliesStay
  <1>5. CacheRead' /\ RowsRead'
    BY <1>1, CacheStays, RowsStay
  <1> QED
    BY <1>3, <1>4, <1>5 DEF IInv

LEMMA NotReadKeeps ==
  ASSUME IInv, NotRead PROVE IInv'
  <1>1. cur # NoJob /\ PoolOK(pool)
    BY DEF IInv, Standing, NotRead
  <1> QED
    BY <1>1, CurEndsIs DEF NotRead

LEMMA SoloFailsKeeps ==
  ASSUME IInv, SoloFails PROVE IInv'
  <1>1. cur # NoJob /\ PoolOK(pool)
    BY DEF IInv, Standing, SoloFails
  <1> QED
    BY <1>1, CurEndsIs DEF SoloFails

LEMMA PrefillFailsKeeps ==
  ASSUME IInv, PrefillFails PROVE IInv'
  <1>1. cur # NoJob /\ PoolOK(pool) /\ Types
    BY DEF IInv, Standing, PrefillFails
  <1>2. cur \in Jobs /\ prompt[cur] \in Prompts
    BY <1>1 DEF Types
  <1>3. IsPrompt(prompt[cur])
    BY <1>2, PromptsAssumption
  <1>4. Alone \in BOOLEAN
    BY DEF Alone
  <1>5. PICK k \in 0 .. Len(prompt[cur].marks) : pool' = ReadMarks(prompt[cur], Alone, k).pool
    BY DEF PrefillFails
  <1> DEFINE p == prompt[cur]
             d == Alone
             r == ReadMarks(p, d, k)
  <1>6. Reading(r, p.tokens)
    <2>1. IsPrompt(p) /\ d \in BOOLEAN /\ k \in 0 .. Len(p.marks)
      BY <1>3, <1>4, <1>5
    <2> HIDE DEF p, d
    <2> QED
      BY <1>1, <2>1, ReadMarksIs
  <1>7. PoolOK(pool')
    BY <1>5, <1>6 DEF Reading
  <1> QED
    BY <1>1, <1>7, CurEndsIs DEF PrefillFails

LEMMA SubmitKeeps ==
  ASSUME IInv, NEW j \in Jobs, Submit(j) PROVE IInv'
  <1>1. /\ stage[j] = "new" /\ stage' = [stage EXCEPT ![j] = "queued"] /\ jobs' = Append(jobs, j)
        /\ UNCHANGED <<setting, quit, gen, ended, at, cur, cache, batch, rows, pending, pool>>
    BY DEF Submit, Comes
  <1>2. PICK p \in Prompts : prompt' = [prompt EXCEPT ![j] = p]
    BY DEF Submit
  <1>3. Types /\ OnePlace /\ Standing /\ FinishedOnce /\ Replies /\ CacheRead /\ PoolOK(pool) /\ RowsRead
    BY DEF IInv
  <1>4. NoJob \notin Jobs
    BY BoundsAssumption
  <1>5. ~InQueue(j) /\ ~InRows(j) /\ cur # j
    BY <1>1, <1>3 DEF OnePlace
  <1>6. /\ \A i \in Jobs : stage'[i] = IF i = j THEN "queued" ELSE stage[i]
        /\ \A i \in Jobs : i # j => prompt'[i] = prompt[i]
        /\ prompt'[j] \in Prompts
    BY <1>1, <1>2, <1>3 DEF Types
  <1>7. Types'
    BY <1>1, <1>2, <1>3 DEF Types, Stages
  <1>8. OnePlace'
    <2>1. jobs \in Seq(Jobs) /\ Len(jobs') = Len(jobs) + 1 /\ jobs'[Len(jobs) + 1] = j
          /\ (\A i \in DOMAIN jobs : jobs'[i] = jobs[i]) /\ DOMAIN jobs = 1 .. Len(jobs) /\ Len(jobs) \in Nat
          /\ DOMAIN jobs' = 1 .. Len(jobs) + 1
      <3> DEFINE q == jobs
                 q1 == Append(q, j)
      <3>1. q \in Seq(Jobs)
        BY <1>3 DEF Types
      <3> HIDE DEF q
      <3>2. Len(q1) = Len(q) + 1 /\ q1[Len(q) + 1] = j /\ (\A i \in 1 .. Len(q) : q1[i] = q[i])
            /\ q1 \in Seq(Jobs) /\ Len(q) \in Nat
        BY <3>1, AppendProperties
      <3>3. DOMAIN q = 1 .. Len(q) /\ DOMAIN q1 = 1 .. Len(q1)
        BY <3>1, <3>2
      <3> HIDE DEF q1
      <3>4. jobs' = q1
        BY <1>1 DEF q, q1
      <3> QED
        BY <3>1, <3>2, <3>3, <3>4 DEF q
    <2>2. \A i \in DOMAIN jobs' : i \in DOMAIN jobs \/ i = Len(jobs) + 1
      BY <2>1
    <2>3. \A i \in DOMAIN jobs : i # Len(jobs) + 1 /\ i \in DOMAIN jobs'
      BY <2>1
    <2>4. Len(jobs) + 1 \in DOMAIN jobs'
      BY <2>1
    <2>5. \A i \in Jobs : InQueue(i)' <=> InQueue(i) \/ i = j
      BY <2>1, <2>2, <2>3, <2>4 DEF InQueue
    <2>6. \A i : InRows(i)' = InRows(i)
      BY <1>1 DEF InRows
    <2>7. \A i, k \in DOMAIN jobs' : jobs'[i] = jobs'[k] => i = k
      <3>1. \A i \in DOMAIN jobs : jobs[i] # j
        BY <1>5 DEF InQueue
      <3>2. \A i, k \in DOMAIN jobs : jobs[i] = jobs[k] => i = k
        BY <1>3 DEF OnePlace
      <3> QED
        BY <2>1, <2>2, <3>1, <3>2
    <2>8. ASSUME NEW i \in Jobs
          PROVE (stage'[i] = "queued" <=> InQueue(i)') /\ (stage'[i] = "running" <=> i = cur \/ InRows(i))
      <3>1. (stage[i] = "queued" <=> InQueue(i)) /\ (stage[i] = "running" <=> i = cur \/ InRows(i))
        BY <1>3 DEF OnePlace
      <3>2. stage'[i] = IF i = j THEN "queued" ELSE stage[i]
        BY <1>6
      <3> QED
        BY <1>5, <2>5, <3>1, <3>2
    <2>9. /\ \A r, q \in DOMAIN rows : rows[r] = rows[q] /\ rows[r] # NoJob => r = q
          /\ cur # NoJob => ~InRows(cur)
      BY <1>3 DEF OnePlace
    <2>10. \A r, q \in DOMAIN rows' : rows'[r] = rows'[q] /\ rows'[r] # NoJob => r = q
      BY <1>1, <2>9
    <2> QED
      BY <1>1, <2>6, <2>7, <2>8, <2>9, <2>10 DEF OnePlace
  <1>9. Standing'
    BY <1>1, <1>3 DEF Standing
  <1>10. FinishedOnce'
    BY <1>1, <1>3, <1>6 DEF FinishedOnce
  <1>11. Replies'
    <2>1. gen[j] = <<>> /\ \A i \in Jobs : AsAlone(prompt[i].tokens, gen[i])
      BY <1>1, <1>3 DEF Replies
    <2>2. AsAlone(prompt'[j].tokens, <<>>)
      BY DEF AsAlone
    <2>3. \A i \in Jobs : AsAlone(prompt'[i].tokens, gen[i])
      BY <1>6, <2>1, <2>2
    <2>4. \A i \in Jobs : stage'[i] = "new" => gen[i] = <<>>
      BY <1>3, <1>6 DEF Replies
    <2> QED
      BY <1>1, <2>3, <2>4 DEF Replies
  <1>12. CacheRead'
    <2>1. at \in {"solo", "join"} => cur \in Jobs /\ cur # j
      BY <1>3, <1>5 DEF Standing, Types
    <2>2. at \in {"solo", "join"} => Before(cur)' = Before(cur)
      BY <1>1, <1>6, <2>1 DEF Before
    <2> QED
      BY <1>1, <1>3, <2>2 DEF CacheRead
  <1>13. RowsRead'
    <2>1. Active' = Active
      BY <1>1 DEF Active
    <2>2. ASSUME NEW r \in Active PROVE Before(rows[r])' = Before(rows[r]) /\ Text(rows[r])' = Text(rows[r])
      <3>1. rows[r] \in Jobs /\ rows[r] # j
        BY <1>3, <1>5 DEF Types, Active, InRows
      <3> QED
        BY <1>1, <1>6, <3>1 DEF Before, Text
    <2> QED
      BY <1>1, <1>3, <2>1, <2>2 DEF RowsRead
  <1> QED
    BY <1>1, <1>3, <1>7, <1>8, <1>9, <1>10, <1>11, <1>12, <1>13 DEF IInv

\* A step of the goroutine, or of a caller, that moves no text.
LEMMA TextStays ==
  ASSUME IInv, UNCHANGED <<prompt, gen, cache, batch, rows, pending, pool>>,
         at' \in {"solo", "join"} => at \in {"solo", "join"} /\ cur' = cur,
         \A j \in Jobs : stage'[j] = "new" => stage[j] = "new",
         Types', OnePlace', Standing', FinishedOnce'
  PROVE  IInv'
  <1>1. Replies /\ CacheRead /\ PoolOK(pool) /\ RowsRead
    BY DEF IInv
  <1>2. Replies' /\ RowsRead' /\ PoolOK(pool')
    BY <1>1, RepliesStay, RowsStay
  <1>3. CacheRead'
    BY <1>1 DEF CacheRead, Before
  <1> QED
    BY <1>2, <1>3 DEF IInv

LEMMA RefusedKeeps ==
  ASSUME IInv, NEW j \in Jobs, Refused(j) PROVE IInv'
  <1>1. /\ stage[j] = "new" /\ stage' = [stage EXCEPT ![j] = "refused"]
        /\ UNCHANGED <<setting, jobs, quit, prompt, gen, ended, at, cur, cache, batch, rows, pending, pool>>
    BY DEF Refused, Comes
  <1>2. Types /\ OnePlace /\ Standing /\ FinishedOnce
    BY DEF IInv
  <1>3. \A i \in Jobs : stage'[i] = IF i = j THEN "refused" ELSE stage[i]
    BY <1>1, <1>2 DEF Types
  <1>4. Types'
    BY <1>1, <1>2 DEF Types, Stages
  <1>5. OnePlace'
    <2>1. \A i : InRows(i)' = InRows(i) /\ InQueue(i)' = InQueue(i)
      BY <1>1 DEF InRows, InQueue
    <2>2. ASSUME NEW i \in Jobs
          PROVE (stage'[i] = "queued" <=> InQueue(i)) /\ (stage'[i] = "running" <=> i = cur \/ InRows(i))
      <3>1. (stage[i] = "queued" <=> InQueue(i)) /\ (stage[i] = "running" <=> i = cur \/ InRows(i))
        BY <1>2 DEF OnePlace
      <3> QED
        BY <1>1, <1>3, <3>1
    <2> QED
      BY <1>1, <1>2, <2>1, <2>2 DEF OnePlace
  <1>6. Standing'
    BY <1>1, <1>2 DEF Standing
  <1>7. FinishedOnce'
    BY <1>1, <1>2, <1>3 DEF FinishedOnce
  <1> QED
    BY <1>1, <1>3, <1>4, <1>5, <1>6, <1>7, TextStays

\* The goroutine goes on, and nothing else changes.
LEMMA GoesOn ==
  ASSUME IInv, UNCHANGED <<setting, jobs, request, cur, cache, batch, rows, pending, pool>>,
         at' \in Places, Standing', at' \in {"solo", "join"} => at \in {"solo", "join"}
  PROVE  IInv'
  <1>1. Types /\ OnePlace /\ FinishedOnce
    BY DEF IInv
  <1>2. Types' /\ FinishedOnce' /\ OnePlace'
    BY <1>1 DEF Types, FinishedOnce, OnePlace, InQueue, InRows, request
  <1> QED
    BY <1>2, TextStays DEF request

LEMMA CloseKeeps ==
  ASSUME IInv, Close PROVE IInv'
  <1>1. Standing' /\ at' \in Places /\ at' = at
    BY DEF IInv, Types, Standing, Close
  <1> QED
    BY <1>1, GoesOn DEF Close

LEMMA AdmittedKeeps ==
  ASSUME IInv, Admitted PROVE IInv'
  <1>1. Standing' /\ at' \in Places /\ at' = "decode"
    BY DEF IInv, Places, Standing, Admitted
  <1> QED
    BY <1>1, GoesOn DEF Admitted

LEMMA SoloEndsKeeps ==
  ASSUME IInv, SoloEnds PROVE IInv'
  <1>1. Standing' /\ at' \in Places /\ at = "solo"
    BY DEF IInv, Places, Standing, SoloEnds
  <1> QED
    BY <1>1, GoesOn DEF SoloEnds

LEMMA TakeKeeps ==
  ASSUME IInv, Take PROVE IInv'
  <1> DEFINE j == jobs[1]
  <1>1. Types /\ OnePlace /\ Standing /\ FinishedOnce /\ NoJob \notin Jobs
    BY BoundsAssumption DEF IInv
  <1>2. /\ at = "admit" /\ jobs # <<>> /\ cur' = j /\ jobs' = Tail(jobs) /\ at' = "settle"
        /\ stage' = [stage EXCEPT ![j] = "running"]
        /\ UNCHANGED <<setting, quit, prompt, gen, ended, cache, batch, rows, pending, pool>>
    <2>1. Head(jobs) = jobs[1]
      BY <1>1 DEF Types, Take
    <2> QED
      BY <2>1 DEF Take
  <1>3. /\ jobs \in Seq(Jobs) /\ Len(jobs) \in Nat \ {0} /\ DOMAIN jobs = 1 .. Len(jobs)
        /\ jobs' \in Seq(Jobs) /\ DOMAIN jobs' = 1 .. Len(jobs) - 1
        /\ \A i \in 1 .. Len(jobs) - 1 : jobs'[i] = jobs[i + 1]
    BY <1>1, <1>2 DEF Types
  <1>4. j \in Jobs /\ 1 \in DOMAIN jobs
    BY <1>3
  <1>5. cur = NoJob /\ InQueue(j) /\ stage[j] = "queued"
    BY <1>1, <1>2, <1>4 DEF Standing, OnePlace, InQueue
  <1> HIDE DEF j
  <1>6. \A i \in Jobs : stage'[i] = IF i = j THEN "running" ELSE stage[i]
    BY <1>1, <1>2, <1>4 DEF Types
  <1>7. Types'
    BY <1>1, <1>2, <1>3, <1>4 DEF Types, Stages, Places
  <1>8. OnePlace'
    <2>1. \A i, k \in DOMAIN jobs : jobs[i] = jobs[k] => i = k
      BY <1>1 DEF OnePlace
    <2>2. \A i \in DOMAIN jobs' : i + 1 \in DOMAIN jobs /\ i + 1 # 1 /\ jobs'[i] = jobs[i + 1] /\ i \in Nat
      BY <1>3
    <2>3. \A i \in DOMAIN jobs : i # 1 => i - 1 \in DOMAIN jobs' /\ (i - 1) + 1 = i
      BY <1>3
    <2>4. \A i, k \in DOMAIN jobs' : jobs'[i] = jobs'[k] => i = k
      BY <2>1, <2>2
    <2>5. ASSUME NEW i \in Jobs PROVE InQueue(i)' <=> InQueue(i) /\ i # j
      <3>1. ASSUME InQueue(i)' PROVE InQueue(i) /\ i # j
        <4>1. PICK k \in DOMAIN jobs' : jobs'[k] = i
          BY <3>1 DEF InQueue
        <4>2. k + 1 \in DOMAIN jobs /\ jobs[k + 1] = i /\ k + 1 # 1
          BY <2>2, <4>1
        <4>3. i # jobs[1]
          BY <1>4, <2>1, <4>2
        <4> QED
          BY <4>2, <4>3 DEF InQueue, j
      <3>2. ASSUME InQueue(i), i # j PROVE InQueue(i)'
        <4>1. PICK k \in DOMAIN jobs : jobs[k] = i
          BY <3>2 DEF InQueue
        <4>2. k # 1
          BY <3>2, <4>1 DEF j
        <4>3. k - 1 \in DOMAIN jobs' /\ (k - 1) + 1 = k
          BY <2>3, <4>2
        <4>4. jobs'[k - 1] = i
          BY <2>2, <4>1, <4>3
        <4> QED
          BY <4>3, <4>4 DEF InQueue
      <3> QED
        BY <3>1, <3>2
    <2>6. \A i : InRows(i)' = InRows(i)
      BY <1>2 DEF InRows
    <2>7. ASSUME NEW i \in Jobs
          PROVE (stage'[i] = "queued" <=> InQueue(i)') /\ (stage'[i] = "running" <=> i = j \/ InRows(i))
      <3>1. (stage[i] = "queued" <=> InQueue(i)) /\ (stage[i] = "running" <=> i = cur \/ InRows(i)) /\ i # cur
        BY <1>1, <1>5 DEF OnePlace
      <3> QED
        BY <1>5, <1>6, <2>5, <3>1
    <2>8. ~InRows(j)
      BY <1>1, <1>4, <1>5 DEF OnePlace
    <2> QED
      BY <1>1, <1>2, <2>4, <2>6, <2>7, <2>8 DEF OnePlace
  <1>9. Standing'
    BY <1>1, <1>2, <1>4 DEF Standing
  <1>10. FinishedOnce'
    BY <1>1, <1>2, <1>5, <1>6 DEF FinishedOnce
  <1> QED
    BY <1>2, <1>6, <1>7, <1>8, <1>9, <1>10, TextStays

LEMMA WritingIs ==
  ASSUME Types, NEW j \in Jobs
  PROVE  j \in Writing <=> InRows(j)
  <1>1. j # NoJob
    BY BoundsAssumption
  <1> QED
    BY <1>1 DEF Writing, Active, InRows

\* Those of J leave their rows, and nobody else.
LEMMA RowsEnd ==
  ASSUME IInv, NEW J, J \subseteq Writing, Finish(J), UNCHANGED <<jobs, cur>>,
         DOMAIN rows' \subseteq DOMAIN rows, \A r \in DOMAIN rows' : rows'[r] \in {rows[r], NoJob},
         \A j \in Jobs : InRows(j)' <=> InRows(j) /\ j \notin J
  PROVE  Ended(J) /\ OnePlace' /\ \A j \in Jobs : stage'[j] = "new" => stage[j] = "new"
  <1>1. Types /\ OnePlace /\ FinishedOnce /\ NoJob \notin Jobs
    BY BoundsAssumption DEF IInv
  <1>2. \A j \in J \cap Jobs : InRows(j)
    BY <1>1, WritingIs
  <1>3. \A j \in J \cap Jobs : stage[j] = "running" /\ j # cur
    BY <1>1, <1>2 DEF OnePlace
  <1>4. Ended(J)
    BY <1>1, <1>3, FinishIs
  <1>5. \A j \in Jobs : stage'[j] = IF j \in J THEN "done" ELSE stage[j]
    BY <1>4 DEF Ended
  <1>6. ASSUME NEW j \in Jobs
        PROVE (stage'[j] = "queued" <=> InQueue(j)') /\ (stage'[j] = "running" <=> j = cur' \/ InRows(j)')
    <2>1. (stage[j] = "queued" <=> InQueue(j)) /\ (stage[j] = "running" <=> j = cur \/ InRows(j))
      BY <1>1 DEF OnePlace
    <2>2. InQueue(j)' = InQueue(j)
      BY DEF InQueue
    <2> QED
      BY <1>3, <1>5, <2>1, <2>2
  <1>7. \A r, q \in DOMAIN rows' : rows'[r] = rows'[q] /\ rows'[r] # NoJob => r = q
    <2>1. \A r, q \in DOMAIN rows : rows[r] = rows[q] /\ rows[r] # NoJob => r = q
      BY <1>1 DEF OnePlace
    <2> QED
      BY <2>1
  <1>8. cur' # NoJob => ~InRows(cur)'
    BY <1>1 DEF OnePlace, InRows
  <1>9. \A i, k \in DOMAIN jobs' : jobs'[i] = jobs'[k] => i = k
    BY <1>1 DEF OnePlace
  <1>10. OnePlace'
    BY <1>6, <1>7, <1>8, <1>9 DEF OnePlace
  <1> QED
    BY <1>4, <1>5, <1>10

\* After a failure nobody is left in the batch.
LEMMA FailIs ==
  ASSUME IInv, Fail, UNCHANGED <<jobs, cur, prompt>>
  PROVE  Ended(Writing) /\ OnePlace' /\ Replies' /\ RowsRead'
  <1>1. rows' = <<>> /\ batch' = EmptyBatch /\ pending' = <<>> /\ Finish(Writing) /\ gen' = gen
    BY DEF Fail
  <1>2. Types /\ Replies
    BY DEF IInv
  <1>3. \A j \in Jobs : InRows(j)' <=> InRows(j) /\ j \notin Writing
    BY <1>1, <1>2, WritingIs DEF InRows
  <1>4. DOMAIN rows' = {}
    BY <1>1
  <1> DEFINE W == Writing
  <1> HIDE DEF W
  <1>5. Finish(W) /\ W \subseteq Writing /\ \A j \in Jobs : InRows(j)' <=> InRows(j) /\ j \notin W
    BY <1>1, <1>3 DEF W
  <1>6. Ended(W) /\ OnePlace' /\ \A j \in Jobs : stage'[j] = "new" => stage[j] = "new"
    BY <1>4, <1>5, RowsEnd
  <1>7. Replies'
    BY <1>1, <1>2, <1>6, RepliesStay
  <1>8. RowsRead'
    BY <1>1, NoRows
  <1> QED
    BY <1>6, <1>7, <1>8 DEF W

LEMMA StepFailsKeeps ==
  ASSUME IInv, StepFails PROVE IInv'
  <1>1. /\ at' = "admit" /\ Fail /\ UNCHANGED <<setting, jobs, quit, prompt, cur, cache, pool>>
        /\ rows' = <<>> /\ pending' = <<>> /\ gen' = gen
    BY DEF StepFails, Fail
  <1>2. Types /\ Standing /\ CacheRead /\ PoolOK(pool)
    BY DEF IInv
  <1>3. Ended(Writing) /\ OnePlace' /\ Replies' /\ RowsRead'
    BY <1>1, FailIs
  <1>4. Types'
    BY <1>1, <1>2, <1>3 DEF Types, Ended, Places
  <1>5. Standing'
    BY <1>1, <1>2 DEF Standing, StepFails, AtStep
  <1>6. CacheRead' /\ PoolOK(pool') /\ FinishedOnce'
    BY <1>1, <1>2, <1>3, CacheStays DEF Ended
  <1> QED
    BY <1>3, <1>4, <1>5, <1>6 DEF IInv

\* Everyone that came and was not answered yet is.
LEMMA ReturnIs ==
  ASSUME IInv, Return PROVE IInv' /\ Unanswered' = {}
  <1>1. /\ at = "admit" /\ Finish(Writing \cup ToSet(jobs))
        /\ jobs' = <<>> /\ rows' = <<>> /\ batch' = EmptyBatch /\ pending' = <<>>
        /\ pool' = <<>> /\ at' = "returned"
        /\ UNCHANGED <<setting, quit, prompt, gen, cur, cache>>
    BY DEF Return
  <1>2. Types /\ OnePlace /\ Standing /\ FinishedOnce /\ Replies /\ CacheRead
    BY DEF IInv
  <1>3. cur = NoJob /\ NoJob \notin Jobs
    BY <1>1, <1>2, BoundsAssumption DEF Standing
  <1> DEFINE J == Writing \cup ToSet(jobs)
  <1>4. \A j \in Jobs : j \in J <=> InRows(j) \/ InQueue(j)
    BY <1>2, WritingIs DEF ToSet, InQueue
  <1>5. Finish(J)
    BY <1>1
  <1> HIDE DEF J
  <1>6. \A j \in Jobs : /\ stage[j] = "queued" <=> InQueue(j)
                        /\ stage[j] = "running" <=> InRows(j)
    BY <1>2, <1>3 DEF OnePlace
  <1>7. \A j \in Jobs : j \in J <=> stage[j] \in {"queued", "running"}
    BY <1>4, <1>6
  <1>8. Ended(J)
    <2>1. \A j \in J \cap Jobs : stage[j] # "done"
      BY <1>7
    <2> QED
      BY <1>2, <1>5, <2>1, FinishIs
  <1>9. \A j \in Jobs : stage'[j] = IF j \in J THEN "done" ELSE stage[j]
    BY <1>8 DEF Ended
  <1>10. \A j \in Jobs : stage'[j] \notin {"queued", "running"}
    BY <1>7, <1>9
  <1>11. Types'
    BY <1>1, <1>2, <1>8 DEF Types, Ended, Places
  <1>12. OnePlace'
    <2>1. \A j \in Jobs : ~InQueue(j)' /\ ~InRows(j)'
      BY <1>1 DEF InQueue, InRows
    <2>2. \A j \in Jobs : j # cur'
      BY <1>1, <1>3
    <2>3. DOMAIN jobs' = {} /\ DOMAIN rows' = {}
      BY <1>1
    <2> QED
      BY <1>1, <1>3, <1>10, <2>1, <2>2, <2>3 DEF OnePlace
  <1>13. Standing'
    BY <1>1, <1>3 DEF Standing
  <1>14. Replies'
    <2>1. \A j \in Jobs : stage'[j] = "new" => stage[j] = "new"
      BY <1>9
    <2> QED
      BY <1>1, <1>2, <2>1, RepliesStay
  <1>15. RowsRead' /\ CacheRead' /\ FinishedOnce'
    BY <1>1, <1>2, <1>8, NoRows, CacheStays DEF Ended
  <1>16. PoolOK(pool')
    BY <1>1 DEF PoolOK
  <1>17. Unanswered' = {}
    BY <1>10 DEF Unanswered
  <1> QED
    BY <1>11, <1>12, <1>13, <1>14, <1>15, <1>16, <1>17 DEF IInv

LEMMA ActiveIs ==
  ASSUME Types, NEW r \in Active
  PROVE  r \in DOMAIN rows /\ rows[r] \in Jobs /\ rows[r] \in Writing
  BY DEF Types, Active, Writing

\* A row whose reply goes on has read what it wrote.
WentOn(b, toks, r) ==
    /\ r \in Active /\ rows'[r] = rows[r]
    /\ gen'[rows[r]] = Append(gen[rows[r]], toks[r])
    /\ \A t : Reads(b, r, t) => Reads(batch', r, t)

Left(b, toks) ==
    /\ stage' \in [Jobs -> Stages] /\ ended' \in [Jobs -> Nat]
    /\ gen' \in [Jobs -> Seq(Nat)] /\ Replies' /\ OnePlace' /\ FinishedOnce'
    /\ rows' \in Seq(Jobs \cup {NoJob}) /\ Len(rows') = Len(rows)
    /\ Good(batch') /\ Width(batch') = Width(b)
    /\ \A r \in Active' : WentOn(b, toks, r)
    /\ \A j \in Jobs : j \notin Writing => gen'[j] = gen[j]

\* Replies that go on have a token more, of which their rows read the same.
LEMMA LeaveIs ==
  ASSUME IInv, NEW b, Good(b), NEW toks, \A r \in Active : toks[r] = Says(Text(rows[r])),
         Leave(b, toks), UNCHANGED <<jobs, cur, prompt>>
  PROVE  Left(b, toks)
  <1> DEFINE full == {r \in Active : Len(gen[rows[r]]) + 1 >= MaxGen(rows[r])}
             rowOf(j) == CHOOSE r \in Active : rows[r] = j
  <1>1. PICK early \in SUBSET Active :
            /\ gen' = [j \in Jobs |-> IF j \in Writing /\ rowOf(j) \notin early
                                      THEN Append(gen[j], toks[rowOf(j)]) ELSE gen[j]]
            /\ rows' = [r \in DOMAIN rows |-> IF r \in early \cup full THEN NoJob ELSE rows[r]]
            /\ batch' = Release(b, early \cup full)
            /\ Finish({rows[r] : r \in early \cup full})
    BY DEF Leave
  <1> DEFINE gone == early \cup full
             J == {rows[r] : r \in gone}
  <1>2. /\ rows' = [r \in DOMAIN rows |-> IF r \in gone THEN NoJob ELSE rows[r]]
        /\ batch' = Release(b, gone) /\ Finish(J) /\ gone \subseteq Active
    BY <1>1
  <1>3. Types /\ OnePlace /\ Replies /\ NoJob \notin Jobs
    BY BoundsAssumption DEF IInv
  <1>4. ASSUME NEW r \in Active PROVE rowOf(rows[r]) = r
    <2>1. \A q \in Active : rows[q] = rows[r] => q = r
      BY <1>3 DEF OnePlace, Active
    <2> QED
      BY <2>1
  <1>5. ASSUME NEW j \in Jobs, j \in Writing PROVE rowOf(j) \in Active /\ rows[rowOf(j)] = j
    BY <1>5 DEF Writing
  <1>6. /\ \A j \in Jobs : gen'[j] = IF j \in Writing /\ rowOf(j) \notin early
                                     THEN Append(gen[j], toks[rowOf(j)]) ELSE gen[j]
        /\ DOMAIN gen' = Jobs /\ gen' = [j \in Jobs |-> gen'[j]]
    BY <1>1
  <1> HIDE DEF full, rowOf, gone
  \* the replies
  <1>7. ASSUME NEW j \in Jobs PROVE gen'[j] \in Seq(Nat) /\ AsAlone(prompt[j].tokens, gen'[j])
    <2>1. gen[j] \in Seq(Nat) /\ AsAlone(prompt[j].tokens, gen[j]) /\ prompt[j] \in Prompts
      BY <1>3 DEF Types, Replies
    <2>2. prompt[j].tokens \in Seq(Nat)
      BY <2>1, PromptsAssumption DEF IsPrompt
    <2>3. CASE j \in Writing /\ rowOf(j) \notin early
      <3>1. gen'[j] = Append(gen[j], toks[rowOf(j)])
        BY <1>6, <2>3
      <3>2. toks[rowOf(j)] = Says(prompt[j].tokens \o gen[j])
        BY <1>5, <2>3 DEF Text
      <3> DEFINE p == prompt[j].tokens
                 g == gen[j]
      <3>3. p \in Seq(Nat) /\ g \in Seq(Nat) /\ AsAlone(p, g)
        BY <2>1, <2>2
      <3>4. gen'[j] = Append(g, Says(p \o g))
        BY <3>1, <3>2
      <3> HIDE DEF p, g
      <3>5. AsAlone(p, Append(g, Says(p \o g))) /\ Append(g, Says(p \o g)) \in Seq(Nat)
        BY <3>3, AloneAppend
      <3> QED
        BY <3>4, <3>5 DEF p
    <2>4. CASE ~(j \in Writing /\ rowOf(j) \notin early)
      <3>1. gen'[j] = gen[j]
        BY <1>6, <2>4
      <3> QED
        BY <2>1, <3>1
    <2> QED
      BY <2>3, <2>4
  <1>8. gen' \in [Jobs -> Seq(Nat)]
    <2> DEFINE g == gen'
    <2>1. g = [j \in Jobs |-> g[j]] /\ \A j \in Jobs : g[j] \in Seq(Nat)
      BY <1>6, <1>7
    <2> HIDE DEF g
    <2>2. g \in [Jobs -> Seq(Nat)]
      BY <2>1
    <2> QED
      BY <2>2 DEF g
  \* the rows
  <1>9. /\ rows \in Seq(Jobs \cup {NoJob}) /\ DOMAIN rows' = DOMAIN rows
        /\ \A r \in DOMAIN rows : rows'[r] = IF r \in gone THEN NoJob ELSE rows[r]
        /\ rows' \in Seq(Jobs \cup {NoJob}) /\ Len(rows') = Len(rows)
    <2> DEFINE n == Len(rows)
               q == [r \in 1 .. n |-> IF r \in gone THEN NoJob ELSE rows[r]]
    <2>1. rows \in Seq(Jobs \cup {NoJob}) /\ n \in Nat /\ DOMAIN rows = 1 .. n
      BY <1>3 DEF Types
    <2>2. \A r \in 1 .. n : rows[r] \in Jobs \cup {NoJob}
      BY <2>1
    <2>3. rows' = q
      BY <1>2, <2>1
    <2> HIDE DEF n
    <2>4. q \in [1 .. n -> Jobs \cup {NoJob}]
      BY <2>2
    <2>5. \A r \in 1 .. n : q[r] = IF r \in gone THEN NoJob ELSE rows[r]
      OBVIOUS
    <2> HIDE DEF q
    <2>6. q \in Seq(Jobs \cup {NoJob}) /\ Len(q) = n /\ DOMAIN q = 1 .. n
      BY <2>1, <2>4, FunctionIsSeq
    <2> QED
      BY <2>1, <2>3, <2>5, <2>6 DEF n
  <1>10. Active' = Active \ gone /\ \A r \in Active' : rows'[r] = rows[r]
    BY <1>9 DEF Active
  \* those who leave
  <1>11. J \subseteq Writing
    BY <1>2 DEF Writing
  <1>12. ASSUME NEW j \in Jobs PROVE InRows(j)' <=> InRows(j) /\ j \notin J
    <2>1. ASSUME InRows(j)' PROVE InRows(j) /\ j \notin J
      <3>1. PICK r \in DOMAIN rows' : rows'[r] = j
        BY <2>1 DEF InRows
      <3>2. r \in DOMAIN rows /\ r \notin gone /\ rows[r] = j
        BY <1>3, <1>9, <3>1
      <3>3. \A q \in gone : rows[q] # j
        <4>1. \A q \in gone : q \in DOMAIN rows
          BY <1>2 DEF Active
        <4> QED
          BY <1>3, <3>2, <4>1 DEF OnePlace
      <3> QED
        BY <3>2, <3>3 DEF InRows
    <2>2. ASSUME InRows(j), j \notin J PROVE InRows(j)'
      <3>1. PICK r \in DOMAIN rows : rows[r] = j
        BY <2>2 DEF InRows
      <3>2. r \notin gone
        BY <2>2, <3>1
      <3> QED
        BY <1>9, <3>1, <3>2 DEF InRows
    <2> QED
      BY <2>1, <2>2
  <1> HIDE DEF J
  <1>13. Ended(J) /\ OnePlace' /\ \A j \in Jobs : stage'[j] = "new" => stage[j] = "new"
    <2>1. DOMAIN rows' \subseteq DOMAIN rows /\ \A r \in DOMAIN rows' : rows'[r] \in {rows[r], NoJob}
      BY <1>9
    <2> QED
      BY <1>2, <1>11, <1>12, <2>1, RowsEnd
  <1>14. Replies'
    <2>1. ASSUME NEW j \in Jobs, stage'[j] = "new" PROVE gen'[j] = <<>>
      <3>1. stage[j] = "new"
        BY <1>13, <2>1
      <3>2. gen[j] = <<>> /\ ~InRows(j)
        BY <1>3, <3>1 DEF Replies, OnePlace
      <3>3. j \notin Writing
        BY <1>3, <3>2, WritingIs
      <3> QED
        BY <1>6, <3>2, <3>3
    <2> QED
      BY <1>7, <2>1 DEF Replies
  \* the batch
  <1>15. Good(batch') /\ Width(batch') = Width(b) /\ \A r, t : Reads(b, r, t) /\ r \notin gone => Reads(batch', r, t)
    <2> DEFINE c == Release(b, gone)
    <2>1. Good(c) /\ Width(c) = Width(b) /\ \A r, t : Reads(b, r, t) /\ r \notin gone => Reads(c, r, t)
      BY ReleaseIs
    <2>2. batch' = c
      BY <1>2
    <2> HIDE DEF c
    <2> QED
      BY <2>1, <2>2
  <1>16. ASSUME NEW r \in Active' PROVE WentOn(b, toks, r)
    <2>1. r \in Active /\ r \notin gone /\ rows'[r] = rows[r]
      BY <1>10
    <2>2. rows[r] \in Jobs /\ rows[r] \in Writing
      BY <1>3, <2>1, ActiveIs
    <2>3. rowOf(rows[r]) = r
      BY <1>4, <2>1
    <2>4. r \notin early
      BY <2>1 DEF gone
    <2>5. gen'[rows[r]] = Append(gen[rows[r]], toks[r])
      BY <1>6, <2>2, <2>3, <2>4
    <2> QED
      BY <1>15, <2>1, <2>5 DEF WentOn
  <1>17. \A j \in Jobs : j \notin Writing => gen'[j] = gen[j]
    BY <1>6
  <1> QED
    BY <1>8, <1>9, <1>13, <1>14, <1>15, <1>16, <1>17 DEF Left, Ended

LEMMA OneMore ==
  ASSUME NEW p \in Seq(Nat), NEW g \in Seq(Nat), NEW x \in Nat
  PROVE  /\ Append(g, x) \in Seq(Nat) /\ Append(g, x) # <<>>
         /\ Front(Append(g, x)) = g /\ Last(Append(g, x)) = x
         /\ p \o Append(g, x) = Append(p \o g, x)
  <1> DEFINE s == Append(g, x)
             l == Len(g)
  <1>1. s \in Seq(Nat) /\ Len(s) = l + 1 /\ l \in Nat /\ s[l + 1] = x /\ \A i \in 1 .. l : s[i] = g[i]
    OBVIOUS
  <1>2. s = g \o <<x>> /\ <<x>> \in Seq(Nat)
    OBVIOUS
  <1>3. p \o s = (p \o g) \o <<x>>
    <2> DEFINE o == <<x>>
    <2> HIDE DEF o
    <2>1. o \in Seq(Nat)
      BY <1>2 DEF o
    <2>2. (p \o g) \o o = p \o (g \o o)
      BY <2>1, Together
    <2> QED
      BY <1>2, <2>2 DEF o
  <1>4. (p \o g) \o <<x>> = Append(p \o g, x) /\ s # <<>>
    <2> DEFINE t == p \o g
    <2>1. t \in Seq(Nat)
      OBVIOUS
    <2> HIDE DEF t, s
    <2>2. s # <<>>
      <3>1. Len(<<>>) = 0 /\ l + 1 # 0
        BY <1>1
      <3> QED
        BY <1>1, <3>1
    <2>3. t \o <<x>> = Append(t, x)
      BY <2>1
    <2> QED
      BY <2>2, <2>3 DEF t
  <1> HIDE DEF s
  <1>5. Last(s) = x
    BY <1>1 DEF Last
  <1>6. Front(s) = g
    <2> DEFINE t == SubSeq(s, 1, l)
    <2>0. l \in 0 .. Len(s)
      BY <1>1
    <2> HIDE DEF l
    <2>1. t \in Seq(Nat) /\ Len(t) = l /\ \A i \in 1 .. l : t[i] = s[i]
      BY <1>1, <2>0, BeginningIs
    <2>2. Len(s) - 1 = l
      BY <1>1
    <2>3. Front(s) = t
      BY <2>2 DEF Front
    <2>4. Len(t) = Len(g) /\ \A i \in 1 .. Len(t) : t[i] = g[i]
      BY <1>1, <2>1 DEF l
    <2> HIDE DEF t
    <2>5. t = g
      BY <2>1, <2>4, SameText
    <2> QED
      BY <2>3, <2>5
  <1> QED
    BY <1>1, <1>3, <1>4, <1>5, <1>6 DEF s

LEMMA LastOne ==
  ASSUME NEW g \in Seq(Nat), g # <<>>
  PROVE  Front(g) \in Seq(Nat) /\ Last(g) \in Nat /\ g = Append(Front(g), Last(g))
  <1> DEFINE m == Len(g) - 1
             s == SubSeq(g, 1, m)
  <1>1. Len(g) \in Nat \ {0} /\ m \in 0 .. Len(g) /\ m + 1 = Len(g)
    OBVIOUS
  <1>2. Last(g) = g[Len(g)] /\ Last(g) \in Nat
    BY <1>1 DEF Last
  <1> HIDE DEF m
  <1>3. s \in Seq(Nat) /\ Len(s) = m /\ \A i \in 1 .. m : s[i] = g[i]
    BY <1>1, BeginningIs
  <1>4. Front(g) = s
    BY DEF Front, m
  <1> DEFINE t == Append(s, Last(g))
  <1> HIDE DEF s
  <1>5. t \in Seq(Nat) /\ Len(t) = m + 1 /\ t[m + 1] = Last(g) /\ \A i \in 1 .. m : t[i] = s[i]
    BY <1>2, <1>3
  <1> HIDE DEF t
  <1>6. ASSUME NEW i \in 1 .. Len(g) PROVE g[i] = t[i]
    <2>1. i = m + 1 \/ i \in 1 .. m
      BY <1>1
    <2> QED
      BY <1>1, <1>2, <1>3, <1>5, <2>1
  <1>7. g = t
    BY <1>1, <1>5, <1>6, SameText
  <1> QED
    BY <1>2, <1>3, <1>4, <1>7 DEF t

LEMMA TextsAre ==
  ASSUME Types, NEW j \in Jobs
  PROVE  /\ prompt[j] \in Prompts /\ IsPrompt(prompt[j])
         /\ prompt[j].tokens \in Seq(Nat) /\ gen[j] \in Seq(Nat) /\ Text(j) \in Seq(Nat)
  <1>1. prompt[j] \in Prompts /\ gen[j] \in Seq(Nat)
    BY DEF Types
  <1>2. IsPrompt(prompt[j])
    BY <1>1, PromptsAssumption
  <1>3. prompt[j].tokens \in Seq(Nat)
    BY <1>2 DEF IsPrompt
  <1> QED
    BY <1>1, <1>2, <1>3 DEF Text

\* A text and its last token.
LEMMA TextIs ==
  ASSUME Types, NEW j \in Jobs, gen[j] # <<>>
  PROVE  Text(j) = Append(Before(j), Last(gen[j])) /\ Last(gen[j]) \in Nat /\ Before(j) \in Seq(Nat)
  <1> DEFINE p == prompt[j].tokens
             g == gen[j]
             h == Front(g)
             x == Last(g)
  <1>1. p \in Seq(Nat) /\ g \in Seq(Nat)
    BY TextsAre
  <1>2. h \in Seq(Nat) /\ x \in Nat /\ g = Append(h, x)
    BY <1>1, LastOne
  <1>3. Text(j) = p \o g /\ Before(j) = p \o h
    BY DEF Text, Before
  <1> HIDE DEF p, g, h, x
  <1>4. p \o Append(h, x) = Append(p \o h, x)
    BY <1>1, <1>2, OneMore
  <1>5. p \o h \in Seq(Nat)
    BY <1>1, <1>2
  <1> QED
    BY <1>2, <1>3, <1>4, <1>5 DEF x, g

\* When a row has written a token more.
LEMMA TextGrows ==
  ASSUME Types, NEW j \in Jobs, NEW x \in Nat, prompt' = prompt, gen'[j] = Append(gen[j], x)
  PROVE  gen'[j] # <<>> /\ Before(j)' = Text(j) /\ Text(j)' = Append(Text(j), x)
  <1> DEFINE p == prompt[j].tokens
             g == gen[j]
  <1>1. p \in Seq(Nat) /\ g \in Seq(Nat)
    BY TextsAre
  <1>2. Text(j) = p \o g /\ Before(j)' = p \o Front(gen'[j]) /\ Text(j)' = p \o gen'[j] /\ gen'[j] = Append(g, x)
    BY DEF Text, Before
  <1> HIDE DEF p, g
  <1>3. Append(g, x) # <<>> /\ Front(Append(g, x)) = g /\ p \o Append(g, x) = Append(p \o g, x)
    BY <1>1, OneMore
  <1> QED
    BY <1>2, <1>3

LEMMA RowIs ==
  ASSUME RowsRead, NEW r \in Active
  PROVE  /\ gen[rows[r]] # <<>>
         /\ pending = <<>> => Reads(batch, r, Before(rows[r]))
         /\ pending # <<>> => Reads(batch, r, Text(rows[r])) /\ pending[r] = Says(Text(rows[r]))
  BY DEF RowsRead

\* What settle leaves.
Settled ==
    /\ stage' \in [Jobs -> Stages] /\ ended' \in [Jobs -> Nat]
    /\ gen' \in [Jobs -> Seq(Nat)] /\ rows' \in Seq(Jobs \cup {NoJob})
    /\ OnePlace' /\ FinishedOnce' /\ Replies' /\ RowsRead'
    /\ prompt' = prompt /\ pending' = <<>>

\* The step in flight is read, or lost with everyone in the batch.
LEMMA SettleIs ==
  ASSUME IInv, Settle, UNCHANGED <<jobs, cur>>
  PROVE  Settled
  <1>1. Types /\ OnePlace /\ FinishedOnce /\ Replies /\ RowsRead
    BY DEF IInv
  <1>2. CASE pending = <<>>
    <2>1. UNCHANGED <<request, rows, batch, pending>>
      BY <1>2 DEF Settle
    <2>2. RowsRead' /\ Replies'
      BY <1>1, <2>1, RowsStay, RepliesStay DEF request
    <2>3. OnePlace' /\ FinishedOnce'
      BY <1>1, <2>1 DEF OnePlace, FinishedOnce, InQueue, InRows, request
    <2> QED
      BY <1>1, <1>2, <2>1, <2>2, <2>3 DEF Types, Settled, request
  <1>3. CASE pending # <<>> /\ Fail /\ prompt' = prompt
    <2>1. Ended(Writing) /\ OnePlace' /\ Replies' /\ RowsRead'
      BY <1>3, FailIs
    <2>2. rows' = <<>> /\ pending' = <<>> /\ gen' = gen
      BY <1>3 DEF Fail
    <2> QED
      BY <1>1, <1>3, <2>1, <2>2 DEF Types, Ended, Settled
  <1>4. CASE pending # <<>> /\ Leave(batch, pending) /\ pending' = <<>> /\ prompt' = prompt
    <2>1. Good(batch) /\ \A r \in Active : pending[r] = Says(Text(rows[r]))
      BY <1>1, <1>4 DEF RowsRead
    <2>2. Left(batch, pending)
      BY <1>4, <2>1, LeaveIs
    <2>3. ASSUME NEW r \in Active' PROVE gen'[rows'[r]] # <<>> /\ Reads(batch', r, Before(rows[r])')
      <3>1. WentOn(batch, pending, r)
        BY <2>2 DEF Left
      <3>2. r \in Active /\ rows'[r] = rows[r]
        BY <3>1 DEF WentOn
      <3>3. PICK j \in Jobs : rows[r] = j
        BY <1>1, <3>2, ActiveIs
      <3>4. PICK x : x = pending[r]
        OBVIOUS
      <3>5. Reads(batch, r, Text(j)) /\ x = Says(Text(j))
        BY <1>1, <1>4, <3>2, <3>3, <3>4, RowIs
      <3>6. x \in Nat
        BY <1>1, <3>5, TextsAre, SaysIs
      <3>7. gen'[j] = Append(gen[j], x) /\ Reads(batch', r, Text(j))
        BY <3>1, <3>3, <3>4, <3>5 DEF WentOn
      <3>8. gen'[j] # <<>> /\ Before(j)' = Text(j)
        BY <1>1, <1>4, <3>6, <3>7, TextGrows
      <3>9. rows'[r] = j
        BY <3>2, <3>3
      <3>10. Before(rows[r])' = Before(j)'
        BY <3>9 DEF Before
      <3> QED
        BY <3>7, <3>8, <3>9, <3>10
    <2>4. Good(batch') /\ Len(rows') <= Width(batch')
      BY <1>1, <2>2 DEF RowsRead, Left
    <2>5. RowsRead'
      BY <1>4, <2>3, <2>4 DEF RowsRead
    <2> QED
      BY <1>4, <2>2, <2>5 DEF Settled, Left
  <1> QED
    BY <1>2, <1>3, <1>4 DEF Settle

LEMMA SettledKeeps ==
  ASSUME IInv, Settle, UNCHANGED <<setting, jobs, cur, cache, pool>>,
         at' \in Places \ {"solo", "join"}, at' \in {"settle", "prefill"} <=> cur # NoJob
  PROVE  IInv'
  <1>1. Types /\ CacheRead /\ PoolOK(pool)
    BY DEF IInv
  <1>2. Settled
    BY SettleIs
  <1>3. Types'
    BY <1>1, <1>2 DEF Types, Settled
  <1>4. Standing'
    BY <1>2 DEF Standing, Settled
  <1>5. CacheRead' /\ PoolOK(pool')
    BY <1>1, CacheStays
  <1> QED
    BY <1>2, <1>3, <1>4, <1>5 DEF IInv, Settled

LEMMA SettleFirstKeeps ==
  ASSUME IInv, SettleFirst PROVE IInv'
  <1>1. cur # NoJob /\ at' = "prefill"
    BY DEF IInv, Standing, SettleFirst
  <1>2. at' \in Places \ {"solo", "join"}
    BY <1>1 DEF Places
  <1> QED
    BY <1>1, <1>2, SettledKeeps DEF SettleFirst

LEMMA CompactKeeps ==
  ASSUME IInv, Compact PROVE IInv'
  <1>1. cur = NoJob /\ at' = "compact"
    BY DEF IInv, Standing, Compact
  <1>2. at' \in Places \ {"solo", "join"}
    BY <1>1 DEF Places
  <1> QED
    BY <1>1, <1>2, SettledKeeps DEF Compact

\* What a step in flight will say to each row.
LEMMA OutputsAre ==
  ASSUME Types, NEW b, Good(b), Width(b) = Len(rows)
  PROVE  /\ Outputs(b) \in Seq(Nat) /\ Len(Outputs(b)) = Len(rows)
         /\ \A r \in Active : \A t : Reads(b, r, t) => Outputs(b)[r] = Says(t)
  <1> DEFINE n == Len(rows)
             o == [r \in 1 .. n |-> IF rows[r] = NoJob THEN Blank ELSE Model(RowKeys(b, r), b.state[r])]
  <1>1. n \in Nat /\ DOMAIN rows = 1 .. n
    BY DEF Types
  <1>2. Outputs(b) = o
    BY <1>1 DEF Outputs
  <1>3. /\ b.idx \in Nat /\ b.cap \in Nat /\ b.idx <= b.cap
        /\ b.pad \in [1 .. n -> 0 .. b.idx] /\ b.keys \in [1 .. n -> Columns(b.cap)]
        /\ b.state \in [1 .. n -> Seq(Nat)]
    BY GoodIs
  <1> HIDE DEF n
  <1>4. ASSUME NEW r \in 1 .. n PROVE Model(RowKeys(b, r), b.state[r]) \in Nat
    <2> DEFINE k == b.keys[r]
               p == b.pad[r]
    <2>1. k \in Seq(Nat) /\ Len(k) = b.cap /\ p \in 0 .. b.idx
      BY <1>3 DEF Columns
    <2>2. b.state[r] \in Seq(Nat) /\ RowKeys(b, r) = SubSeq(k, p + 1, b.idx)
      BY <1>3 DEF RowKeys
    <2> HIDE DEF k, p
    <2>3. SubSeq(k, p + 1, b.idx) \in Seq(Nat)
      BY <1>3, <2>1
    <2> QED
      BY <2>2, <2>3, ModelIs
  <1>5. o \in [1 .. n -> Nat]
    BY <1>4 DEF Blank
  <1>6. \A r \in 1 .. n : rows[r] # NoJob => o[r] = Model(RowKeys(b, r), b.state[r])
    OBVIOUS
  <1> HIDE DEF o
  <1>7. o \in Seq(Nat) /\ Len(o) = n
    BY <1>1, <1>5, FunctionIsSeq
  <1>8. ASSUME NEW r \in Active, NEW t, Reads(b, r, t) PROVE o[r] = Says(t)
    <2>1. r \in 1 .. n /\ rows[r] # NoJob
      BY <1>1 DEF Active
    <2>2. RowKeys(b, r) = t /\ b.state[r] = t
      BY <1>8, RowKeysIs DEF Reads
    <2> QED
      BY <1>6, <2>1, <2>2 DEF Says
  <1> QED
    BY <1>2, <1>7, <1>8 DEF n

\* What a step's rows read.
LEMMA InputsAre ==
  ASSUME Types, RowsRead
  PROVE  /\ \A r \in DOMAIN rows : Inputs[r] \in Nat
         /\ \A r \in Active : Inputs[r] = IF pending = <<>> THEN Last(gen[rows[r]]) ELSE pending[r]
  <1>1. CASE pending # <<>>
    <2>1. Inputs = pending
      BY <1>1 DEF Inputs
    <2>2. pending \in Seq(Nat) /\ Len(pending) = Len(rows) /\ rows \in Seq(Jobs \cup {NoJob})
      BY <1>1 DEF Types, RowsRead
    <2>3. \A r \in DOMAIN rows : pending[r] \in Nat
      BY <2>2
    <2> QED
      BY <1>1, <2>1, <2>3
  <1>2. CASE pending = <<>>
    <2>1. Inputs = [r \in DOMAIN rows |-> IF rows[r] = NoJob THEN Blank ELSE Last(gen[rows[r]])]
      BY <1>2 DEF Inputs
    <2>2. ASSUME NEW r \in DOMAIN rows PROVE Inputs[r] \in Nat /\ (r \in Active => Inputs[r] = Last(gen[rows[r]]))
      <3>1. CASE rows[r] = NoJob
        <4>1. Inputs[r] = Blank /\ r \notin Active
          BY <2>1, <3>1 DEF Active
        <4> QED
          BY <4>1 DEF Blank
      <3>2. CASE rows[r] # NoJob
        <4>1. r \in Active
          BY <3>2 DEF Active
        <4>2. rows[r] \in Jobs /\ gen[rows[r]] # <<>>
          BY <4>1, ActiveIs, RowIs
        <4>3. Last(gen[rows[r]]) \in Nat
          BY <4>2, TextsAre, LastOne
        <4> QED
          BY <2>1, <3>2, <4>3
      <3> QED
        BY <3>1, <3>2
    <2> QED
      BY <1>2, <2>2 DEF Active
  <1> QED
    BY <1>1, <1>2

\* Every row reads its reply's last token, which may be in flight still.
LEMMA StepKeeps ==
  ASSUME IInv, Step PROVE IInv'
  <1>1. Types /\ OnePlace /\ Standing /\ FinishedOnce /\ Replies /\ CacheRead /\ PoolOK(pool) /\ RowsRead
    BY DEF IInv
  <1> DEFINE b == StepBatch(batch, Inputs)
  <1>2. /\ Len(rows) = Width(batch) /\ at' = "admit" /\ AtStep
        /\ UNCHANGED <<setting, jobs, quit, cur, cache, pool>> /\ prompt' = prompt
        /\ pending' = Outputs(b)
        /\ \/ pending = <<>> /\ batch' = b /\ UNCHANGED <<request, rows>>
           \/ pending # <<>> /\ Leave(b, pending)
    BY DEF Step, request
  <1>3. cur = NoJob
    BY <1>1, <1>2 DEF Standing, AtStep
  <1>4. Good(batch) /\ rows \in Seq(Jobs \cup {NoJob}) /\ DOMAIN rows = 1 .. Width(batch)
    BY <1>1, <1>2 DEF RowsRead, Types
  <1>5. \A r \in 1 .. Width(batch) : Inputs[r] \in Nat
    BY <1>1, <1>4, InputsAre
  <1> DEFINE ins == Inputs
  <1> HIDE DEF ins
  <1>6. b = StepBatch(batch, ins) /\ \A r \in 1 .. Width(batch) : ins[r] \in Nat
    BY <1>5 DEF ins
  <1> HIDE DEF b
  <1>7. /\ Good(b) /\ Width(b) = Width(batch)
        /\ \A r, t : Reads(batch, r, t) => Reads(b, r, Append(t, ins[r]))
    BY <1>4, <1>6, StepIs
  <1>8. /\ Outputs(b) \in Seq(Nat) /\ Len(Outputs(b)) = Len(rows)
        /\ \A r \in Active : \A t : Reads(b, r, t) => Outputs(b)[r] = Says(t)
    BY <1>1, <1>2, <1>7, OutputsAre
  <1>9. CacheRead' /\ PoolOK(pool')
    BY <1>1, <1>2, CacheStays
  <1>10. CASE pending = <<>> /\ batch' = b /\ UNCHANGED <<request, rows>>
    <2>1. ASSUME NEW r \in Active PROVE gen[rows[r]] # <<>> /\ Reads(b, r, Text(rows[r]))
      <3>1. PICK j \in Jobs : rows[r] = j
        BY <1>1, ActiveIs
      <3>2. gen[j] # <<>> /\ Reads(batch, r, Before(j))
        BY <1>1, <1>10, <3>1, RowIs
      <3>3. ins[r] = Last(gen[j])
        BY <1>1, <1>10, <3>1, InputsAre DEF ins
      <3>4. Text(j) = Append(Before(j), Last(gen[j]))
        BY <1>1, <3>2, TextIs
      <3>5. Reads(b, r, Append(Before(j), ins[r]))
        BY <1>7, <3>2
      <3> QED
        BY <3>1, <3>2, <3>3, <3>4, <3>5
    <2>2. \A r \in Active : pending'[r] = Says(Text(rows[r]))
      BY <1>2, <1>8, <2>1
    <2>3. Active' = Active /\ \A r : Text(rows[r])' = Text(rows[r])
      BY <1>10 DEF Active, Text, request
    <2>4. pending' = <<>> => Active' = {}
      <3>1. ASSUME pending' = <<>> PROVE DOMAIN rows = {}
        <4>1. Len(rows) = 0
          BY <1>2, <1>8, <3>1
        <4> QED
          BY <1>4, <4>1
      <3> QED
        BY <2>3, <3>1 DEF Active
    <2>5. Good(batch') /\ Len(rows') <= Width(batch') /\ Len(pending') = Len(rows')
      BY <1>1, <1>2, <1>7, <1>8, <1>10 DEF RowsRead
    <2>6. RowsRead'
      <3>1. \A r \in Active' : gen'[rows'[r]] # <<>> /\ Reads(batch', r, Text(rows[r])') /\ pending'[r] = Says(Text(rows[r])')
        BY <1>10, <2>1, <2>2, <2>3 DEF request
      <3>2. \A r \in Active' : pending' # <<>>
        BY <2>4
      <3> QED
        BY <2>5, <3>1, <3>2 DEF RowsRead, Says
    <2>7. Types' /\ Standing'
      BY <1>1, <1>2, <1>3, <1>8, <1>10 DEF Types, Standing, Places, request
    <2>8. OnePlace' /\ FinishedOnce'
      BY <1>1, <1>2, <1>10 DEF OnePlace, FinishedOnce, InQueue, InRows, request
    <2>9. Replies'
      BY <1>1, <1>10, RepliesStay DEF request
    <2> QED
      BY <1>9, <2>6, <2>7, <2>8, <2>9 DEF IInv
  <1>11. CASE pending # <<>> /\ Leave(b, pending)
    <2>1. \A r \in Active : pending[r] = Says(Text(rows[r]))
      BY <1>1, <1>11 DEF RowsRead
    <2>2. Left(b, pending)
      BY <1>2, <1>7, <1>11, <2>1, LeaveIs
    <2>3. ASSUME NEW r \in Active'
          PROVE  gen'[rows'[r]] # <<>> /\ Reads(batch', r, Text(rows[r])') /\ pending'[r] = Says(Text(rows[r])')
      <3>1. WentOn(b, pending, r)
        BY <2>2 DEF Left
      <3>2. r \in Active /\ rows'[r] = rows[r]
        BY <3>1 DEF WentOn
      <3>3. PICK j \in Jobs : rows[r] = j
        BY <1>1, <3>2, ActiveIs
      <3>4. PICK x : x = pending[r]
        OBVIOUS
      <3>5. Reads(batch, r, Text(j)) /\ x = Says(Text(j))
        BY <1>1, <1>11, <3>2, <3>3, <3>4, RowIs
      <3>6. x \in Nat
        BY <1>1, <3>5, TextsAre, SaysIs
      <3>7. ins[r] = x
        BY <1>1, <1>11, <3>2, <3>4, InputsAre DEF ins
      <3>8. Reads(b, r, Append(Text(j), x))
        BY <1>7, <3>5, <3>7
      <3>9. gen'[j] = Append(gen[j], x) /\ Reads(batch', r, Append(Text(j), x))
        BY <3>1, <3>3, <3>4, <3>8 DEF WentOn
      <3>10. gen'[j] # <<>> /\ Text(j)' = Append(Text(j), x)
        BY <1>1, <1>2, <3>6, <3>9, TextGrows
      <3>11. rows'[r] = j
        BY <3>2, <3>3
      <3>12. Text(rows[r])' = Text(j)'
        BY <3>11 DEF Text
      <3>13. pending'[r] = Says(Append(Text(j), x))
        BY <1>2, <1>8, <3>2, <3>8
      <3> QED
        BY <3>9, <3>10, <3>11, <3>12, <3>13
    <2>4. Good(batch') /\ Len(rows') <= Width(batch') /\ Len(pending') = Len(rows') /\ rows' \in Seq(Jobs \cup {NoJob})
      BY <1>1, <1>2, <1>7, <1>8, <2>2 DEF RowsRead, Left
    <2>5. pending' = <<>> => Active' = {}
      <3>1. ASSUME pending' = <<>> PROVE DOMAIN rows' = {}
        <4>1. Len(rows') = 0
          BY <2>4, <3>1
        <4> QED
          BY <2>4, <4>1
      <3> QED
        BY <3>1 DEF Active
    <2>6. RowsRead'
      <3>1. \A r \in Active' : pending' # <<>>
        BY <2>5
      <3> QED
        BY <2>3, <2>4, <3>1 DEF RowsRead, Says
    <2>7. Types' /\ Standing'
      BY <1>1, <1>2, <1>3, <1>8, <2>2 DEF Types, Standing, Places, Left
    <2> QED
      BY <1>9, <2>2, <2>6, <2>7 DEF IInv, Left
  <1> QED
    BY <1>2, <1>10, <1>11

\* Another reply than a row's changes.
LEMMA OthersStay ==
  ASSUME Types, RowsRead, UNCHANGED <<prompt, batch, rows, pending>>, NEW j, j \notin Writing,
         \A i \in Jobs : i # j => gen'[i] = gen[i]
  PROVE  RowsRead'
  <1>1. Active' = Active
    BY DEF Active
  <1>2. ASSUME NEW r \in Active
        PROVE  gen'[rows[r]] = gen[rows[r]] /\ Before(rows[r])' = Before(rows[r]) /\ Text(rows[r])' = Text(rows[r])
    <2>1. rows[r] \in Jobs /\ rows[r] # j
      BY ActiveIs
    <2>2. gen'[rows[r]] = gen[rows[r]]
      BY <2>1
    <2> QED
      BY <2>2 DEF Before, Text
  <1> QED
    BY <1>1, <1>2 DEF RowsRead

\* The job being admitted has a longer reply.
LEMMA RepliesGrow ==
  ASSUME Types, Replies, prompt' = prompt, NEW j \in Jobs, stage[j] = "running",
         \A i \in Jobs : i # j => gen'[i] = gen[i], AsAlone(prompt[j].tokens, gen'[j]),
         \A i \in Jobs : stage'[i] = "new" => stage[i] = "new"
  PROVE  Replies'
  <1>1. ASSUME NEW i \in Jobs PROVE AsAlone(prompt[i].tokens, gen'[i]) /\ (stage'[i] = "new" => gen'[i] = <<>>)
    BY DEF Replies
  <1> QED
    BY <1>1 DEF Replies

LEMMA CurIs ==
  ASSUME IInv, cur # NoJob
  PROVE  /\ cur \in Jobs /\ stage[cur] = "running" /\ cur \notin Writing
         /\ prompt[cur].tokens \in Seq(Nat) /\ gen[cur] \in Seq(Nat) /\ IsPrompt(prompt[cur])
  <1>1. Types /\ OnePlace /\ cur \in Jobs
    BY DEF IInv, Types
  <1>2. stage[cur] = "running" /\ ~InRows(cur)
    BY <1>1 DEF OnePlace
  <1>3. cur \notin Writing
    BY <1>1, <1>2, WritingIs
  <1> QED
    BY <1>1, <1>2, <1>3, TextsAre

\* The first token is what the model writes of the prompt.
LEMMA PrefillKeeps ==
  ASSUME IInv, Prefill PROVE IInv'
  <1>1. Types /\ OnePlace /\ Standing /\ FinishedOnce /\ Replies /\ CacheRead /\ PoolOK(pool) /\ RowsRead
    BY DEF IInv
  <1> DEFINE p == prompt[cur]
             d == Alone
             r == ReadPrompt(p, d)
             c == r.cache
  <1>2. /\ at = "prefill" /\ pool' = r.pool
        /\ UNCHANGED <<setting, jobs, quit, prompt, batch, rows, pending>>
        /\ \/ Finish({cur}) /\ cur' = NoJob /\ at' = "admit" /\ UNCHANGED <<gen, cache>>
           \/ /\ gen' = [gen EXCEPT ![cur] = <<Model(Keys(c), c.state)>>]
              /\ cache' = c /\ at' \in {"solo", "join"}
              /\ UNCHANGED <<stage, ended, cur>>
    BY DEF Prefill
  <1>3. cur # NoJob
    BY <1>1, <1>2 DEF Standing
  <1>4. /\ cur \in Jobs /\ stage[cur] = "running" /\ cur \notin Writing
        /\ p.tokens \in Seq(Nat) /\ gen[cur] \in Seq(Nat) /\ IsPrompt(p)
    BY <1>3, CurIs
  <1>5. d \in BOOLEAN
    BY DEF Alone
  <1> HIDE DEF d
  <1>6. PoolOK(r.pool) /\ Holds(c, p.tokens)
    <2> HIDE DEF p
    <2> QED
      BY <1>1, <1>4, <1>5, ReadPromptIs
  <1> HIDE DEF r
  <1>7. CASE Finish({cur}) /\ cur' = NoJob /\ at' = "admit" /\ UNCHANGED <<gen, cache>>
    BY <1>2, <1>3, <1>6, <1>7, CurEndsIs
  <1>8. CASE /\ gen' = [gen EXCEPT ![cur] = <<Model(Keys(c), c.state)>>]
             /\ cache' = c /\ at' \in {"solo", "join"} /\ UNCHANGED <<stage, ended, cur>>
    <2> DEFINE t == p.tokens
               g == <<Says(t)>>
    <2>1. Keys(c) = t /\ c.state = t
      BY <1>6, HoldsIs
    <2>2. gen' = [gen EXCEPT ![cur] = g]
      BY <1>8, <2>1 DEF Says
    <2>3. AsAlone(t, g)
      BY <1>4, AloneOne
    <2>4. Says(t) \in Nat
      BY <1>4, SaysIs
    <2> DEFINE x == Says(t)
    <2>5. g \in Seq(Nat) /\ g # <<>> /\ Front(g) = <<>>
      <3> HIDE DEF x
      <3>1. <<x>> \in Seq(Nat) /\ <<x>> # <<>> /\ Len(<<x>>) = 1 /\ SubSeq(<<x>>, 1, 0) = <<>>
        BY <2>4 DEF x
      <3>2. Len(<<x>>) - 1 = 0
        BY <3>1
      <3>3. Front(<<x>>) = <<>>
        BY <3>1, <3>2 DEF Front
      <3> QED
        BY <3>1, <3>3 DEF x
    <2> HIDE DEF g, x
    <2>6. gen \in [Jobs -> Seq(Nat)]
      BY <1>1 DEF Types
    <2>7. /\ gen'[cur] = g /\ \A i \in Jobs : i # cur => gen'[i] = gen[i]
          /\ gen' \in [Jobs -> Seq(Nat)]
      BY <1>4, <2>2, <2>5, <2>6
    <2>8. Types'
      BY <1>1, <1>2, <1>8, <2>7 DEF Types, Places
    <2>9. OnePlace' /\ FinishedOnce' /\ Standing'
      BY <1>1, <1>2, <1>3, <1>8 DEF OnePlace, FinishedOnce, Standing, InQueue, InRows
    <2>10. Replies'
      BY <1>1, <1>2, <1>4, <1>8, <2>3, <2>7, RepliesGrow
    <2>11. RowsRead'
      BY <1>1, <1>2, <1>4, <2>7, OthersStay
    <2>12. t \o <<>> = t
      BY <1>4
    <2>13. Before(cur)' = t
      BY <1>2, <1>8, <2>5, <2>7, <2>12 DEF Before
    <2>14. CacheRead'
      <3>1. Holds(cache', cache'.state) /\ Holds(cache', Before(cur)')
        BY <1>6, <1>8, <2>1, <2>13
      <3>2. gen'[cur'] # <<>>
        BY <1>8, <2>5, <2>7
      <3> QED
        BY <3>1, <3>2 DEF CacheRead
    <2> QED
      BY <1>2, <1>6, <2>8, <2>9, <2>10, <2>11, <2>14 DEF IInv
  <1> QED
    BY <1>2, <1>7, <1>8

LEMMA BurstRoomIs == ASSUME Types PROVE BurstRoom \in Int
  <1>1. rows \in Seq(Jobs \cup {NoJob}) /\ DOMAIN rows = 1 .. Len(rows) /\ Len(rows) \in Nat
        /\ jobs \in Seq(Jobs) /\ Len(jobs) \in Nat
    BY DEF Types
  <1>2. IsFiniteSet(1 .. Len(rows)) /\ Active \subseteq 1 .. Len(rows)
    BY <1>1, FS_Interval DEF Active
  <1>3. Cardinality(Active) \in Nat
    BY <1>2, FS_Subset, FS_CardinalityType
  <1> DEFINE S == {slots, Cardinality(Active) + 1 + Len(jobs)}
  <1>4. slots \in Nat
    BY BoundsAssumption
  <1>5. S \subseteq Int /\ S # {} /\ 0 \in Int /\ \A i \in S : 0 <= i
    BY <1>1, <1>3, <1>4
  <1> HIDE DEF S
  <1>6. Min(S) \in S
    BY <1>5, MinIs
  <1> QED
    BY <1>5, <1>6 DEF BurstRoom, S

\* A row is added for the cache of the job being admitted.
LEMMA AddedIs ==
  ASSUME IInv, at = "join"
  PROVE  Joins(batch, Add(batch, cache, BurstRoom), JoinsAt(batch), Before(cur))
  <1>1. Types /\ Good(batch) /\ Holds(cache, Before(cur))
    BY DEF IInv, RowsRead, CacheRead
  <1>2. BurstRoom \in Int
    BY <1>1, BurstRoomIs
  <1> QED
    BY <1>1, <1>2, AddIs

LEMMA NewCacheHolds == Holds(NewCache, <<>>)
  <1> DEFINE c == NewCache
  <1>1. c = [keys |-> <<>>, state |-> <<>>, offset |-> 0, drafting |-> FALSE, head |-> "none", headOffset |-> 0]
    BY DEF NewCache
  <1>2. <<>> \in Seq(Nat) /\ Len(<<>>) = 0
    OBVIOUS
  <1> HIDE DEF c
  <1>3. c \in CacheSet
    BY <1>1, <1>2 DEF CacheSet
  <1>4. Holds(c, <<>>)
    BY <1>1, <1>2, <1>3 DEF Holds
  <1> QED
    BY <1>4 DEF c

\* The batch has a row more than the engine knows of; its others have read on.
LEMMA JoinFailsKeeps ==
  ASSUME IInv, JoinFails PROVE IInv'
  <1>1. Types /\ OnePlace /\ Standing /\ FinishedOnce /\ Replies /\ CacheRead /\ PoolOK(pool) /\ RowsRead
    BY DEF IInv
  <1>2. /\ at = "join" /\ Finish({cur}) /\ cur' = NoJob /\ at' = "admit" /\ cache' = NewCache
        /\ batch' = Add(batch, cache, BurstRoom)
        /\ UNCHANGED <<setting, jobs, quit, prompt, gen, rows, pending, pool>>
    BY DEF JoinFails
  <1>3. cur # NoJob /\ pending = <<>>
    BY <1>1, <1>2 DEF Standing
  <1>4. Joins(batch, batch', JoinsAt(batch), Before(cur))
    BY <1>2, AddedIs
  <1>5. gen' \in [Jobs -> Seq(Nat)]
    BY <1>1, <1>2 DEF Types
  <1>6. /\ Types' /\ OnePlace' /\ Standing' /\ FinishedOnce'
        /\ \A j \in Jobs : stage'[j] = "new" => stage[j] = "new"
    BY <1>2, <1>3, <1>5, CurEnds
  <1>7. Replies'
    BY <1>1, <1>2, <1>6, RepliesStay
  <1>8. CacheRead'
    BY <1>2, NewCacheHolds DEF CacheRead, Holds
  <1>9. RowsRead'
    <2>1. Active' = Active /\ \A r : Before(rows[r])' = Before(rows[r])
      BY <1>2 DEF Active, Before
    <2>2. Good(batch) /\ Len(rows) <= Width(batch) /\ Len(rows) \in Nat /\ Width(batch) \in Nat
      BY <1>1, GoodIs DEF RowsRead, Types
    <2>3. Good(batch') /\ Width(batch) <= Width(batch') /\ Width(batch') \in Nat
      BY <1>4, GoodIs DEF Joins
    <2>4. ASSUME NEW r \in Active PROVE gen[rows[r]] # <<>> /\ Reads(batch', r, Before(rows[r]))
      <3>1. gen[rows[r]] # <<>> /\ Reads(batch, r, Before(rows[r]))
        BY <1>1, <1>3, RowIs
      <3>2. r # JoinsAt(batch)
        BY <2>2, <3>1, JoinsAtIs
      <3> QED
        BY <1>4, <3>1, <3>2 DEF Joins
    <2> QED
      BY <1>2, <1>3, <2>1, <2>2, <2>3, <2>4 DEF RowsRead
  <1> QED
    BY <1>1, <1>2, <1>6, <1>7, <1>8, <1>9 DEF IInv

\* The newcomer's row, and it alone, is its.
LEMMA JoinKeeps ==
  ASSUME IInv, Join PROVE IInv'
  <1>1. Types /\ OnePlace /\ Standing /\ FinishedOnce /\ Replies /\ CacheRead /\ PoolOK(pool) /\ RowsRead
        /\ NoJob \notin Jobs
    BY BoundsAssumption DEF IInv
  <1> DEFINE b == Add(batch, cache, BurstRoom)
             n == Width(b)
             k == JoinsAt(batch)
             q == [r \in 1 .. n |-> IF r = k THEN cur ELSE IF r \in DOMAIN rows THEN rows[r] ELSE NoJob]
  <1>2. /\ at = "join" /\ at' = "admit" /\ batch' = b /\ rows' = q /\ cur' = NoJob /\ cache' = NewCache
        /\ UNCHANGED <<setting, jobs, quit, request, pending, pool>>
    BY DEF Join
  <1>3. cur # NoJob /\ pending = <<>> /\ gen[cur] # <<>>
    BY <1>1, <1>2 DEF Standing, CacheRead
  <1>4. cur \in Jobs /\ stage[cur] = "running" /\ ~InRows(cur)
    BY <1>1, <1>3, CurIs DEF OnePlace
  <1>5. Joins(batch, b, k, Before(cur))
    BY <1>2, AddedIs
  <1> HIDE DEF b, k
  <1>6. Good(b) /\ n \in Nat /\ Width(batch) <= n /\ k \in 1 .. n
    BY <1>5, GoodIs DEF Joins, Reads
  <1>7. Good(batch) /\ Width(batch) \in Nat /\ Len(rows) <= Width(batch)
        /\ rows \in Seq(Jobs \cup {NoJob}) /\ Len(rows) \in Nat /\ DOMAIN rows = 1 .. Len(rows)
    BY <1>1, GoodIs DEF RowsRead, Types
  <1>8. \A r \in DOMAIN rows : r \in 1 .. n
    BY <1>6, <1>7
  <1> HIDE DEF n
  <1>9. ASSUME NEW r \in Active PROVE r # k /\ gen[rows[r]] # <<>> /\ Reads(batch, r, Before(rows[r]))
    <2>1. gen[rows[r]] # <<>> /\ Reads(batch, r, Before(rows[r]))
      BY <1>1, <1>3, RowIs
    <2>2. r # k
      BY <1>7, <2>1, JoinsAtIs DEF k
    <2> QED
      BY <2>1, <2>2
  <1>10. ASSUME NEW r \in DOMAIN rows PROVE rows[r] # NoJob => r # k
    BY <1>9 DEF Active
  <1>11. q \in Seq(Jobs \cup {NoJob}) /\ Len(q) = n /\ DOMAIN q = 1 .. n
    <2>1. \A r \in DOMAIN rows : rows[r] \in Jobs \cup {NoJob}
      BY <1>7
    <2>2. q \in [1 .. n -> Jobs \cup {NoJob}]
      BY <1>4, <2>1
    <2> HIDE DEF q
    <2> QED
      BY <1>6, <2>2, FunctionIsSeq
  <1>12. /\ \A r \in 1 .. n : q[r] = IF r = k THEN cur ELSE IF r \in DOMAIN rows THEN rows[r] ELSE NoJob
         /\ rows' = q
    BY <1>2
  <1> HIDE DEF q
  <1>13. \A j \in Jobs : InRows(j)' <=> InRows(j) \/ j = cur
    <2> SUFFICES ASSUME NEW j \in Jobs PROVE InRows(j)' <=> InRows(j) \/ j = cur
      OBVIOUS
    <2>1. ASSUME InRows(j)' PROVE InRows(j) \/ j = cur
      <3>1. PICK r \in 1 .. n : q[r] = j
        BY <1>11, <1>12, <2>1 DEF InRows
      <3> QED
        BY <1>1, <1>12, <3>1 DEF InRows
    <2>2. ASSUME InRows(j) PROVE InRows(j)'
      <3>1. PICK r \in DOMAIN rows : rows[r] = j
        BY <2>2 DEF InRows
      <3>2. r # k /\ r \in 1 .. n
        BY <1>1, <1>8, <1>10, <3>1
      <3>3. q[r] = j
        BY <1>12, <3>1, <3>2
      <3> QED
        BY <1>11, <1>12, <3>2, <3>3 DEF InRows
    <2>3. ASSUME j = cur PROVE InRows(j)'
      <3>1. q[k] = j
        BY <1>6, <1>12, <2>3
      <3> QED
        BY <1>6, <1>11, <1>12, <3>1 DEF InRows
    <2> QED
      BY <2>1, <2>2, <2>3
  <1>14. Types'
    BY <1>1, <1>2, <1>11, <1>12 DEF Types, Places, request
  <1>15. OnePlace'
    <2>1. \A r, s \in DOMAIN rows : rows[r] = rows[s] /\ rows[r] # NoJob => r = s
      BY <1>1 DEF OnePlace
    <2>2. \A r \in DOMAIN rows : rows[r] # cur
      BY <1>4 DEF InRows
    <2>3. \A r, s \in 1 .. n : q[r] = q[s] /\ q[r] # NoJob => r = s
      BY <1>3, <1>12, <2>1, <2>2
    <2>4. \A r, s \in DOMAIN rows' : rows'[r] = rows'[s] /\ rows'[r] # NoJob => r = s
      BY <1>11, <1>12, <2>3
    <2>5. ASSUME NEW j \in Jobs
          PROVE (stage'[j] = "queued" <=> InQueue(j)') /\ (stage'[j] = "running" <=> j = cur' \/ InRows(j)')
      <3>1. (stage[j] = "queued" <=> InQueue(j)) /\ (stage[j] = "running" <=> j = cur \/ InRows(j))
        BY <1>1 DEF OnePlace
      <3>2. InQueue(j)' = InQueue(j) /\ stage' = stage
        BY <1>2 DEF InQueue, request
      <3>3. j # cur'
        BY <1>1, <1>2
      <3>4. InRows(j)' <=> InRows(j) \/ j = cur
        BY <1>13
      <3> QED
        BY <3>1, <3>2, <3>3, <3>4
    <2>6. \A i, m \in DOMAIN jobs' : jobs'[i] = jobs'[m] => i = m
      BY <1>1, <1>2 DEF OnePlace
    <2> QED
      BY <1>2, <2>4, <2>5, <2>6 DEF OnePlace
  <1>16. Standing' /\ FinishedOnce'
    BY <1>1, <1>2, <1>3 DEF Standing, FinishedOnce, request
  <1>17. Replies'
    BY <1>1, <1>2, RepliesStay DEF request
  <1>18. CacheRead'
    BY <1>2, NewCacheHolds DEF CacheRead, Holds
  <1>19. RowsRead'
    <2>1. ASSUME NEW r \in Active' PROVE gen'[rows'[r]] # <<>> /\ Reads(batch', r, Before(rows[r])')
      <3>1. r \in 1 .. n /\ q[r] # NoJob
        BY <1>11, <1>12 DEF Active
      <3>2. gen' = gen /\ Before(rows[r])' = Before(q[r])
        BY <1>2, <1>12 DEF Before, request
      <3>3. CASE r = k
        <4>1. q[r] = cur
          BY <1>12, <3>1, <3>3
        <4>2. Reads(b, k, Before(cur))
          BY <1>5 DEF Joins
        <4> QED
          BY <1>2, <1>3, <1>12, <3>2, <3>3, <4>1, <4>2
      <3>4. CASE r # k
        <4>1. r \in Active /\ q[r] = rows[r]
          BY <1>12, <3>1, <3>4 DEF Active
        <4>2. gen[rows[r]] # <<>> /\ Reads(batch, r, Before(rows[r]))
          BY <1>9, <4>1
        <4>3. Reads(b, r, Before(rows[r]))
          BY <1>5, <3>4, <4>2 DEF Joins
        <4> QED
          BY <1>2, <1>12, <3>2, <4>1, <4>2, <4>3
      <3> QED
        BY <3>3, <3>4
    <2>2. Good(batch') /\ Len(rows') <= Width(batch') /\ pending' = <<>>
      BY <1>2, <1>3, <1>6, <1>11, <1>12 DEF n
    <2> QED
      BY <2>1, <2>2 DEF RowsRead
  <1> QED
    BY <1>1, <1>2, <1>14, <1>15, <1>16, <1>17, <1>18, <1>19 DEF IInv

\* What a pass over a token and n drafts comes to, kept of them the model's.
Passed(p, g, toks, kept, c) ==
    /\ g \o toks \in Seq(Nat) /\ g \o toks # <<>> /\ AsAlone(p, g \o toks)
    /\ Holds(c, p \o Front(g \o toks))
    /\ \A m \in 0 .. kept + 1 : g \o SubSeq(toks, 1, m) \in Seq(Nat) /\ AsAlone(p, g \o SubSeq(toks, 1, m))

\* Whatever is drafted, the reply goes on as the model writes alone, and the
\* cache is left just before its last token.
LEMMA PassIs ==
  ASSUME NEW p \in Seq(Nat), NEW g \in Seq(Nat), g # <<>>, AsAlone(p, g),
         NEW c, Holds(c, p \o Front(g)), NEW n \in Nat, NEW kept \in 0 .. n
  PROVE  Passed(p, g, Writes(c, Last(g), kept + 1), kept,
                Keep(Read(c, <<Last(g)>> \o SubSeq(Writes(c, Last(g), kept + 1), 1, kept) \o Blanks(n - kept)),
                     c, kept))
  <1> DEFINE x == Last(g)
             toks == Writes(c, x, kept + 1)
             before == p \o Front(g)
             s == SubSeq(toks, 1, kept)
             one == <<x>>
             u == one \o s
             bl == Blanks(n - kept)
             pass == u \o bl
             left == Keep(Read(c, pass), c, kept)
             all == g \o toks
  <1>1. Front(g) \in Seq(Nat) /\ x \in Nat /\ g = Append(Front(g), x)
    BY LastOne
  <1>2. kept \in Nat /\ kept + 1 \in Nat /\ n - kept \in Nat
    OBVIOUS
  <1>3. before \in Seq(Nat) /\ one \in Seq(Nat) /\ Len(one) = 1
    BY <1>1
  <1>4. p \o g = before \o one
    <2> DEFINE h == Front(g)
    <2>1. h \in Seq(Nat) /\ g = Append(h, x) /\ x \in Nat /\ p \in Seq(Nat)
      BY <1>1
    <2> HIDE DEF h, x
    <2>2. p \o Append(h, x) = Append(p \o h, x)
      BY <2>1, OneMore
    <2> DEFINE ph == p \o h
    <2>4. ph \in Seq(Nat)
      BY <2>1, Joined
    <2> HIDE DEF ph
    <2>3. Append(ph, x) = ph \o <<x>>
      BY <2>1, <2>4, AppendIsConcat
    <2> QED
      BY <2>1, <2>2, <2>3 DEF ph, h
  <1> HIDE DEF x
  <1>5. toks \in Seq(Nat) /\ Len(toks) = kept + 1 /\ AsAlone(before \o one, toks)
    <2> HIDE DEF before
    <2>1. Holds(c, before)
      BY DEF before
    <2>2. AsAlone(before \o <<x>>, toks) /\ toks \in Seq(Nat) /\ Len(toks) = kept + 1
      BY <1>1, <1>2, <2>1, WritesIs
    <2> QED
      BY <2>2
  <1> HIDE DEF toks
  <1>6. s \in Seq(Nat) /\ Len(s) = kept
    <2>1. kept \in 0 .. Len(toks)
      BY <1>2, <1>5
    <2> QED
      BY <1>5, <2>1, BeginningIs
  <1> HIDE DEF s, one
  <1>7. u \in Seq(Nat) /\ Len(u) = kept + 1
    <2>1. u \in Seq(Nat) /\ Len(u) = Len(one) + Len(s)
      BY <1>3, <1>6, Joined
    <2> QED
      BY <1>2, <1>3, <1>6, <2>1
  <1>8. bl \in Seq(Nat) /\ Len(bl) = n - kept
    BY <1>2, BlanksAre
  <1> HIDE DEF u, bl
  <1>9. pass \in Seq(Nat) /\ Len(pass) = n + 1 /\ SubSeq(pass, 1, kept + 1) = u
    <2>1. pass \in Seq(Nat) /\ Len(pass) = Len(u) + Len(bl)
      BY <1>7, <1>8, Joined
    <2>2. \A i \in 0 .. Len(u) : SubSeq(u \o bl, 1, i) = SubSeq(u, 1, i)
      BY <1>7, <1>8, BeginningOfBoth
    <2>3. SubSeq(u, 1, Len(u)) = u /\ Len(u) \in 0 .. Len(u)
      BY <1>7
    <2>4. SubSeq(pass, 1, Len(u)) = u
      BY <2>2, <2>3
    <2> QED
      BY <1>2, <1>7, <1>8, <2>1, <2>4
  <1> HIDE DEF pass
  <1>10. Holds(left, before \o u)
    <2> HIDE DEF before
    <2>1. Holds(c, before)
      BY DEF before
    <2>2. kept \in 0 .. Len(pass) - 1
      BY <1>2, <1>9
    <2>3. Holds(Keep(Read(c, pass), c, kept), before \o SubSeq(pass, 1, kept + 1))
      BY <1>9, <2>1, <2>2, KeepHolds
    <2> QED
      BY <1>9, <2>3
  <1> HIDE DEF left
  <1>11. AsAlone(p \o g, toks)
    BY <1>4, <1>5
  <1>12. all \in Seq(Nat) /\ Len(all) = Len(g) + Len(toks)
    BY <1>5, Joined
  <1>13. AsAlone(p, all)
    BY <1>5, <1>11, AloneOn
  <1>14. Len(g) \in Nat \ {0}
    OBVIOUS
  <1>15. all # <<>>
    <2>1. Len(<<>>) = 0 /\ Len(all) # 0
      BY <1>2, <1>5, <1>12, <1>14
    <2> QED
      BY <2>1
  <1>16. Front(all) = g \o s
    <2>1. \A i \in 0 .. Len(toks) : SubSeq(g \o toks, 1, Len(g) + i) = g \o SubSeq(toks, 1, i)
      BY <1>5, BeginningOfBoth
    <2>2. kept \in 0 .. Len(toks) /\ Len(all) - 1 = Len(g) + kept
      BY <1>2, <1>5, <1>12, <1>14
    <2>3. SubSeq(all, 1, Len(g) + kept) = g \o s
      BY <2>1, <2>2 DEF s
    <2> QED
      BY <2>2, <2>3 DEF Front
  <1>17. p \o Front(all) = before \o u
    <2>1. p \o (g \o s) = (p \o g) \o s
      BY <1>6, Together
    <2>2. (before \o one) \o s = before \o (one \o s)
      <3>1. before \in Seq(Nat) /\ one \in Seq(Nat) /\ s \in Seq(Nat)
        BY <1>3, <1>6
      <3> HIDE DEF before, one, s, all, toks
      <3> QED
        BY <3>1, Together, Zenon
    <2> QED
      BY <1>4, <1>16, <2>1, <2>2 DEF u
  <1>18. ASSUME NEW m \in 0 .. kept + 1
         PROVE  g \o SubSeq(toks, 1, m) \in Seq(Nat) /\ AsAlone(p, g \o SubSeq(toks, 1, m))
    <2> DEFINE w == SubSeq(toks, 1, m)
    <2>1. m \in 0 .. Len(toks)
      BY <1>5
    <2>2. w \in Seq(Nat)
      BY <1>5, <2>1, BeginningIs
    <2>3. p \o g \in Seq(Nat)
      OBVIOUS
    <2>4. AsAlone(p \o g, w)
      <3> DEFINE pg == p \o g
      <3>1. pg \in Seq(Nat) /\ AsAlone(pg, toks)
        BY <1>11, <2>3
      <3> HIDE DEF pg
      <3>2. AsAlone(pg, SubSeq(toks, 1, m))
        BY <1>5, <2>1, <3>1, AloneBegins
      <3> QED
        BY <3>2 DEF pg
    <2> HIDE DEF w
    <2>5. AsAlone(p, g \o w) /\ g \o w \in Seq(Nat)
      BY <2>2, <2>4, AloneOn, Joined
    <2> QED
      BY <2>5 DEF w
  <1>19. Holds(left, p \o Front(all))
    BY <1>10, <1>17
  <1>20. Passed(p, g, toks, kept, left)
    BY <1>12, <1>13, <1>15, <1>18, <1>19 DEF Passed
  <1> QED
    BY <1>20 DEF left, pass, u, one, s, bl, toks, x

LEMMA DraftsForIs ==
  ASSUME Types, NEW j \in Jobs
  PROVE  DraftsFor(j) \in Nat
  <1> DEFINE a == setting.drafts
             b == MaxGen(j) - Len(gen[j]) - 1
  <1>1. a \in Nat
    BY BoundsAssumption DEF Types
  <1>2. Len(prompt[j].tokens) \in Nat /\ Len(gen[j]) \in Nat
    BY TextsAre
  <1>3. b \in Int
    BY <1>2, BoundsAssumption DEF MaxGen
  <1> HIDE DEF a, b
  <1>4. \E lo \in Int : \A i \in {a, b} : lo <= i
    <2>1. CASE a <= b
      BY <1>1, <1>3, <2>1
    <2>2. CASE ~(a <= b)
      BY <1>1, <1>3, <2>2
    <2> QED
      BY <2>1, <2>2
  <1>5. PICK lo \in Int : \A i \in {a, b} : lo <= i
    BY <1>4
  <1> DEFINE S == {a, b}
  <1>6. S \subseteq Int /\ S # {} /\ \A i \in S : lo <= i
    BY <1>1, <1>3, <1>5
  <1> HIDE DEF S
  <1>7. Min(S) \in S
    BY <1>6, MinIs
  <1>8. Min(S) \in Int
    BY <1>6, <1>7
  <1>9. AtLeastZero(Min(S)) \in Nat
    BY <1>8 DEF AtLeastZero
  <1> QED
    BY <1>9 DEF DraftsFor, S, a, b

LEMMA SoloPassKeeps ==
  ASSUME IInv, SoloPass PROVE IInv'
  <1>1. Types /\ OnePlace /\ Standing /\ FinishedOnce /\ Replies /\ CacheRead /\ PoolOK(pool) /\ RowsRead
    BY DEF IInv
  <1> DEFINE p == prompt[cur].tokens
             g == gen[cur]
             n == DraftsFor(cur)
             toks(kept) == Writes(cache, Last(g), kept + 1)
             left(kept) == Keep(Read(cache, <<Last(g)>> \o SubSeq(toks(kept), 1, kept) \o Blanks(n - kept)),
                                cache, kept)
  <1>2. /\ at = "solo" /\ UNCHANGED <<setting, jobs, quit, prompt, batch, rows, pending, pool>>
        /\ \E kept \in 0 .. n :
             \/ /\ gen' = [gen EXCEPT ![cur] = g \o toks(kept)]
                /\ cache' = left(kept) /\ UNCHANGED <<at, stage, ended, cur>>
             \/ \E m \in 0 .. kept + 1 :
                  /\ gen' = [gen EXCEPT ![cur] = g \o SubSeq(toks(kept), 1, m)]
                  /\ Finish({cur}) /\ cur' = NoJob /\ at' = "admit" /\ UNCHANGED cache
    BY DEF SoloPass
  <1>3. cur # NoJob /\ g # <<>> /\ Holds(cache, p \o Front(g))
    BY <1>1, <1>2 DEF Standing, CacheRead, Before
  <1>4. /\ cur \in Jobs /\ stage[cur] = "running" /\ cur \notin Writing
        /\ p \in Seq(Nat) /\ g \in Seq(Nat) /\ AsAlone(p, g)
    BY <1>1, <1>3, CurIs DEF Replies
  <1>5. n \in Nat
    BY <1>1, <1>4, DraftsForIs
  <1> HIDE DEF n
  <1>6. PICK kept \in 0 .. n :
             \/ /\ gen' = [gen EXCEPT ![cur] = g \o toks(kept)]
                /\ cache' = left(kept) /\ UNCHANGED <<at, stage, ended, cur>>
             \/ \E m \in 0 .. kept + 1 :
                  /\ gen' = [gen EXCEPT ![cur] = g \o SubSeq(toks(kept), 1, m)]
                  /\ Finish({cur}) /\ cur' = NoJob /\ at' = "admit" /\ UNCHANGED cache
    BY <1>2
  <1>7. Passed(p, g, toks(kept), kept, left(kept))
    <2> HIDE DEF p, g
    <2> QED
      BY <1>3, <1>4, <1>5, PassIs
  <1> HIDE DEF toks, left
  <1>8. gen \in [Jobs -> Seq(Nat)]
    BY <1>1 DEF Types
  <1>9. ASSUME NEW w \in Seq(Nat), gen' = [gen EXCEPT ![cur] = w], AsAlone(p, w)
        PROVE  /\ gen'[cur] = w /\ gen' \in [Jobs -> Seq(Nat)] /\ RowsRead'
               /\ (\A i \in Jobs : stage'[i] = "new" => stage[i] = "new") => Replies'
    <2>1. gen'[cur] = w /\ gen' \in [Jobs -> Seq(Nat)] /\ \A i \in Jobs : i # cur => gen'[i] = gen[i]
      BY <1>4, <1>8, <1>9
    <2>2. RowsRead'
      BY <1>1, <1>2, <1>4, <2>1, OthersStay
    <2>3. ASSUME \A i \in Jobs : stage'[i] = "new" => stage[i] = "new" PROVE Replies'
      BY <1>1, <1>2, <1>4, <1>9, <2>1, <2>3, RepliesGrow
    <2> QED
      BY <2>1, <2>2, <2>3
  <1>10. CASE /\ gen' = [gen EXCEPT ![cur] = g \o toks(kept)]
              /\ cache' = left(kept) /\ UNCHANGED <<at, stage, ended, cur>>
    <2> DEFINE w == g \o toks(kept)
    <2>1. w \in Seq(Nat) /\ w # <<>> /\ AsAlone(p, w) /\ Holds(left(kept), p \o Front(w))
      BY <1>7 DEF Passed
    <2>2. gen' = [gen EXCEPT ![cur] = w]
      BY <1>10
    <2> HIDE DEF w
    <2>3. gen'[cur] = w /\ gen' \in [Jobs -> Seq(Nat)] /\ RowsRead' /\ Replies'
      BY <1>9, <1>10, <2>1, <2>2
    <2>4. Types'
      BY <1>1, <1>2, <1>10, <2>3 DEF Types
    <2>5. OnePlace' /\ FinishedOnce' /\ Standing'
      BY <1>1, <1>2, <1>10 DEF OnePlace, FinishedOnce, Standing, InQueue, InRows
    <2>6. CacheRead'
      <3>1. Before(cur)' = p \o Front(w)
        BY <1>2, <1>10, <2>3 DEF Before
      <3>2. Holds(cache', Before(cur)') /\ gen'[cur'] # <<>>
        BY <1>10, <2>1, <2>3, <3>1
      <3>3. Holds(cache', cache'.state)
        BY <3>2 DEF Holds
      <3> QED
        BY <3>2, <3>3 DEF CacheRead
    <2> QED
      BY <1>1, <1>2, <2>3, <2>4, <2>5, <2>6 DEF IInv
  <1>11. CASE \E m \in 0 .. kept + 1 :
                 /\ gen' = [gen EXCEPT ![cur] = g \o SubSeq(toks(kept), 1, m)]
                 /\ Finish({cur}) /\ cur' = NoJob /\ at' = "admit" /\ UNCHANGED cache
    <2>1. PICK m \in 0 .. kept + 1 :
                 /\ gen' = [gen EXCEPT ![cur] = g \o SubSeq(toks(kept), 1, m)]
                 /\ Finish({cur}) /\ cur' = NoJob /\ at' = "admit" /\ UNCHANGED cache
      BY <1>11
    <2> DEFINE w == g \o SubSeq(toks(kept), 1, m)
    <2>2. w \in Seq(Nat) /\ AsAlone(p, w) /\ gen' = [gen EXCEPT ![cur] = w]
      BY <1>7, <2>1 DEF Passed
    <2> HIDE DEF w
    <2>3. gen' \in [Jobs -> Seq(Nat)] /\ RowsRead'
      BY <1>9, <2>2
    <2>4. /\ Types' /\ OnePlace' /\ Standing' /\ FinishedOnce'
          /\ \A j \in Jobs : stage'[j] = "new" => stage[j] = "new"
      BY <1>2, <1>3, <2>1, <2>3, CurEnds
    <2>5. Replies'
      BY <1>9, <2>2, <2>4
    <2>6. CacheRead'
      BY <1>1, <2>1, CacheStays
    <2> QED
      BY <1>1, <1>2, <2>3, <2>4, <2>5, <2>6 DEF IInv
  <1> QED
    BY <1>6, <1>10, <1>11

\* The rows that stay, closed up.
LEMMA RowsMove ==
  ASSUME IInv, ToSet(Kept(batch)) \subseteq DOMAIN rows, rows' = Taken(rows, Kept(batch)),
         batch' = Compacted(batch), pending = <<>>, UNCHANGED <<jobs, cur, request, pending>>
  PROVE  OnePlace' /\ RowsRead' /\ rows' \in Seq(Jobs \cup {NoJob})
  <1>1. Types /\ OnePlace /\ RowsRead /\ NoJob \notin Jobs
    BY BoundsAssumption DEF IInv
  <1> DEFINE kept == Kept(batch)
             n == Len(kept)
             q == [k \in 1 .. n |-> rows[kept[k]]]
             b == Compacted(batch)
  <1>2. Good(batch) /\ Width(batch) \in Nat
    BY <1>1, GoodIs DEF RowsRead
  <1>3. kept \in Seq(Nat) /\ ToSet(kept) = LiveRows(batch) /\ Ascends(kept)
    BY <1>2, KeptIs
  <1>4. Good(b) /\ Width(b) = n /\ \A k \in 1 .. n : \A t : Reads(batch, kept[k], t) => Reads(b, k, t)
    BY <1>2, CompactedIs
  <1>5. rows' = Taken(rows, kept) /\ ToSet(kept) \subseteq DOMAIN rows
    OBVIOUS
  <1> HIDE DEF kept, b
  <1>6. n \in Nat /\ DOMAIN kept = 1 .. n /\ \A k \in 1 .. n : kept[k] \in DOMAIN rows /\ kept[k] \in Nat
    <2>1. n \in Nat /\ DOMAIN kept = 1 .. n /\ \A k \in 1 .. n : kept[k] \in Nat
      BY <1>3
    <2>2. \A k \in DOMAIN kept : kept[k] \in ToSet(kept)
      BY DEF ToSet
    <2> QED
      BY <1>5, <2>1, <2>2
  <1> HIDE DEF n
  <1>7. rows' = q /\ \A k \in 1 .. n : q[k] = rows[kept[k]]
    BY <1>5, <1>6 DEF Taken
  <1>8. q \in Seq(Jobs \cup {NoJob}) /\ Len(q) = n /\ DOMAIN q = 1 .. n
    <2>1. rows \in Seq(Jobs \cup {NoJob})
      BY <1>1 DEF Types
    <2>2. \A r \in DOMAIN rows : rows[r] \in Jobs \cup {NoJob}
      BY <2>1
    <2>3. q \in [1 .. n -> Jobs \cup {NoJob}]
      BY <1>6, <2>2
    <2> HIDE DEF q
    <2> QED
      BY <1>6, <2>3, FunctionIsSeq
  <1> HIDE DEF q
  <1>9. \A k, m \in 1 .. n : kept[k] = kept[m] => k = m
    <2>1. \A k, m \in 1 .. n : k < m => kept[k] < kept[m]
      BY <1>3, <1>6 DEF Ascends
    <2> SUFFICES ASSUME NEW k \in 1 .. n, NEW m \in 1 .. n, kept[k] = kept[m] PROVE k = m
      OBVIOUS
    <2>2. kept[k] \in Nat /\ kept[m] \in Nat
      BY <1>6
    <2>3. ~(k < m) /\ ~(m < k)
      BY <2>1, <2>2
    <2> QED
      BY <1>6, <2>3
  <1>10. ASSUME NEW r \in Active PROVE \E k \in 1 .. n : kept[k] = r
    <2>1. r \in LiveRows(batch)
      <3>1. \E t : Reads(batch, r, t)
        BY <1>1, RowIs
      <3> QED
        BY <3>1 DEF Reads, LiveRows
    <2> QED
      BY <1>3, <1>6, <2>1 DEF ToSet
  <1>11. \A j \in Jobs : InRows(j)' <=> InRows(j)
    <2> SUFFICES ASSUME NEW j \in Jobs PROVE InRows(j)' <=> InRows(j)
      OBVIOUS
    <2>1. ASSUME InRows(j)' PROVE InRows(j)
      <3>1. PICK k \in 1 .. n : q[k] = j
        BY <1>7, <1>8, <2>1 DEF InRows
      <3> QED
        BY <1>6, <1>7, <3>1 DEF InRows
    <2>2. ASSUME InRows(j) PROVE InRows(j)'
      <3>1. PICK r \in DOMAIN rows : rows[r] = j
        BY <2>2 DEF InRows
      <3>2. r \in Active
        BY <1>1, <3>1 DEF Active
      <3>3. PICK k \in 1 .. n : kept[k] = r
        BY <1>10, <3>2
      <3>4. q[k] = j
        BY <1>7, <3>1, <3>3
      <3> QED
        BY <1>7, <1>8, <3>4 DEF InRows
    <2> QED
      BY <2>1, <2>2
  <1>12. OnePlace'
    <2>1. \A r, s \in DOMAIN rows : rows[r] = rows[s] /\ rows[r] # NoJob => r = s
      BY <1>1 DEF OnePlace
    <2>2. \A k, m \in 1 .. n : q[k] = q[m] /\ q[k] # NoJob => k = m
      BY <1>6, <1>7, <1>9, <2>1
    <2>3. \A r, s \in DOMAIN rows' : rows'[r] = rows'[s] /\ rows'[r] # NoJob => r = s
      BY <1>7, <1>8, <2>2
    <2>4. ASSUME NEW j \in Jobs
          PROVE (stage'[j] = "queued" <=> InQueue(j)') /\ (stage'[j] = "running" <=> j = cur' \/ InRows(j)')
      <3>1. (stage[j] = "queued" <=> InQueue(j)) /\ (stage[j] = "running" <=> j = cur \/ InRows(j))
        BY <1>1 DEF OnePlace
      <3>2. InQueue(j)' = InQueue(j) /\ stage' = stage /\ cur' = cur
        BY DEF InQueue, request
      <3>3. InRows(j)' <=> InRows(j)
        BY <1>11
      <3> QED
        BY <3>1, <3>2, <3>3
    <2>5. \A i, m \in DOMAIN jobs' : jobs'[i] = jobs'[m] => i = m
      BY <1>1 DEF OnePlace
    <2>6. cur' # NoJob => ~InRows(cur)'
      <3>1. cur # NoJob => cur \in Jobs /\ ~InRows(cur)
        BY <1>1 DEF OnePlace, Types
      <3>2. ASSUME cur # NoJob PROVE ~InRows(cur)'
        <4>1. PICK j \in Jobs : j = cur
          BY <3>1, <3>2
        <4>2. ~InRows(j)'
          BY <1>11, <3>1, <3>2, <4>1
        <4>3. InRows(cur)' = InRows(j)'
          BY <4>1 DEF InRows
        <4> QED
          BY <4>2, <4>3
      <3> QED
        BY <3>2
    <2> QED
      BY <2>3, <2>4, <2>5, <2>6 DEF OnePlace
  <1>13. RowsRead'
    <2>1. ASSUME NEW k \in Active' PROVE gen'[rows'[k]] # <<>> /\ Reads(batch', k, Before(rows[k])')
      <3>1. k \in 1 .. n /\ q[k] # NoJob
        BY <1>7, <1>8 DEF Active
      <3>2. PICK r : r = kept[k]
        OBVIOUS
      <3>3. r \in Active /\ rows'[k] = rows[r]
        BY <1>6, <1>7, <3>1, <3>2 DEF Active
      <3>4. gen[rows[r]] # <<>> /\ Reads(batch, r, Before(rows[r]))
        BY <1>1, <3>3, RowIs
      <3>5. Reads(b, k, Before(rows[r]))
        BY <1>4, <3>1, <3>2, <3>4
      <3>6. Before(rows[k])' = Before(rows[r]) /\ gen' = gen
        BY <3>3 DEF Before, request
      <3> QED
        BY <3>3, <3>4, <3>5, <3>6 DEF b
    <2>2. Good(batch') /\ Len(rows') <= Width(batch') /\ pending' = <<>>
      BY <1>4, <1>6, <1>7, <1>8 DEF b
    <2> QED
      BY <2>1, <2>2 DEF RowsRead
  <1> QED
    BY <1>7, <1>8, <1>12, <1>13

\* Or it has a live row the engine's do not reach, and the process dies.
LEMMA CompactSettledKeeps ==
  ASSUME IInv, CompactSettled PROVE IInv'
  <1>1. Types /\ OnePlace /\ Standing /\ FinishedOnce /\ Replies /\ CacheRead /\ PoolOK(pool) /\ RowsRead
    BY DEF IInv
  <1>2. /\ at = "compact" /\ UNCHANGED <<setting, jobs, quit, cur, cache, pool>>
        /\ \/ /\ IF ToSet(Kept(batch)) \subseteq DOMAIN rows
                 THEN /\ batch' = Compacted(batch) /\ rows' = Taken(rows, Kept(batch))
                      /\ at' \in {"admit", "step"}
                 ELSE at' = "panicked" /\ UNCHANGED <<batch, rows>>
              /\ UNCHANGED <<pending, request>>
           \/ Fail /\ at' = "admit" /\ prompt' = prompt
    BY DEF CompactSettled
  <1>3. cur = NoJob /\ pending = <<>>
    BY <1>1, <1>2 DEF Standing
  <1>4. at' \notin {"solo", "join"} /\ at' \in Places
    BY <1>2 DEF Places
  <1>5. CacheRead' /\ PoolOK(pool')
    BY <1>1, <1>2, <1>4, CacheStays
  <1>6. CASE /\ IF ToSet(Kept(batch)) \subseteq DOMAIN rows
                THEN batch' = Compacted(batch) /\ rows' = Taken(rows, Kept(batch)) /\ at' \in {"admit", "step"}
                ELSE at' = "panicked" /\ UNCHANGED <<batch, rows>>
             /\ UNCHANGED <<pending, request>>
    <2>1. OnePlace' /\ RowsRead' /\ rows' \in Seq(Jobs \cup {NoJob})
      <3>1. CASE ToSet(Kept(batch)) \subseteq DOMAIN rows
        BY <1>2, <1>3, <1>6, <3>1, RowsMove
      <3>2. CASE ~(ToSet(Kept(batch)) \subseteq DOMAIN rows)
        <4>1. UNCHANGED <<batch, rows, pending, request>>
          BY <1>6, <3>2
        <4>2. RowsRead'
          BY <1>1, <4>1, RowsStay DEF request
        <4>3. OnePlace' /\ rows' \in Seq(Jobs \cup {NoJob})
          BY <1>1, <1>2, <4>1 DEF Types, OnePlace, InQueue, InRows, request
        <4> QED
          BY <4>2, <4>3
      <3> QED
        BY <3>1, <3>2
    <2>2. Types'
      BY <1>1, <1>2, <1>4, <1>6, <2>1 DEF Types, request
    <2>3. Standing' /\ FinishedOnce'
      BY <1>1, <1>2, <1>3, <1>6 DEF Standing, FinishedOnce, request
    <2>4. Replies'
      BY <1>1, <1>6, RepliesStay DEF request
    <2> QED
      BY <1>5, <2>1, <2>2, <2>3, <2>4 DEF IInv
  <1>7. CASE Fail /\ at' = "admit" /\ prompt' = prompt
    <2>1. rows' = <<>> /\ pending' = <<>> /\ gen' = gen
      BY <1>7 DEF Fail
    <2>2. Ended(Writing) /\ OnePlace' /\ Replies' /\ RowsRead'
      BY <1>2, <1>7, FailIs
    <2>3. Types'
      BY <1>1, <1>2, <1>4, <1>7, <2>1, <2>2 DEF Types, Ended
    <2>4. Standing' /\ FinishedOnce'
      BY <1>2, <1>3, <1>7, <2>2 DEF Standing, Ended
    <2> QED
      BY <1>5, <2>2, <2>3, <2>4 DEF IInv
  <1> QED
    BY <1>2, <1>6, <1>7

-----------------------------------------------------------------------------

\* The three facts.
LEMMA InitIInv == ASSUME Init PROVE IInv
  <1>1. /\ setting \in Settings /\ jobs = <<>>
        /\ stage = [j \in Jobs |-> "new"] /\ prompt = [j \in Jobs |-> CHOOSE p \in Prompts : TRUE]
        /\ gen = [j \in Jobs |-> <<>>] /\ ended = [j \in Jobs |-> 0]
        /\ at = "admit" /\ cur = NoJob /\ cache = NewCache
        /\ batch = EmptyBatch /\ rows = <<>> /\ pending = <<>>
        /\ pool = [e \in 1 .. setting.prefix |->
                     [tokens |-> <<>>, cache |-> NewCache, shared |-> FALSE, lastUse |-> 0]]
    BY DEF Init
  <1>2. (CHOOSE p \in Prompts : TRUE) \in Prompts
    BY PromptsAssumption
  <1>3. Types
    BY <1>1, <1>2 DEF Types, Stages, Places
  <1>4. OnePlace
    BY <1>1, BoundsAssumption DEF OnePlace, InQueue, InRows
  <1>5. Standing /\ FinishedOnce
    BY <1>1 DEF Standing, FinishedOnce
  <1>6. Replies
    <2>1. \A j \in Jobs : gen[j] = <<>>
      BY <1>1
    <2> QED
      BY <2>1 DEF Replies, AsAlone
  <1>7. CacheRead
    BY <1>1, NewCacheHolds DEF CacheRead, Holds
  <1>8. PoolOK(pool)
    <2> DEFINE x == [tokens |-> <<>>, cache |-> NewCache, shared |-> FALSE, lastUse |-> 0]
    <2>1. Entry(x)
      <3> DEFINE c == NewCache
      <3> HIDE DEF c
      <3>1. x.cache = NewCache /\ x.tokens = <<>> /\ DOMAIN x = {"tokens", "cache", "shared", "lastUse"}
        OBVIOUS
      <3> QED
        BY <3>1, NewCacheHolds DEF Entry
    <2> HIDE DEF x
    <2>2. \A e \in DOMAIN pool : pool[e] = x
      BY <1>1 DEF x
    <2> QED
      BY <2>1, <2>2 DEF PoolOK
  <1>9. RowsRead
    <2>1. Active = {} /\ Len(rows) = 0
      BY <1>1 DEF Active
    <2> QED
      BY <1>1, <2>1, EmptyGood DEF RowsRead
  <1> QED
    BY <1>3, <1>4, <1>5, <1>6, <1>7, <1>8, <1>9 DEF IInv

LEMMA IInvInductive == IInv /\ [Next]_vars => IInv'
  <1> SUFFICES ASSUME IInv, [Next]_vars PROVE IInv'
    OBVIOUS
  <1>1. CASE UNCHANGED vars
    <2>1. at' = at /\ cur' = cur /\ quit' = quit /\ setting' = setting /\ jobs' = jobs
          /\ UNCHANGED <<stage, prompt, gen, ended, cache, batch, rows, pending, pool>>
      BY <1>1 DEF vars
    <2>2. Types' /\ OnePlace' /\ Standing' /\ FinishedOnce'
      BY <2>1 DEF IInv, Types, OnePlace, InQueue, InRows, Standing, FinishedOnce
    <2> QED
      BY <2>1, <2>2, TextStays
  <1>2. CASE Run
    BY <1>2, TakeKeeps, ReturnIs, AdmittedKeeps, SettleFirstKeeps, NotReadKeeps, PrefillFailsKeeps,
       PrefillKeeps, SoloEndsKeeps, SoloPassKeeps, SoloFailsKeeps, JoinKeeps, JoinFailsKeeps,
       CompactKeeps, CompactSettledKeeps, StepKeeps, StepFailsKeeps DEF Run
  <1>3. CASE \E j \in Jobs : Submit(j) \/ Refused(j)
    BY <1>3, SubmitKeeps, RefusedKeeps
  <1>4. CASE Close
    BY <1>4, CloseKeeps
  <1> QED
    BY <1>1, <1>2, <1>3, <1>4 DEF Next

LEMMA QuitIs == quit \in BOOLEAN /\ [Next]_vars => quit' \in BOOLEAN
  <1> SUFFICES ASSUME quit \in BOOLEAN, [Next]_vars PROVE quit' \in BOOLEAN
    OBVIOUS
  <1>1. quit' = quit \/ quit' = TRUE
    <2>1. CASE Run
      BY <2>1 DEF Run, Take, Return, Admitted, SettleFirst, NotRead, PrefillFails, Prefill, SoloEnds,
         SoloPass, SoloFails, Join, JoinFails, Compact, CompactSettled, Step, StepFails
    <2>2. CASE \E j \in Jobs : Submit(j) \/ Refused(j)
      BY <2>2 DEF Submit, Refused
    <2>3. CASE Close
      BY <2>3 DEF Close
    <2>4. CASE UNCHANGED vars
      BY <2>4 DEF vars
    <2> QED
      BY <2>1, <2>2, <2>3, <2>4 DEF Next
  <1> QED
    BY <1>1

LEMMA IInvGives == IInv /\ quit \in BOOLEAN => ServedAsAlone
  <1> SUFFICES ASSUME IInv, quit \in BOOLEAN PROVE ServedAsAlone
    OBVIOUS
  <1>1. Types /\ FinishedOnce /\ Replies /\ CacheRead /\ PoolOK(pool) /\ RowsRead
    BY DEF IInv
  <1>2. IsCache(cache) /\ IsBatch(batch)
    BY <1>1, HoldsIs, GoodBatch DEF CacheRead, RowsRead
  <1>3. \A e \in DOMAIN pool : /\ IsCache(pool[e].cache)
                               /\ Keys(pool[e].cache) = pool[e].tokens
                               /\ pool[e].cache.state = pool[e].tokens
    BY <1>1, HoldsIs DEF PoolOK, Entry
  <1>4. TypeOK
    BY <1>1, <1>2, <1>3 DEF TypeOK, Types, Stages, Places, RowsRead
  <1>5. RepliesAsAlone
    BY <1>1 DEF Replies, AsAlone, RepliesAsAlone
  <1>6. EntriesAreText
    BY <1>3 DEF EntriesAreText
  <1> QED
    BY <1>1, <1>4, <1>5, <1>6 DEF ServedAsAlone

\* Every reply is the one the model writes of its prompt alone, token by token, for
\* all interleavings of requests, joins, failures, compactions and steps in flight;
\* every pooled cache has read its entry's tokens; nobody is finished twice
\* (engine.go's step, leave, solo and prefill; batch.go; prefix.go).
THEOREM ReplyAsAlone == Spec => []ServedAsAlone
  <1>1. Init => IInv /\ quit \in BOOLEAN
    BY InitIInv DEF Init
  <1>2. IInv /\ quit \in BOOLEAN /\ [Next]_vars => (IInv /\ quit \in BOOLEAN)'
    BY IInvInductive, QuitIs
  <1>3. IInv /\ quit \in BOOLEAN => ServedAsAlone
    BY IInvGives
  <1> QED
    BY <1>1, <1>2, <1>3, PTL DEF Spec

\* Only Return returns.
LEMMA ReturnedOnlyByReturn ==
  ASSUME [Next]_vars, at' = "returned", at # "returned"
  PROVE  Return
  <1>1. CASE Run
    BY <1>1 DEF Run, Take, Admitted, SettleFirst, NotRead, PrefillFails, Prefill, SoloEnds,
       SoloPass, SoloFails, Join, JoinFails, Compact, CompactSettled, Step, StepFails
  <1>2. CASE \E j \in Jobs : Submit(j) \/ Refused(j)
    BY <1>2 DEF Submit, Refused
  <1>3. CASE Close
    BY <1>3 DEF Close
  <1>4. CASE UNCHANGED vars
    BY <1>4 DEF vars
  <1> QED
    BY <1>1, <1>2, <1>3, <1>4 DEF Next

\* When the goroutine returns, everyone that came and was queued or running has been
\* answered: nobody in the batch, the channel or on the way between is forgotten
\* (engine.go's drain).
THEOREM CloseAnswersAll == Spec => [][CloseFailsAll]_vars
  <1>1. Init => IInv
    BY InitIInv
  <1>2. IInv /\ [Next]_vars => IInv'
    BY IInvInductive
  <1>3. IInv /\ [Next]_vars => [CloseFailsAll]_vars
    <2> SUFFICES ASSUME IInv, [Next]_vars, at' = "returned", at # "returned" PROVE Unanswered' = {}
      BY DEF CloseFailsAll
    <2> QED
      BY ReturnedOnlyByReturn, ReturnIs
  <1> QED
    BY <1>1, <1>2, <1>3, PTL DEF Spec
=============================================================================
