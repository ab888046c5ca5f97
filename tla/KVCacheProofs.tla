--------------------------- MODULE KVCacheProofs ---------------------------
(***************************************************************************)
(* What holds of KVCache for every vocabulary, every number of slots and   *)
(* pool entries and every prompt: the cells of a reply are its own text,   *)
(* those of a pool entry the prompt it is said to hold, those of nobody    *)
(* are gone; the head holds what the model does wherever it is believed    *)
(* to; and an exact pool keeps its system prompts.                         *)
(*                                                                         *)
(* The text alone is not inductive.  A prompt is pooled from the cells it  *)
(* was read to, so the place it is pooled at has to be the place reached;  *)
(* a batch ends at the next checkpoint, so checkpoints have to ascend; a   *)
(* reply moves between sequences, so no two slots may name one; and the    *)
(* least recently used entry is looked for among those on record, so every *)
(* entry that holds something has to be on it.                             *)
(***************************************************************************)
EXTENDS KVCache, FiniteSetTheorems, SequenceTheorems, WellFoundedInduction, TLAPS

----------------------------------------------------------------------------
(* Numbers and beginnings of sequences.                                    *)

\* Of some numbers there is a first.
LEMMA FirstIs ==
    ASSUME NEW S, S \subseteq Nat, S # {}
    PROVE  First(S) \in S /\ \A m \in S : First(S) <= m
  <1> DEFINE R == OpToRel(<, Nat)
  <1>1. PICK n \in S : \A m \in S : ~ (<<m, n>> \in R)
    <2>1. IsWellFoundedOn(R, Nat)
      BY NatLessThanWellFounded
    <2> HIDE DEF R
    <2> QED
      BY <2>1, WFMin
  <1>2. \A m \in S : n <= m
    <2> SUFFICES ASSUME NEW m \in S PROVE n <= m
      OBVIOUS
    <2>1. m \in Nat /\ n \in Nat
      OBVIOUS
    <2>2. ~(m < n)
      <3>1. <<m, n>> \in Nat \X Nat /\ <<m, n>>[1] = m /\ <<m, n>>[2] = n
        BY <2>1
      <3>2. <<m, n>> \notin {ss \in Nat \X Nat : ss[1] < ss[2]}
        BY <1>1 DEF OpToRel
      <3> QED
        BY <3>1, <3>2
    <2> QED
      BY <2>1, <2>2
  <1> QED
    BY <1>2 DEF First

\* Of numbers with a bound there is a last.
LEMMA LargestIs ==
    ASSUME NEW k \in Nat, NEW S, S \subseteq 0 .. k, S # {}
    PROVE  Largest(S) \in S /\ \A m \in S : m <= Largest(S)
  <1> DEFINE D == {k - n : n \in S}
  <1>1. D \subseteq Nat /\ D # {}
    OBVIOUS
  <1>2. First(D) \in D /\ \A d \in D : First(D) <= d
    <2> HIDE DEF D
    <2> QED
      BY <1>1, FirstIs
  <1>3. PICK n \in S : First(D) = k - n
    BY <1>2
  <1>4. \A m \in S : m <= n
    <2> SUFFICES ASSUME NEW m \in S PROVE m <= n
      OBVIOUS
    <2>1. k - n <= k - m
      BY <1>2, <1>3
    <2>2. m \in Nat /\ n \in Nat
      OBVIOUS
    <2> QED
      BY <2>1, <2>2
  <1> QED
    BY <1>4 DEF Largest

LEMMA UptoIs ==
    ASSUME NEW T, NEW q \in Seq(T), NEW n \in Nat
    PROVE  /\ Upto(q, n) \in Seq(T)
           /\ Len(Upto(q, n)) = IF n <= Len(q) THEN n ELSE Len(q)
           /\ \A k \in 1 .. Len(Upto(q, n)) : Upto(q, n)[k] = q[k]
  <1> DEFINE m == Smaller(n, Len(q))
  <1>1. Len(q) \in Nat /\ m \in Nat /\ m <= Len(q) /\ m = (IF n <= Len(q) THEN n ELSE Len(q))
    BY LenProperties DEF Smaller
  <1> HIDE DEF m
  <1>2. \A k \in 1 .. m : q[k] \in T
    BY <1>1, ElementOfSeq
  <1>3. /\ SubSeq(q, 1, m) \in Seq(T)
        /\ Len(SubSeq(q, 1, m)) = IF 1 <= m THEN m - 1 + 1 ELSE 0
        /\ \A k \in 1 .. m - 1 + 1 : SubSeq(q, 1, m)[k] = q[1 + k - 1]
    BY <1>1, <1>2, SubSeqProperties
  <1>4. Upto(q, n) = SubSeq(q, 1, m)
    BY DEF Upto, m
  <1> QED
    BY <1>1, <1>3, <1>4

LEMMA UptoAll ==
    ASSUME NEW T, NEW q \in Seq(T), NEW n \in Nat, Len(q) <= n
    PROVE  Upto(q, n) = q
  <1>1. Len(q) \in Nat
    BY LenProperties
  <1>2. Smaller(n, Len(q)) = Len(q)
    BY <1>1 DEF Smaller
  <1> QED
    BY <1>2, SubSeqFull DEF Upto

LEMMA UptoNone ==
    ASSUME NEW T, NEW q \in Seq(T)
    PROVE  Upto(q, 0) = <<>>
  <1>1. Len(Upto(q, 0)) = 0 /\ Upto(q, 0) \in Seq(T)
    BY UptoIs, LenProperties
  <1> QED
    BY <1>1, EmptySeq

\* A beginning of a text stays one when the text goes on.
LEMMA UptoLonger ==
    ASSUME NEW T, NEW q \in Seq(T), NEW r \in Seq(T), NEW n \in Nat, n <= Len(q)
    PROVE  Upto(q \o r, n) = Upto(q, n)
  <1>1. /\ q \o r \in Seq(T) /\ Len(q \o r) = Len(q) + Len(r)
        /\ \A k \in 1 .. Len(q) + Len(r) : (q \o r)[k] = IF k <= Len(q) THEN q[k] ELSE r[k - Len(q)]
    BY ConcatProperties
  <1>2. Len(q) \in Nat /\ Len(r) \in Nat
    BY LenProperties
  <1>3. /\ Upto(q \o r, n) \in Seq(T) /\ Len(Upto(q \o r, n)) = n
        /\ \A k \in 1 .. n : Upto(q \o r, n)[k] = (q \o r)[k]
    <2> DEFINE w == q \o r
    <2>1. w \in Seq(T) /\ Len(w) = Len(q) + Len(r)
      BY <1>1
    <2> HIDE DEF w
    <2>2. /\ Upto(w, n) \in Seq(T) /\ Len(Upto(w, n)) = n
          /\ \A k \in 1 .. n : Upto(w, n)[k] = w[k]
      BY <1>2, <2>1, UptoIs
    <2> QED
      BY <2>2 DEF w
  <1>4. /\ Upto(q, n) \in Seq(T) /\ Len(Upto(q, n)) = n
        /\ \A k \in 1 .. n : Upto(q, n)[k] = q[k]
    BY <1>2, UptoIs
  <1>5. \A k \in 1 .. n : (q \o r)[k] = q[k]
    BY <1>1, <1>2
  <1> HIDE DEF Upto
  <1> QED
    BY <1>3, <1>4, <1>5, SeqEqual

LEMMA UptoUpto ==
    ASSUME NEW T, NEW q \in Seq(T), NEW n \in Nat, NEW m \in Nat, m <= n
    PROVE  Upto(Upto(q, n), m) = Upto(q, m)
  <1>1. /\ Upto(q, n) \in Seq(T) /\ Len(q) \in Nat
        /\ Len(Upto(q, n)) = IF n <= Len(q) THEN n ELSE Len(q)
        /\ \A k \in 1 .. Len(Upto(q, n)) : Upto(q, n)[k] = q[k]
    BY UptoIs, LenProperties
  <1>2. /\ Upto(Upto(q, n), m) \in Seq(T)
        /\ Len(Upto(Upto(q, n), m)) = IF m <= Len(Upto(q, n)) THEN m ELSE Len(Upto(q, n))
        /\ \A k \in 1 .. Len(Upto(Upto(q, n), m)) : Upto(Upto(q, n), m)[k] = Upto(q, n)[k]
    BY <1>1, UptoIs
  <1>3. /\ Upto(q, m) \in Seq(T)
        /\ Len(Upto(q, m)) = IF m <= Len(q) THEN m ELSE Len(q)
        /\ \A k \in 1 .. Len(Upto(q, m)) : Upto(q, m)[k] = q[k]
    BY UptoIs
  <1>4. Len(Upto(Upto(q, n), m)) = Len(Upto(q, m))
    BY <1>1, <1>2, <1>3
  <1>5. \A k \in 1 .. Len(Upto(q, m)) : k \in 1 .. Len(Upto(q, n))
    BY <1>1, <1>3
  <1> QED
    BY <1>1, <1>2, <1>3, <1>4, <1>5, SeqEqual

\* What is read next goes on where what was read ended.
LEMMA UptoPiece ==
    ASSUME NEW T, NEW q \in Seq(T), NEW n \in Nat, NEW m \in Nat, n + m <= Len(q)
    PROVE  /\ Upto(q, n) \o SubSeq(q, n + 1, n + m) = Upto(q, n + m)
           /\ SubSeq(q, n + 1, n + m) \in Seq(T) /\ Len(SubSeq(q, n + 1, n + m)) = m
  <1>1. Len(q) \in Nat
    BY LenProperties
  <1>2. Upto(q, n) = SubSeq(q, 1, n) /\ Upto(q, n + m) = SubSeq(q, 1, n + m)
    BY <1>1 DEF Upto, Smaller
  <1>3. SubSeq(q, 1, n) \o SubSeq(q, n + 1, n + m) = SubSeq(q, 1, n + m)
    <2>1. 1 \in 1 .. Len(q) + 1 /\ n \in 1 - 1 .. Len(q) /\ n + m \in n .. Len(q)
      BY <1>1
    <2> QED
      BY <2>1, ConcatAdjacentSubSeq
  <1>4. \A k \in n + 1 .. n + m : q[k] \in T
    BY <1>1, ElementOfSeq
  <1>5. /\ SubSeq(q, n + 1, n + m) \in Seq(T)
        /\ Len(SubSeq(q, n + 1, n + m)) = IF n + 1 <= n + m THEN (n + m) - (n + 1) + 1 ELSE 0
    BY <1>4, SubSeqProperties
  <1> QED
    BY <1>2, <1>3, <1>5

\* A beginning that is a whole text and part of what follows it.
LEMMA UptoOver ==
    ASSUME NEW T, NEW q \in Seq(T), NEW r \in Seq(T), NEW m \in Nat
    PROVE  Upto(q \o r, Len(q) + m) = q \o Upto(r, m)
  <1>1. /\ q \o r \in Seq(T) /\ Len(q \o r) = Len(q) + Len(r)
        /\ \A k \in 1 .. Len(q) + Len(r) : (q \o r)[k] = IF k <= Len(q) THEN q[k] ELSE r[k - Len(q)]
    BY ConcatProperties
  <1>2. Len(q) \in Nat /\ Len(r) \in Nat
    BY LenProperties
  <1>3. /\ Upto(q \o r, Len(q) + m) \in Seq(T)
        /\ Len(Upto(q \o r, Len(q) + m)) = IF m <= Len(r) THEN Len(q) + m ELSE Len(q) + Len(r)
        /\ \A k \in 1 .. Len(Upto(q \o r, Len(q) + m)) : Upto(q \o r, Len(q) + m)[k] = (q \o r)[k]
    <2> DEFINE w == q \o r
               n == Len(q) + m
    <2>1. w \in Seq(T) /\ Len(w) = Len(q) + Len(r) /\ n \in Nat
      BY <1>1, <1>2
    <2>2. n <= Len(q) + Len(r) <=> m <= Len(r)
      BY <1>2
    <2> HIDE DEF w, n
    <2>3. /\ Upto(w, n) \in Seq(T)
          /\ Len(Upto(w, n)) = IF n <= Len(w) THEN n ELSE Len(w)
          /\ \A k \in 1 .. Len(Upto(w, n)) : Upto(w, n)[k] = w[k]
      BY <2>1, UptoIs
    <2> QED
      BY <2>1, <2>2, <2>3 DEF w, n
  <1>4. /\ Upto(r, m) \in Seq(T) /\ Len(Upto(r, m)) = IF m <= Len(r) THEN m ELSE Len(r)
        /\ \A k \in 1 .. Len(Upto(r, m)) : Upto(r, m)[k] = r[k]
    BY UptoIs
  <1>5. /\ q \o Upto(r, m) \in Seq(T) /\ Len(q \o Upto(r, m)) = Len(q) + Len(Upto(r, m))
        /\ \A k \in 1 .. Len(q) + Len(Upto(r, m)) :
              (q \o Upto(r, m))[k] = IF k <= Len(q) THEN q[k] ELSE Upto(r, m)[k - Len(q)]
    BY <1>4, ConcatProperties
  <1>6. Len(Upto(q \o r, Len(q) + m)) = Len(q \o Upto(r, m))
    BY <1>2, <1>3, <1>4, <1>5
  <1>7. \A k \in 1 .. Len(Upto(q \o r, Len(q) + m)) : Upto(q \o r, Len(q) + m)[k] = (q \o Upto(r, m))[k]
    <2> SUFFICES ASSUME NEW k \in 1 .. Len(Upto(q \o r, Len(q) + m))
                 PROVE  Upto(q \o r, Len(q) + m)[k] = (q \o Upto(r, m))[k]
      OBVIOUS
    <2>1. k \in 1 .. Len(q) + Len(r) /\ k \in 1 .. Len(q) + Len(Upto(r, m))
      BY <1>2, <1>3, <1>4, <1>5
    <2>2. Upto(q \o r, Len(q) + m)[k] = (q \o r)[k]
      BY <1>3
    <2>3. CASE k <= Len(q)
      BY <1>1, <1>5, <2>1, <2>2, <2>3
    <2>4. CASE ~(k <= Len(q))
      <3>1. k - Len(q) \in 1 .. Len(Upto(r, m))
        BY <1>2, <1>4, <2>1, <2>4
      <3>2. Upto(r, m)[k - Len(q)] = r[k - Len(q)]
        BY <1>4, <3>1
      <3> QED
        BY <1>1, <1>5, <2>1, <2>2, <2>4, <3>2
    <2> QED
      BY <2>3, <2>4
  <1> QED
    BY <1>3, <1>5, <1>6, <1>7, SeqEqual

\* How much two texts have in common.
LEMMA CommonIs ==
    ASSUME NEW T, NEW a \in Seq(T), NEW b \in Seq(T)
    PROVE  /\ CommonPrefix(a, b) \in Nat
           /\ CommonPrefix(a, b) <= Len(a) /\ CommonPrefix(a, b) <= Len(b)
           /\ Upto(a, CommonPrefix(a, b)) = Upto(b, CommonPrefix(a, b))
  <1> DEFINE k == Smaller(Len(a), Len(b))
             S == {n \in 0 .. k : Upto(a, n) = Upto(b, n)}
  <1>1. Len(a) \in Nat /\ Len(b) \in Nat /\ k \in Nat /\ k <= Len(a) /\ k <= Len(b)
    BY LenProperties DEF Smaller
  <1>2. 0 \in S
    BY <1>1, UptoNone
  <1>3. Largest(S) \in S
    <2>1. S \subseteq 0 .. k /\ S # {}
      BY <1>2
    <2> HIDE DEF S, k
    <2> QED
      BY <1>1, <2>1, LargestIs
  <1>4. CommonPrefix(a, b) = Largest(S)
    BY DEF CommonPrefix
  <1> HIDE DEF k
  <1> QED
    BY <1>1, <1>3, <1>4

LEMMA Together == \A a, b, c \in Seq(Tokens) : a \o (b \o c) = (a \o b) \o c
  BY SMTT(30), ConcatAssociative

----------------------------------------------------------------------------
(* The inductive invariant.                                                *)

Point == [pos : Nat, shared : BOOLEAN]
SlotType ==
    [seq : Slots, job : BOOLEAN, prompt : Seq(Tokens), reply : Seq(Tokens), past : 0 .. PerSeq,
     maxGen : Nat, points : Seq(Point), publish : Seq(Point), drafts : Seq(Tokens),
     logits : BOOLEAN]
Held == [cells : Seq(Tokens), head : Seq(Tokens), upTo : 0 .. PerSeq, tracked : BOOLEAN]
Known == [tokens : Seq(Tokens), shared : BOOLEAN]

Typed ==
    /\ load \in Loads
    /\ cache \in [Seqs -> Held]
    /\ slot \in [Slots -> SlotType]
    /\ entry \in [Entries -> Known]
    /\ recent \in Seq(Entries) /\ phase \in {"admit", "compact", "step"}

Text(sl) == (sl.prompt \o sl.reply) \o sl.drafts

\* Checkpoints are within the prompt, ahead of what was read, and ascend.
Ahead(points, past, end) ==
    /\ \A k \in DOMAIN points : points[k].pos > past /\ points[k].pos <= end
    /\ \A k \in DOMAIN points : \A l \in DOMAIN points : k < l => points[k].pos < points[l].pos

\* Where a reply stands.
Stands(sl) ==
    /\ Len(sl.prompt) <= PerSeq
    /\ sl.logits => sl.past = Len(Text(sl))
    /\ ~sl.logits =>
        /\ sl.drafts = <<>> /\ sl.past < PerSeq
        /\ sl.reply = <<>> => sl.past < Len(sl.prompt)
        /\ sl.reply # <<>> => sl.past = Len(Text(sl)) - 1
    /\ sl.reply # <<>> => Len(sl.reply) < sl.maxGen
    /\ sl.drafts # <<>> => Len(sl.reply) + Len(sl.drafts) < sl.maxGen
    /\ Ahead(sl.points, sl.past, Len(sl.prompt))
    /\ sl.publish # <<>> =>
        sl.publish[1].pos = sl.past /\ sl.past <= Len(sl.prompt)

Sound(sl, q) ==
    /\ sl.job => Stands(sl) /\ q.cells = Upto(Text(sl), sl.past)
    /\ ~sl.job => q = Blank
Pooled(en, q) == q.cells = en.tokens /\ (en.shared => en.tokens # <<>>)
Follows(q) == Drafting /\ q.tracked => q.head = q.cells /\ q.upTo = Len(q.cells)

SlotsSound == \A i \in Slots : Sound(slot[i], cache[slot[i].seq])
EntriesSound == \A e \in Entries : Pooled(entry[e], cache[SeqOf(e)])
HeadsSound == \A s \in Seqs : Follows(cache[s])
Apart == \A i, j \in Slots : slot[i].seq = slot[j].seq => i = j
OnRecord == \A e \in Filled : \E k \in DOMAIN recent : recent[k] = e
Quiet == phase # "admit" => Pending = {}

IInv ==
    /\ Typed /\ SlotsSound /\ EntriesSound /\ HeadsSound
    /\ Apart /\ OnRecord /\ Quiet

----------------------------------------------------------------------------
(* The sequences a model has.                                              *)

LEMMA LoadIs ==
    ASSUME load \in Loads
    PROVE  /\ load.slots \in Nat \ {0} /\ load.entries \in Nat /\ load.exact \in BOOLEAN
           /\ load.drafts \in Nat /\ \A p \in load.prompts : IsPrompt(p)
           /\ Slots \subseteq Nat /\ Slots \subseteq Seqs
           /\ \A e \in Entries : SeqOf(e) \in Seqs /\ SeqOf(e) \notin Slots
           /\ \A e, f \in Entries : SeqOf(e) = SeqOf(f) => e = f
  <1>1. /\ load.slots \in Nat \ {0} /\ load.entries \in Nat /\ load.exact \in BOOLEAN
        /\ load.drafts \in Nat /\ \A p \in load.prompts : IsPrompt(p)
    BY LoadsAssumption
  <1>2. Slots \subseteq Nat /\ Slots \subseteq Seqs
    BY <1>1 DEF Slots, Seqs
  <1>3. \A e \in Entries : SeqOf(e) \in Seqs /\ SeqOf(e) \notin Slots
    BY <1>1 DEF Slots, Entries, Seqs, SeqOf
  <1>4. \A e, f \in Entries : SeqOf(e) = SeqOf(f) => e = f
    BY <1>1 DEF Entries, SeqOf
  <1> QED
    BY <1>1, <1>2, <1>3, <1>4

LEMMA SameLoad ==
    ASSUME load' = load
    PROVE  /\ Slots' = Slots /\ Entries' = Entries /\ Seqs' = Seqs /\ Drafting' = Drafting
           /\ SlotType' = SlotType /\ WholeOnly' = WholeOnly
           /\ \A e : SeqOf(e)' = SeqOf(e)
  BY DEF Slots, Entries, Seqs, Drafting, SlotType, WholeOnly, SeqOf

LEMMA BlankIs ==
    Blank \in Held /\ Blank.cells = <<>> /\ Blank.head = <<>> /\ Follows(Blank)
  <1>1. 0 \in 0 .. PerSeq
    BY BoundsAssumption
  <1>2. <<>> \in Seq(Tokens) /\ Len(<<>>) = 0
    BY EmptySeq
  <1> QED
    BY <1>1, <1>2 DEF Blank, Held, Follows

LEMMA FreeIs ==
    ASSUME NEW s \in Slots
    PROVE  Free(s) \in SlotType /\ ~Free(s).job /\ Free(s).seq = s
  <1>1. 0 \in 0 .. PerSeq
    BY BoundsAssumption
  <1>2. <<>> \in Seq(Tokens) /\ <<>> \in Seq(Point)
    BY EmptySeq
  <1> QED
    BY <1>1, <1>2 DEF Free, SlotType

LEMMA SlotIs ==
    ASSUME Typed, NEW i \in Slots
    PROVE  /\ slot[i] \in SlotType /\ slot[i].seq \in Slots /\ slot[i].seq \in Seqs
           /\ slot[i].job \in BOOLEAN /\ slot[i].prompt \in Seq(Tokens)
           /\ slot[i].reply \in Seq(Tokens) /\ slot[i].drafts \in Seq(Tokens)
           /\ slot[i].past \in Nat /\ slot[i].past <= PerSeq /\ slot[i].maxGen \in Nat
           /\ slot[i].points \in Seq(Point) /\ slot[i].publish \in Seq(Point)
           /\ slot[i].logits \in BOOLEAN
           /\ Len(slot[i].prompt) \in Nat /\ Len(slot[i].reply) \in Nat /\ Len(slot[i].drafts) \in Nat
  <1>1. slot[i] \in SlotType
    BY DEF Typed
  <1>2. /\ slot[i].seq \in Slots
        /\ slot[i].job \in BOOLEAN /\ slot[i].prompt \in Seq(Tokens)
        /\ slot[i].reply \in Seq(Tokens) /\ slot[i].drafts \in Seq(Tokens)
        /\ slot[i].past \in 0 .. PerSeq /\ slot[i].maxGen \in Nat
        /\ slot[i].points \in Seq(Point) /\ slot[i].publish \in Seq(Point)
        /\ slot[i].logits \in BOOLEAN
    BY <1>1 DEF SlotType
  <1>3. slot[i].seq \in Seqs
    BY <1>2, LoadIs DEF Typed
  <1>4. slot[i].past \in Nat /\ slot[i].past <= PerSeq
    BY <1>2, BoundsAssumption
  <1> QED
    BY <1>1, <1>2, <1>3, <1>4, LenProperties

LEMMA CacheIs ==
    ASSUME NEW q \in Held
    PROVE  /\ q.cells \in Seq(Tokens) /\ q.head \in Seq(Tokens)
           /\ q.upTo \in 0 .. PerSeq /\ q.tracked \in BOOLEAN
           /\ Len(q.cells) \in Nat /\ Len(q.head) \in Nat
  BY LenProperties DEF Held

LEMMA EntryIs ==
    ASSUME Typed, NEW e \in Entries
    PROVE  /\ entry[e].tokens \in Seq(Tokens) /\ entry[e].shared \in BOOLEAN
           /\ Len(entry[e].tokens) \in Nat
  <1>1. entry[e] \in Known
    BY DEF Typed
  <1> QED
    BY <1>1, LenProperties DEF Known

\* What a reply's text is.
LEMMA TextIs ==
    ASSUME Typed, NEW i \in Slots
    PROVE  /\ Written(i) \in Seq(Tokens) /\ Text(slot[i]) = Written(i) \o slot[i].drafts
           /\ Text(slot[i]) \in Seq(Tokens)
           /\ Len(Written(i)) = Len(slot[i].prompt) + Len(slot[i].reply)
           /\ Len(Text(slot[i])) = Len(slot[i].prompt) + Len(slot[i].reply) + Len(slot[i].drafts)
  <1>1. Written(i) \in Seq(Tokens) /\ Len(Written(i)) = Len(slot[i].prompt) + Len(slot[i].reply)
    BY SlotIs, ConcatProperties DEF Written
  <1>2. Text(slot[i]) = Written(i) \o slot[i].drafts
    BY DEF Text, Written
  <1>3. /\ Written(i) \o slot[i].drafts \in Seq(Tokens)
        /\ Len(Written(i) \o slot[i].drafts) = Len(Written(i)) + Len(slot[i].drafts)
    BY ZenonT(30), <1>1, SlotIs, ConcatProperties
  <1> QED
    BY <1>1, <1>2, <1>3

----------------------------------------------------------------------------
(* The caches.                                                             *)

\* What a share gives: the first n cells, and the head as far as it followed.
LEMMA ShareIs ==
    ASSUME load \in Loads, NEW c \in [Seqs -> Held], NEW src \in Seqs, NEW dst \in Seqs,
           src # dst, c[dst] = Blank,
           NEW n \in 0 .. PerSeq, n <= Len(c[src].cells), load.exact => n = Len(c[src].cells)
    PROVE  /\ Share(c, src, dst, n) \in [Seqs -> Held]
           /\ Share(c, src, dst, n)[dst].cells = Upto(c[src].cells, n)
           /\ Follows(c[src]) => Follows(Share(c, src, dst, n)[dst])
           /\ \A s \in Seqs : s # dst => Share(c, src, dst, n)[s] = c[s]
  <1> DEFINE q == c[src]
             new == [cells |-> c[dst].cells \o CopyBounds(q.cells, n),
                     head |-> c[dst].head \o CopyBounds(q.head, n),
                     upTo |-> n, tracked |-> q.tracked]
  <1>1. q \in Held /\ n \in Nat
    BY BoundsAssumption
  <1>2. /\ q.cells \in Seq(Tokens) /\ q.head \in Seq(Tokens) /\ q.tracked \in BOOLEAN
        /\ Len(q.cells) \in Nat
    BY <1>1, CacheIs
  <1>3. /\ Upto(q.cells, n) \in Seq(Tokens) /\ Len(Upto(q.cells, n)) = n
        /\ Upto(q.head, n) \in Seq(Tokens)
    BY <1>1, <1>2, UptoIs
  <1>4. CopyBounds(q.cells, n) = Upto(q.cells, n)
    BY <1>1, <1>2, UptoAll DEF CopyBounds
  <1>5. CopyBounds(q.head, n) \in Seq(Tokens)
    BY <1>2, <1>3 DEF CopyBounds
  <1>6. new.cells = Upto(q.cells, n) /\ new.head = CopyBounds(q.head, n)
    <2>1. c[dst].cells = <<>> /\ c[dst].head = <<>>
      BY BlankIs
    <2> QED
      BY <1>3, <1>4, <1>5, <2>1, ConcatEmptySeq
  <1>7. new.upTo = n /\ new.tracked = q.tracked
    OBVIOUS
  <1>8. new \in Held
    <2>1. /\ new.cells \in Seq(Tokens) /\ new.head \in Seq(Tokens)
          /\ new.upTo \in 0 .. PerSeq /\ new.tracked \in BOOLEAN
      BY <1>2, <1>3, <1>5, <1>6, <1>7
    <2>2. new = [cells |-> new.cells, head |-> new.head, upTo |-> new.upTo, tracked |-> new.tracked]
      OBVIOUS
    <2> HIDE DEF new
    <2> QED
      BY <2>1, <2>2 DEF Held
  <1>9. Share(c, src, dst, n) = [c EXCEPT ![dst] = new]
    BY DEF Share
  <1> HIDE DEF new
  <1>10. Follows(q) => Follows(new)
    BY <1>3, <1>4, <1>6, <1>7 DEF Follows
  <1> QED
    BY <1>6, <1>8, <1>9, <1>10

\* The same of a sequence given up first.
LEMMA ForgetIs ==
    ASSUME NEW c \in [Seqs -> Held], NEW s \in Seqs
    PROVE  /\ Forget(c, s) \in [Seqs -> Held] /\ Forget(c, s)[s] = Blank
           /\ \A o \in Seqs : o # s => Forget(c, s)[o] = c[o]
  BY BlankIs DEF Forget

\* Going back: the head, when it may, and the model.
LEMMA SettleIs ==
    ASSUME NEW c \in [Seqs -> Held], NEW s \in Seqs, NEW n \in 0 .. PerSeq, NEW may
    PROVE  /\ Settle(c, s, n, may) \in [Seqs -> Held]
           /\ Settle(c, s, n, may)[s].cells = c[s].cells
           /\ Drafting /\ Settle(c, s, n, may)[s].tracked =>
                /\ c[s].tracked
                /\ Settle(c, s, n, may)[s].head = Upto(c[s].head, n)
                /\ Settle(c, s, n, may)[s].upTo = n
           /\ \A o \in Seqs : o # s => Settle(c, s, n, may)[o] = c[o]
  <1>1. n \in Nat /\ Upto(c[s].head, n) \in Seq(Tokens)
    BY BoundsAssumption, CacheIs, UptoIs
  <1> QED
    BY <1>1 DEF Settle, Held

LEMMA TrimIs ==
    ASSUME NEW c \in [Seqs -> Held], NEW s \in Seqs, NEW n \in Nat
    PROVE  /\ Trim(c, s, n) \in [Seqs -> Held]
           /\ Trim(c, s, n)[s].cells = Upto(c[s].cells, n)
           /\ Trim(c, s, n)[s].head = c[s].head
           /\ Trim(c, s, n)[s].upTo = c[s].upTo
           /\ Trim(c, s, n)[s].tracked = c[s].tracked
           /\ \A o \in Seqs : o # s => Trim(c, s, n)[o] = c[o]
  <1>1. Upto(c[s].cells, n) \in Seq(Tokens)
    BY CacheIs, UptoIs
  <1> QED
    BY <1>1 DEF Trim, Held

\* Sequences given up, those of slots of S.
LEMMA ReleasedIs ==
    ASSUME Typed, NEW S \in SUBSET Slots, Released(S)
    PROVE  /\ cache' \in [Seqs -> Held]
           /\ slot' \in [Slots -> SlotType]
           /\ \A i \in S : slot'[i] = Free(slot[i].seq) /\ cache'[slot[i].seq] = Blank
           /\ \A i \in Slots \ S : slot'[i] = slot[i]
           /\ \A s \in Seqs : (\A i \in S : slot[i].seq # s) => cache'[s] = cache[s]
           /\ \A s \in Seqs : cache'[s] \in {cache[s], Blank}
  <1>1. cache \in [Seqs -> Held] /\ load \in Loads
    BY DEF Typed
  <1>2. \A s \in Seqs : Forget(cache, s)[s] = Blank
    BY <1>1, ForgetIs
  <1>3. /\ cache' = [s \in Seqs |-> IF \E i \in S : slot[i].seq = s THEN Forget(cache, s)[s] ELSE cache[s]]
        /\ slot' = [i \in Slots |-> IF i \in S THEN Free(slot[i].seq) ELSE slot[i]]
    BY DEF Released
  <1>4. \A s \in Seqs : cache'[s] = IF \E i \in S : slot[i].seq = s THEN Blank ELSE cache[s]
    BY <1>2, <1>3
  <1>5. cache' \in [Seqs -> Held]
    <2>1. cache' = [s \in Seqs |-> cache'[s]]
      BY <1>3
    <2>2. \A s \in Seqs : cache'[s] \in Held
      BY <1>1, <1>4, BlankIs
    <2> QED
      BY <2>1, <2>2
  <1>6. \A i \in Slots : slot'[i] = IF i \in S THEN Free(slot[i].seq) ELSE slot[i]
    BY <1>3
  <1>7. slot' \in [Slots -> SlotType]
    <2>1. slot' = [i \in Slots |-> slot'[i]]
      BY <1>3
    <2>2. \A i \in Slots : slot'[i] \in SlotType
      BY <1>6, SlotIs, FreeIs
    <2> QED
      BY <2>1, <2>2
  <1>8. \A i \in S : slot[i].seq \in Seqs
    BY SlotIs
  <1> QED
    BY <1>4, <1>5, <1>6, <1>7, <1>8

----------------------------------------------------------------------------
(* What a step has to keep.                                                *)

LEMMA SoundNow ==
    ASSUME load' = load, \A i \in Slots : Sound(slot'[i], cache'[slot'[i].seq])
    PROVE  SlotsSound'
  BY SameLoad DEF SlotsSound

LEMMA FollowsNow ==
    ASSUME load' = load, \A s \in Seqs : Follows(cache'[s])
    PROVE  HeadsSound'
  BY DEF HeadsSound, Follows, Drafting, Seqs

LEMMA PooledNow ==
    ASSUME load' = load, \A e \in Entries : Pooled(entry'[e], cache'[SeqOf(e)])
    PROVE  EntriesSound'
  BY DEF EntriesSound, Entries, SeqOf

LEMMA TypedNow ==
    ASSUME load' = load, load \in Loads, cache' \in [Seqs -> Held], slot' \in [Slots -> SlotType],
           entry' \in [Entries -> Known], recent' \in Seq(Entries),
           phase' \in {"admit", "compact", "step"}
    PROVE  Typed'
  <1>1. /\ Slots' = Slots /\ Entries' = Entries /\ Seqs' = Seqs /\ SlotType' = SlotType
        /\ Held' = Held /\ Known' = Known
    BY SameLoad
  <1> QED
    BY <1>1 DEF Typed

\* The pool is left alone.
LEMMA PoolStays ==
    ASSUME IInv, load' = load, UNCHANGED pool, \A e \in Entries : cache'[SeqOf(e)] = cache[SeqOf(e)]
    PROVE  EntriesSound' /\ OnRecord'
  <1>1. entry' = entry /\ recent' = recent
    BY DEF pool
  <1>2. EntriesSound'
    BY <1>1, PooledNow DEF IInv, EntriesSound
  <1>3. OnRecord'
    BY <1>1, SameLoad DEF IInv, OnRecord, Filled, Entries
  <1> QED
    BY <1>2, <1>3

\* One slot goes on, its sequence and no other slot's with it.
LEMMA SlotGoesOn ==
    ASSUME IInv, load' = load, NEW i \in Slots, NEW sl \in SlotType, sl.seq = slot[i].seq,
           slot' = [slot EXCEPT ![i] = sl],
           Sound(sl, cache'[sl.seq]),
           \A s \in Slots : s # sl.seq => cache'[s] = cache[s]
    PROVE  slot' \in [Slots -> SlotType] /\ SlotsSound' /\ Apart'
  <1>1. slot \in [Slots -> SlotType] /\ Typed
    BY DEF IInv, Typed
  <1>2. slot' \in [Slots -> SlotType]
    BY <1>1
  <1>3. \A j \in Slots : slot'[j] = IF j = i THEN sl ELSE slot[j]
    BY <1>1
  <1>4. \A j \in Slots : slot'[j].seq = slot[j].seq
    BY <1>3
  <1>5. SlotsSound'
    <2> SUFFICES ASSUME NEW j \in Slots PROVE Sound(slot'[j], cache'[slot'[j].seq])
      BY SoundNow
    <2>1. CASE j = i
      BY <2>1, <1>3
    <2>2. CASE j # i
      <3>1. slot[j].seq # sl.seq /\ slot[j].seq \in Slots
        BY <1>1, <2>2, SlotIs DEF IInv, Apart
      <3>2. cache'[slot[j].seq] = cache[slot[j].seq] /\ slot'[j] = slot[j]
        BY <3>1, <1>3, <2>2
      <3> QED
        BY <3>2 DEF IInv, SlotsSound
    <2> QED
      BY <2>1, <2>2
  <1>6. Apart'
    BY <1>4, SameLoad DEF IInv, Apart
  <1> QED
    BY <1>2, <1>5, <1>6

\* Slots are given up.
LEMMA SlotsEnd ==
    ASSUME IInv, load' = load, NEW S \in SUBSET Slots, Released(S), UNCHANGED <<pool, phase>>
    PROVE  IInv'
  <1>1. Typed /\ Apart /\ HeadsSound
    BY DEF IInv
  <1>2. /\ cache' \in [Seqs -> Held] /\ slot' \in [Slots -> SlotType]
        /\ \A i \in S : slot'[i] = Free(slot[i].seq) /\ cache'[slot[i].seq] = Blank
        /\ \A i \in Slots \ S : slot'[i] = slot[i]
        /\ \A s \in Seqs : (\A i \in S : slot[i].seq # s) => cache'[s] = cache[s]
        /\ \A s \in Seqs : cache'[s] \in {cache[s], Blank}
    BY <1>1, ReleasedIs
  <1>3. Typed'
    BY <1>1, <1>2, TypedNow DEF Typed, pool
  <1>4. \A e \in Entries : cache'[SeqOf(e)] = cache[SeqOf(e)]
    <2> SUFFICES ASSUME NEW e \in Entries PROVE cache'[SeqOf(e)] = cache[SeqOf(e)]
      OBVIOUS
    <2>1. SeqOf(e) \in Seqs /\ SeqOf(e) \notin Slots
      BY <1>1, LoadIs DEF Typed
    <2> QED
      BY <1>1, <1>2, <2>1, SlotIs
  <1>5. EntriesSound' /\ OnRecord'
    BY <1>4, PoolStays
  <1>6. \A i \in Slots : slot'[i].seq = slot[i].seq
    BY <1>1, <1>2, SlotIs, FreeIs
  <1>7. SlotsSound'
    <2> SUFFICES ASSUME NEW j \in Slots PROVE Sound(slot'[j], cache'[slot'[j].seq])
      BY SoundNow
    <2>0. slot[j].seq \in Slots /\ slot[j].seq \in Seqs
      BY <1>1, SlotIs
    <2>1. CASE j \in S
      <3>1. ~slot'[j].job /\ cache'[slot'[j].seq] = Blank
        BY <2>0, <2>1, <1>2, <1>6, FreeIs
      <3> QED
        BY <3>1 DEF Sound
    <2>2. CASE j \notin S
      <3>1. slot'[j] = slot[j] /\ \A i \in S : slot[i].seq # slot[j].seq
        BY <2>2, <1>1, <1>2 DEF Apart
      <3>2. cache'[slot[j].seq] = cache[slot[j].seq]
        BY <2>0, <3>1, <1>2
      <3> QED
        BY <3>1, <3>2 DEF IInv, SlotsSound
    <2> QED
      BY <2>1, <2>2
  <1>8. HeadsSound'
    BY <1>1, <1>2, BlankIs, FollowsNow DEF HeadsSound
  <1>9. Apart'
    BY <1>1, <1>6, SameLoad DEF Apart
  <1>10. Quiet'
    <2>1. Pending' \subseteq Pending
      <3> SUFFICES ASSUME NEW j \in Slots, slot'[j].job, slot'[j].publish # <<>> \/ slot'[j].logits
                   PROVE  j \in Pending
        BY SameLoad DEF Pending, Busy
      <3>1. j \notin S
        BY <1>1, <1>2, SlotIs, FreeIs
      <3> QED
        BY <3>1, <1>2 DEF Pending, Busy
    <2> QED
      BY <2>1 DEF IInv, Quiet
  <1> QED
    BY <1>3, <1>5, <1>7, <1>8, <1>9, <1>10 DEF IInv

----------------------------------------------------------------------------
(* Who is next.                                                            *)

\* The turn goes to a slot that has something coming.
LEMMA TurnIs ==
    ASSUME Typed, NEW i, Turn(i)
    PROVE  /\ i \in Slots /\ slot[i].job /\ i \in Pending
           /\ Harvesting(i) => slot[i].logits
  <1>1. Pending \subseteq Slots /\ Pending \subseteq Nat /\ Pending # {}
    BY LoadIs DEF Pending, Busy, Turn, Typed
  <1>2. i \in Pending
    <2> HIDE DEF Pending
    <2> QED
      BY <1>1, FirstIs DEF Turn
  <1> QED
    BY <1>2 DEF Pending, Busy, Harvesting

\* Nothing is coming while a step begins or slots move.
LEMMA NothingComes ==
    ASSUME Typed, Pending = {}, NEW i \in Slots, slot[i].job
    PROVE  ~slot[i].logits /\ slot[i].publish = <<>>
  BY DEF Pending, Busy

LEMMA CancelStep ==
    ASSUME IInv, NEW i \in Slots, Cancel(i)
    PROVE  IInv'
  BY SlotsEnd DEF Cancel

LEMMA FinishStep ==
    ASSUME IInv, NEW i \in Slots, Finish(i) \/ CannotGoBack(i)
    PROVE  IInv'
  BY SlotsEnd DEF Finish, CannotGoBack

\* A reply goes on: rejected drafts are gone from both caches, and what was
\* written instead is not read yet.
LEMMA GoesOnStep ==
    ASSUME IInv, NEW i \in Slots, NEW m \in Nat, NEW tok \in Tokens, GoesOn(i, m, tok)
    PROVE  IInv'
  <1> DEFINE sl == slot[i]
             q == cache[sl.seq]
             past == sl.past - Len(sl.drafts) + m
             reply == sl.reply \o Upto(sl.drafts, m) \o <<tok>>
             rejected == m < Len(sl.drafts)
             new == [sl EXCEPT !.past = past, !.reply = reply, !.drafts = <<>>, !.logits = FALSE]
  <1>1. /\ Harvesting(i) /\ m <= Len(sl.drafts)
        /\ Len(reply) < sl.maxGen /\ past < PerSeq
        /\ IF rejected
           THEN \E may \in {TRUE, ~MayFail} :
                    cache' = Trim(Settle(cache, sl.seq, past, may), sl.seq, past)
           ELSE UNCHANGED cache
        /\ slot' = [slot EXCEPT ![i] = new]
        /\ load' = load /\ entry' = entry /\ recent' = recent /\ phase' = phase
    BY DEF GoesOn, pool
  <1>2. /\ Typed /\ Apart /\ HeadsSound /\ SlotsSound
        /\ cache \in [Seqs -> Held] /\ slot \in [Slots -> SlotType]
    BY DEF IInv, Typed
  <1>3. sl.job /\ sl.logits /\ sl.publish = <<>>
    BY <1>1, <1>2, TurnIs DEF Harvesting
  <1>4. /\ sl.seq \in Slots /\ sl.seq \in Seqs /\ sl.prompt \in Seq(Tokens)
        /\ sl.reply \in Seq(Tokens) /\ sl.drafts \in Seq(Tokens)
        /\ sl.past \in Nat /\ sl.past <= PerSeq /\ sl.maxGen \in Nat /\ sl \in SlotType
        /\ Len(sl.prompt) \in Nat /\ Len(sl.reply) \in Nat /\ Len(sl.drafts) \in Nat
    BY <1>2, SlotIs
  <1>5. Sound(sl, q) /\ Stands(sl) /\ q.cells = Upto(Text(sl), sl.past)
    BY <1>2, <1>3 DEF SlotsSound, Sound
  <1>6. /\ Written(i) \in Seq(Tokens) /\ Text(sl) = Written(i) \o sl.drafts
        /\ Text(sl) \in Seq(Tokens)
    BY <1>2, TextIs
  <1>l. Len(Text(sl)) = Len(Written(i)) + Len(sl.drafts)
    BY <1>6, <1>4, ConcatProperties
  <1>k. /\ Len(sl.prompt) \in Nat /\ Len(sl.reply) \in Nat /\ Len(sl.drafts) \in Nat
        /\ Len(Written(i)) \in Nat
    BY <1>4, <1>6, LenProperties
  <1>p. sl.past \in Nat /\ sl.past <= PerSeq
    BY <1>4
  <1>d. /\ past = sl.past - Len(sl.drafts) + m
        /\ reply = sl.reply \o Upto(sl.drafts, m) \o <<tok>>
        /\ rejected <=> m < Len(sl.drafts)
    OBVIOUS
  <1>n. new = [sl EXCEPT !.past = past, !.reply = reply, !.drafts = <<>>, !.logits = FALSE]
    OBVIOUS
  <1>m. m <= Len(sl.drafts) /\ Len(reply) < sl.maxGen /\ past < PerSeq
    BY <1>1
  <1>e. q = cache[sl.seq] /\ Written(i) = sl.prompt \o sl.reply
    BY DEF Written
  <1>f. \A k \in DOMAIN sl.points : sl.points[k].pos \in Nat
    <2>1. sl.points \in Seq(Point)
      BY <1>2, SlotIs
    <2> HIDE DEF sl
    <2>2. \A k \in DOMAIN sl.points : sl.points[k] \in Point
      BY <2>1, ElementOfSeq, LenProperties
    <2> QED
      BY <2>2 DEF Point
  <1> HIDE DEF sl, q, past, reply, rejected, new
  <1>7. sl.past = Len(Written(i)) + Len(sl.drafts) /\ q.cells = Text(sl)
    <2>1. sl.past = Len(Text(sl))
      BY <1>3, <1>5 DEF Stands
    <2>2. Upto(Text(sl), sl.past) = Text(sl)
      <3>1. Text(sl) \in Seq(Tokens)
        BY <1>6
      <3>2. sl.past \in Nat /\ Len(Text(sl)) <= sl.past
        BY <1>p, <2>1
      <3> QED
        BY <3>1, <3>2, UptoAll
    <2>3. q.cells = Text(sl)
      BY <1>5, <2>2
    <2> QED
      BY <1>l, <2>1, <2>3
  <1>8. past = Len(Written(i)) + m /\ past \in Nat /\ past <= sl.past
    <2> DEFINE W == Len(Written(i))
               D == Len(sl.drafts)
    <2>1. /\ W \in Nat /\ D \in Nat /\ m <= D /\ sl.past \in Nat /\ sl.past = W + D
          /\ past = sl.past - D + m
      BY <1>m, <1>k, <1>p, <1>7, <1>d
    <2> HIDE DEF W, D
    <2>2. past = W + m /\ past \in Nat /\ past <= sl.past
      BY <2>1
    <2>3. past = Len(Written(i)) + m
      BY <2>2 DEF W
    <2>4. past \in Nat /\ past <= sl.past
      BY <2>2
    <2> QED
      BY <2>3, <2>4, Zenon
  <1>9. q \in Held /\ Follows(q)
    BY <1>2, <1>4, <1>e DEF HeadsSound
  <1>10. /\ Upto(sl.drafts, m) \in Seq(Tokens) /\ Len(Upto(sl.drafts, m)) = m
         /\ sl.reply \o Upto(sl.drafts, m) \in Seq(Tokens)
         /\ Len(sl.reply \o Upto(sl.drafts, m)) = Len(sl.reply) + m
         /\ <<tok>> \in Seq(Tokens) /\ Len(<<tok>>) = 1
         /\ reply \in Seq(Tokens) /\ Len(reply) = Len(sl.reply) + m + 1 /\ reply # <<>>
    <2>1. Upto(sl.drafts, m) \in Seq(Tokens) /\ Len(Upto(sl.drafts, m)) = m
      BY <1>1, <1>4, UptoIs
    <2>2. /\ sl.reply \o Upto(sl.drafts, m) \in Seq(Tokens)
          /\ Len(sl.reply \o Upto(sl.drafts, m)) = Len(sl.reply) + m
      BY ZenonT(30), <1>4, <2>1, ConcatProperties
    <2>3. <<tok>> \in Seq(Tokens) /\ Len(<<tok>>) = 1
      OBVIOUS
    <2>4. reply \in Seq(Tokens) /\ Len(reply) = Len(sl.reply \o Upto(sl.drafts, m)) + Len(<<tok>>)
      BY <1>d, <2>2, <2>3, ConcatProperties
    <2>5. Len(reply) = Len(sl.reply) + m + 1
      BY <2>2, <2>3, <2>4
    <2>6. reply # <<>>
      BY <1>4, <2>5, EmptySeq
    <2> QED
      BY <2>1, <2>2, <2>3, <2>4, <2>5, <2>6
  \* The new text, and how far it is read.
  <1> DEFINE w == Written(i) \o Upto(sl.drafts, m)
  <1>11. /\ Text(new) = w \o <<tok>> /\ w \in Seq(Tokens) /\ Len(w) = past
         /\ Text(new) \in Seq(Tokens) /\ Len(Text(new)) = past + 1
    <2>1. new.prompt = sl.prompt /\ new.reply = reply /\ new.drafts = <<>>
      BY <1>4, <1>n DEF SlotType
    <2>2. w \in Seq(Tokens) /\ Len(w) = past
      <3>1. w \in Seq(Tokens) /\ Len(w) = Len(Written(i)) + Len(Upto(sl.drafts, m))
        BY <1>6, <1>10, ConcatProperties
      <3>2. Len(Upto(sl.drafts, m)) = m
        BY <1>10
      <3> QED
        BY <1>8, <3>1, <3>2
    <2>3. w \o <<tok>> \in Seq(Tokens) /\ Len(w \o <<tok>>) = past + 1
      <3> HIDE DEF w
      <3>1. <<tok>> \in Seq(Tokens) /\ Len(<<tok>>) = 1
        BY <1>10
      <3>2. w \o <<tok>> \in Seq(Tokens) /\ Len(w \o <<tok>>) = Len(w) + Len(<<tok>>)
        BY <2>2, <3>1, ConcatProperties
      <3> QED
        BY <2>2, <3>1, <3>2
    <2>4. sl.prompt \o reply = (sl.prompt \o (sl.reply \o Upto(sl.drafts, m))) \o <<tok>>
      <3>1. /\ sl.prompt \in Seq(Tokens) /\ sl.reply \o Upto(sl.drafts, m) \in Seq(Tokens)
            /\ <<tok>> \in Seq(Tokens)
        BY <1>4, <1>10
      <3> QED
        <4> DEFINE b == sl.reply \o Upto(sl.drafts, m)
        <4> HIDE DEF b
        <4>1. sl.prompt \o (b \o <<tok>>) = (sl.prompt \o b) \o <<tok>>
          BY <3>1, Together DEF b
        <4> QED
          BY <1>d, <4>1 DEF b
    <2>5. sl.prompt \o (sl.reply \o Upto(sl.drafts, m)) = w
      <3>1. /\ sl.prompt \in Seq(Tokens) /\ sl.reply \in Seq(Tokens)
            /\ Upto(sl.drafts, m) \in Seq(Tokens)
        BY <1>4, <1>10
      <3> QED
        <4>1. sl.prompt \o (sl.reply \o Upto(sl.drafts, m)) = (sl.prompt \o sl.reply) \o Upto(sl.drafts, m)
          BY <3>1, Together
        <4> QED
          BY <1>e, <4>1
    <2>6. Text(new) = (w \o <<tok>>) \o <<>>
      BY <2>1, <2>4, <2>5 DEF Text
    <2>7. (w \o <<tok>>) \o <<>> = w \o <<tok>>
      BY <2>3, ConcatEmptySeq
    <2> QED
      BY <2>2, <2>3, <2>6, <2>7
  <1>12. Upto(Text(new), past) = w /\ Upto(Text(sl), past) = w
    <2>1. Upto(w \o <<tok>>, past) = Upto(w, past) /\ Upto(w, past) = w
      <3> HIDE DEF w
      <3>1. <<tok>> \in Seq(Tokens) /\ w \in Seq(Tokens) /\ past \in Nat /\ Len(w) = past /\ past <= Len(w)
        BY <1>8, <1>10, <1>11
      <3> QED
        BY ZenonT(30), <3>1, UptoLonger, UptoAll
    <2>3. Upto(Written(i) \o sl.drafts, Len(Written(i)) + m) = w
      BY <1>4, <1>6, UptoOver
    <2> QED
      BY <1>6, <1>8, <1>11, <2>1, <2>3
  <1>13. /\ new \in SlotType /\ new.seq = sl.seq /\ new.job /\ ~new.logits /\ new.drafts = <<>>
         /\ new.past = past /\ new.reply = reply /\ new.prompt = sl.prompt
         /\ new.points = sl.points /\ new.publish = <<>> /\ new.maxGen = sl.maxGen
    <2>1. past \in 0 .. PerSeq
      BY <1>1, <1>8, BoundsAssumption
    <2>2. <<>> \in Seq(Tokens)
      BY EmptySeq
    <2> QED
      BY <1>3, <1>4, <1>10, <1>n, <2>1, <2>2 DEF SlotType
  <1> HIDE DEF w
  <1>14. Stands(new)
    <2>1. Len(sl.prompt) <= PerSeq /\ Ahead(sl.points, sl.past, Len(sl.prompt))
      BY <1>5 DEF Stands
    <2>2. Ahead(sl.points, past, Len(sl.prompt))
      BY <2>1, <1>f, <1>4, <1>8 DEF Ahead
    <2>3. past = Len(Text(new)) - 1
      BY <1>8, <1>11
    <2> QED
      BY <1>1, <1>10, <1>13, <2>1, <2>2, <2>3 DEF Stands
  <1>15. /\ cache' \in [Seqs -> Held] /\ cache'[sl.seq].cells = w /\ Follows(cache'[sl.seq])
         /\ \A s \in Seqs : s # sl.seq => cache'[s] = cache[s]
    <2>1. CASE ~rejected
      <3>1. m = Len(sl.drafts) /\ cache' = cache
        BY <1>1, <1>4, <1>d, <2>1
      <3>2. past = Len(Text(sl))
        BY <1>l, <1>8, <3>1
      <3>3. q.cells = w
        <4>1. Len(Text(sl)) <= past
          BY <1>8, <3>2
        <4>2. Upto(Text(sl), past) = Text(sl)
          BY <1>6, <1>8, <4>1, UptoAll
        <4> QED
          BY <1>7, <1>12, <4>2
      <3> QED
        BY <1>2, <1>9, <1>e, <3>1, <3>3
    <2>2. CASE rejected
      <3>1. PICK may \in {TRUE, ~MayFail} :
                cache' = Trim(Settle(cache, sl.seq, past, may), sl.seq, past)
        BY <1>1, <2>2
      <3> DEFINE settled == Settle(cache, sl.seq, past, may)
      <3>2. past \in 0 .. PerSeq
        BY <1>8, <1>m, BoundsAssumption
      <3>3. /\ settled \in [Seqs -> Held] /\ settled[sl.seq].cells = q.cells
            /\ Drafting /\ settled[sl.seq].tracked =>
                q.tracked /\ settled[sl.seq].head = Upto(q.head, past) /\ settled[sl.seq].upTo = past
            /\ \A s \in Seqs : s # sl.seq => settled[s] = cache[s]
        BY <1>2, <1>4, <1>e, <3>2, SettleIs
      <3> HIDE DEF settled
      <3>4. /\ cache' \in [Seqs -> Held] /\ cache'[sl.seq].cells = Upto(settled[sl.seq].cells, past)
            /\ cache'[sl.seq].head = settled[sl.seq].head
            /\ cache'[sl.seq].upTo = settled[sl.seq].upTo
            /\ cache'[sl.seq].tracked = settled[sl.seq].tracked
            /\ \A s \in Seqs : s # sl.seq => cache'[s] = settled[s]
        <4>1. cache' = Trim(settled, sl.seq, past)
          BY <3>1 DEF settled
        <4> QED
          BY <1>4, <1>8, <3>3, <4>1, TrimIs
      <3>5. cache'[sl.seq].cells = w
        BY <1>7, <1>12, <3>3, <3>4
      <3>6. Follows(cache'[sl.seq])
        BY <1>9, <1>11, <3>3, <3>4, <3>5 DEF Follows
      <3> QED
        BY <3>3, <3>4, <3>5, <3>6
    <2> QED
      BY <2>1, <2>2
  <1>16. Sound(new, cache'[new.seq])
    BY <1>12, <1>13, <1>14, <1>15 DEF Sound
  <1>17. slot' \in [Slots -> SlotType] /\ SlotsSound' /\ Apart'
    <2>1. \A s \in Slots : s # new.seq => cache'[s] = cache[s]
      BY <1>2, <1>13, <1>15, LoadIs DEF Typed
    <2>2. slot' = [slot EXCEPT ![i] = new] /\ new.seq = slot[i].seq /\ load' = load
      BY <1>1, <1>13 DEF sl
    <2> QED
      BY <1>13, <1>16, <2>1, <2>2, SlotGoesOn
  <1>18. \A e \in Entries : cache'[SeqOf(e)] = cache[SeqOf(e)]
    <2> SUFFICES ASSUME NEW e \in Entries PROVE cache'[SeqOf(e)] = cache[SeqOf(e)]
      OBVIOUS
    <2>1. SeqOf(e) \in Seqs /\ SeqOf(e) \notin Slots
      BY <1>2, LoadIs DEF Typed
    <2> QED
      BY <1>4, <1>15, <2>1
  <1>19. EntriesSound' /\ OnRecord'
    BY <1>1, <1>18, PoolStays DEF pool
  <1>20. HeadsSound'
    <2>1. \A s \in Seqs : Follows(cache'[s])
      BY <1>2, <1>15 DEF HeadsSound
    <2> QED
      BY <1>1, <2>1, FollowsNow
  <1>21. Typed'
    BY <1>1, <1>2, <1>15, <1>17, TypedNow DEF Typed
  <1>22. Quiet'
    <2>1. Pending # {}
      BY <1>1 DEF Harvesting, Turn
    <2> QED
      BY <1>1, <2>1 DEF IInv, Quiet
  <1> QED
    BY <1>17, <1>19, <1>20, <1>21, <1>22 DEF IInv

\* Where a reply stands does not hang on its sequence.
LEMMA SameReply ==
    ASSUME NEW a, NEW b, a.job = b.job, a.prompt = b.prompt, a.reply = b.reply, a.drafts = b.drafts,
           a.past = b.past, a.maxGen = b.maxGen, a.points = b.points, a.publish = b.publish,
           a.logits = b.logits
    PROVE  /\ Stands(a) => Stands(b)
           /\ Text(a) = Text(b)
  <1>1. Text(a) = Text(b)
    BY DEF Text
  <1>2. Stands(a) => Stands(b)
    BY <1>1 DEF Stands
  <1> QED
    BY <1>1, <1>2

LEMMA MoveIs ==
    ASSUME NEW c \in [Seqs -> Held], NEW src \in Seqs, NEW dst \in Seqs, src # dst, c[dst] = Blank
    PROVE  /\ Move(c, src, dst) \in [Seqs -> Held]
           /\ Move(c, src, dst)[src] = Blank
           /\ Move(c, src, dst)[dst].cells = c[src].cells
           /\ Follows(c[src]) => Follows(Move(c, src, dst)[dst])
           /\ \A s \in Seqs : s # src /\ s # dst => Move(c, src, dst)[s] = c[s]
  <1> DEFINE q == c[src]
             new == [q EXCEPT !.cells = c[dst].cells \o q.cells, !.head = c[dst].head \o q.head]
  <1>1. q \in Held /\ Blank \in Held
    BY BlankIs
  <1>2. q.cells \in Seq(Tokens) /\ q.head \in Seq(Tokens)
    BY <1>1, CacheIs
  <1>3. c[dst].cells \o q.cells = q.cells /\ c[dst].head \o q.head = q.head
    <2>1. c[dst].cells = <<>> /\ c[dst].head = <<>>
      BY BlankIs
    <2> HIDE DEF q
    <2> QED
      BY <1>2, <2>1, ConcatEmptySeq
  <1>4. /\ new \in Held /\ new.cells = q.cells /\ new.head = q.head
        /\ new.upTo = q.upTo /\ new.tracked = q.tracked
    <2> HIDE DEF q
    <2> QED
      BY <1>1, <1>2, <1>3 DEF Held
  <1>5. Move(c, src, dst) = [c EXCEPT ![src] = Blank, ![dst] = new]
    BY Zenon DEF Move
  <1> HIDE DEF new
  <1>6. Follows(q) => Follows(new)
    BY <1>4 DEF Follows
  <1> QED
    BY <1>1, <1>4, <1>5, <1>6

\* A reply moves down: its sequence follows, and the one it leaves is empty.
LEMMA CompactStep ==
    ASSUME IInv, Compact
    PROVE  IInv'
  <1>1. /\ Typed /\ Apart /\ HeadsSound /\ SlotsSound /\ Quiet
        /\ cache \in [Seqs -> Held] /\ slot \in [Slots -> SlotType]
        /\ load \in Loads /\ load' = load /\ entry' = entry /\ recent' = recent
        /\ phase = "compact" /\ Pending = {}
    BY DEF IInv, Typed, Compact, pool, Quiet
  <1>2. CASE ~Gap
    <2>1. cache' = cache /\ slot' = slot /\ phase' = "step"
      BY <1>2 DEF Compact
    <2>2. Typed'
      BY <1>1, <2>1, TypedNow DEF Typed
    <2>3. EntriesSound' /\ OnRecord'
      BY <1>1, <2>1, PoolStays DEF pool
    <2>4. SlotsSound' /\ HeadsSound' /\ Apart'
      BY <1>1, <2>1, SoundNow, FollowsNow, SameLoad DEF SlotsSound, HeadsSound, Apart
    <2>5. Quiet'
      BY <1>1, <2>1, SameLoad DEF Quiet, Pending, Busy
    <2> QED
      BY <2>2, <2>3, <2>4, <2>5 DEF IInv
  <1>3. CASE Gap
    <2> DEFINE free == First(Slots \ Busy)
               last == Largest(Busy)
               from == slot[last]
               to == slot[free]
               down == [from EXCEPT !.seq = to.seq]
               up == [to EXCEPT !.seq = from.seq]
    <2>1. /\ cache' = Move(cache, from.seq, to.seq)
          /\ slot' = [slot EXCEPT ![free] = down, ![last] = up]
          /\ phase' = "compact"
      BY <1>1, <1>3 DEF Compact
    <2>2. free \in Slots /\ ~slot[free].job
      <3>1. Slots \ Busy \subseteq Nat /\ Slots \ Busy # {}
        BY <1>1, <1>3, LoadIs DEF Gap
      <3>2. free \in Slots \ Busy
        <4> HIDE DEF Gap
        <4> QED
          BY <3>1, FirstIs
      <3> QED
        BY <3>2 DEF Busy
    <2>3. last \in Slots /\ slot[last].job
      <3>1. Busy \subseteq 0 .. load.slots /\ Busy # {} /\ load.slots \in Nat
        BY <1>1, <1>3, LoadIs DEF Gap, Busy, Slots
      <3>2. last \in Busy
        BY <3>1, LargestIs
      <3> QED
        BY <3>2 DEF Busy
    <2>4. /\ from \in SlotType /\ to \in SlotType
          /\ from.seq \in Slots /\ from.seq \in Seqs /\ to.seq \in Slots /\ to.seq \in Seqs
          /\ from.seq # to.seq /\ free # last
      BY <1>1, <2>2, <2>3, SlotIs DEF Apart
    <2>5. /\ Sound(from, cache[from.seq]) /\ cache[to.seq] = Blank
          /\ Stands(from) /\ cache[from.seq].cells = Upto(Text(from), from.past)
      BY <1>1, <2>2, <2>3 DEF SlotsSound, Sound
    <2>6. ~from.logits /\ from.publish = <<>> /\ from.job /\ ~to.job
      BY <1>1, <2>2, <2>3, NothingComes
    <2>7. \A j \in Slots : j # free /\ j # last =>
                slot[j].seq # from.seq /\ slot[j].seq # to.seq /\ slot[j].seq \in Slots
      BY <1>1, <2>2, <2>3, SlotIs DEF Apart
    <2>8. slot[free] = to /\ slot[last] = from
      OBVIOUS
    <2> HIDE DEF free, last, from, to
    <2>9. /\ down \in SlotType /\ down.seq = to.seq /\ down.job = from.job
          /\ down.prompt = from.prompt /\ down.reply = from.reply /\ down.drafts = from.drafts
          /\ down.past = from.past /\ down.maxGen = from.maxGen /\ down.points = from.points
          /\ down.publish = from.publish /\ down.logits = from.logits
      BY <2>4 DEF SlotType
    <2>10. up \in SlotType /\ up.seq = from.seq /\ up.job = to.job
      BY <2>4 DEF SlotType
    <2> HIDE DEF down, up
    <2>11. /\ cache' \in [Seqs -> Held] /\ cache'[from.seq] = Blank
           /\ cache'[to.seq].cells = cache[from.seq].cells
           /\ Follows(cache[from.seq]) => Follows(cache'[to.seq])
           /\ \A s \in Seqs : s # from.seq /\ s # to.seq => cache'[s] = cache[s]
      BY <1>1, <2>1, <2>4, <2>5, MoveIs
    <2>12. \A j \in Slots : slot'[j] = IF j = last THEN up ELSE IF j = free THEN down ELSE slot[j]
      BY <1>1, <2>1
    <2>13. slot' \in [Slots -> SlotType]
      BY <1>1, <2>1, <2>9, <2>10
    <2>14. Typed'
      BY <1>1, <2>1, <2>11, <2>13, TypedNow DEF Typed
    <2>15. Sound(down, cache'[down.seq])
      <3>1. Stands(down) /\ Text(down) = Text(from)
        BY <2>5, <2>9, SameReply
      <3> QED
        BY <2>5, <2>6, <2>9, <2>11, <3>1 DEF Sound
    <2>16. Sound(up, cache'[up.seq])
      BY <2>6, <2>10, <2>11 DEF Sound
    <2>17. SlotsSound'
      <3> SUFFICES ASSUME NEW j \in Slots PROVE Sound(slot'[j], cache'[slot'[j].seq])
        BY <1>1, SoundNow
      <3>1. CASE j # free /\ j # last
        <4>1. slot'[j] = slot[j] /\ cache'[slot[j].seq] = cache[slot[j].seq]
          BY <1>1, <2>7, <2>11, <2>12, <3>1, SlotIs
        <4> QED
          BY <1>1, <4>1 DEF SlotsSound
      <3> QED
        BY <2>12, <2>15, <2>16, <3>1
    <2>18. HeadsSound'
      <3>1. \A s \in Seqs : Follows(cache'[s])
        BY <1>1, <2>4, <2>11, BlankIs DEF HeadsSound
      <3> QED
        BY <1>1, <3>1, FollowsNow
    <2>19. \A e \in Entries : cache'[SeqOf(e)] = cache[SeqOf(e)]
      <3> SUFFICES ASSUME NEW e \in Entries PROVE cache'[SeqOf(e)] = cache[SeqOf(e)]
        OBVIOUS
      <3>1. SeqOf(e) \in Seqs /\ SeqOf(e) \notin Slots
        BY <1>1, LoadIs
      <3> QED
        BY <2>4, <2>11, <3>1
    <2>20. EntriesSound' /\ OnRecord'
      BY <1>1, <2>19, PoolStays DEF pool
    <2>21. Apart'
      <3> SUFFICES ASSUME NEW j \in Slots, NEW k \in Slots, slot'[j].seq = slot'[k].seq PROVE j = k
        BY <1>1, SameLoad DEF Apart
      <3>1. slot[j].seq = slot[k].seq => j = k
        BY <1>1 DEF Apart
      <3> QED
        BY <2>4, <2>7, <2>8, <2>9, <2>10, <2>12, <3>1
    <2>22. Quiet'
      <3>1. \A j \in Slots : ~(slot'[j].job /\ (slot'[j].publish # <<>> \/ slot'[j].logits))
        <4> SUFFICES ASSUME NEW j \in Slots, slot'[j].job
                     PROVE  slot'[j].publish = <<>> /\ ~slot'[j].logits
          OBVIOUS
        <4>1. CASE j # free /\ j # last
          BY <1>1, <2>12, <4>1, NothingComes
        <4> QED
          BY <2>6, <2>9, <2>10, <2>12, <4>1
      <3> QED
        BY <1>1, <3>1, SameLoad DEF Quiet, Pending, Busy
    <2> QED
      BY <2>14, <2>17, <2>18, <2>20, <2>21, <2>22 DEF IInv
  <1> QED
    BY <1>2, <1>3

\* Nothing but the phase.
LEMMA PhaseStep ==
    ASSUME IInv, Pending = {}, UNCHANGED <<load, cache, slot, pool>>, phase' \in {"admit", "compact", "step"}
    PROVE  IInv'
  <1>1. /\ Typed /\ Apart /\ HeadsSound /\ SlotsSound
        /\ load' = load /\ cache' = cache /\ slot' = slot /\ entry' = entry /\ recent' = recent
    BY DEF IInv, pool
  <1>2. Typed'
    BY <1>1, TypedNow DEF Typed
  <1>3. EntriesSound' /\ OnRecord'
    BY <1>1, PoolStays DEF pool
  <1>4. SlotsSound' /\ HeadsSound' /\ Apart'
    BY <1>1, SoundNow, FollowsNow, SameLoad DEF SlotsSound, HeadsSound, Apart
  <1>5. Quiet'
    BY <1>1, SameLoad DEF Quiet, Pending, Busy
  <1> QED
    BY <1>2, <1>3, <1>4, <1>5 DEF IInv

----------------------------------------------------------------------------
(* The pool.                                                               *)

\* What is touched is on record, and nothing falls off it.
LEMMA TouchedIs ==
    ASSUME Typed, NEW e \in Entries
    PROVE  /\ Touched(e) \in Seq(Entries)
           /\ \E k \in DOMAIN Touched(e) : Touched(e)[k] = e
           /\ \A k \in DOMAIN recent : \E l \in DOMAIN Touched(e) : Touched(e)[l] = recent[k]
  <1> DEFINE n == Len(recent)
             S == {k \in DOMAIN recent : recent[k] = e} \cup {n + 1}
             at == First(S)
             left == Upto(recent, at - 1)
             right == SubSeq(recent, at + 1, n)
             t == left \o right
  <1>1. recent \in Seq(Entries) /\ n \in Nat /\ DOMAIN recent = 1 .. n
    BY LenProperties DEF Typed
  <1>2. Touched(e) = Append(t, e)
    BY DEF Touched
  <1>3. S \subseteq Nat /\ n + 1 \in S
    BY <1>1
  <1>4. at \in S
    <2> HIDE DEF S
    <2> QED
      BY <1>3, FirstIs
  <1>5. at \in 1 .. n + 1 /\ at \in Nat /\ at - 1 \in Nat /\ at - 1 <= n
    BY <1>1, <1>4
  <1>6. \A k \in 1 .. n : k = at => recent[k] = e
    BY <1>1, <1>4
  <1> HIDE DEF at, S, n
  <1>7. /\ left \in Seq(Entries) /\ Len(left) = at - 1
        /\ \A k \in 1 .. at - 1 : left[k] = recent[k]
    <2> DEFINE m == at - 1
    <2>1. m \in Nat /\ m <= Len(recent)
      BY <1>1, <1>5 DEF n
    <2> HIDE DEF m
    <2>2. /\ Upto(recent, m) \in Seq(Entries) /\ Len(Upto(recent, m)) = m
          /\ \A k \in 1 .. m : Upto(recent, m)[k] = recent[k]
      BY <1>1, <2>1, UptoIs
    <2> QED
      BY <2>2 DEF m
  <1>8. /\ right \in Seq(Entries) /\ Len(right) = IF at + 1 <= n THEN n - (at + 1) + 1 ELSE 0
        /\ \A k \in 1 .. n - (at + 1) + 1 : right[k] = recent[at + 1 + k - 1]
    <2>1. \A k \in at + 1 .. n : recent[k] \in Entries
      BY <1>1, <1>5, ElementOfSeq DEF n
    <2> QED
      BY <1>1, <1>5, <2>1, SubSeqProperties
  <1> HIDE DEF left, right
  <1>9. /\ t \in Seq(Entries) /\ Len(t) = Len(left) + Len(right)
        /\ \A k \in 1 .. Len(left) + Len(right) :
              t[k] = IF k <= Len(left) THEN left[k] ELSE right[k - Len(left)]
    BY <1>7, <1>8, ConcatProperties
  <1>10. Len(left) \in Nat /\ Len(right) \in Nat /\ Len(t) \in Nat
    BY <1>7, <1>8, <1>9, LenProperties
  <1> HIDE DEF t
  <1>11. /\ Append(t, e) \in Seq(Entries) /\ Len(Append(t, e)) = Len(t) + 1
         /\ \A k \in 1 .. Len(t) : Append(t, e)[k] = t[k]
         /\ Append(t, e)[Len(t) + 1] = e
    BY <1>9, AppendProperties
  <1>12. DOMAIN Append(t, e) = 1 .. Len(t) + 1
    BY <1>11, LenProperties
  <1>13. \E k \in DOMAIN Append(t, e) : Append(t, e)[k] = e
    BY <1>10, <1>11, <1>12
  <1>14. ASSUME NEW k \in DOMAIN recent
         PROVE  \E l \in DOMAIN Append(t, e) : Append(t, e)[l] = recent[k]
    <2>0. k \in 1 .. n
      BY <1>1
    <2>1. CASE k = at
      BY <2>0, <2>1, <1>6, <1>13
    <2>2. CASE k < at
      <3>1. k \in 1 .. Len(left) /\ k \in 1 .. Len(left) + Len(right) /\ left[k] = recent[k]
        BY <1>5, <1>7, <1>10, <2>0, <2>2
      <3>2. t[k] = recent[k] /\ k \in 1 .. Len(t)
        BY <1>9, <1>10, <3>1
      <3> QED
        BY <1>10, <1>11, <1>12, <3>2
    <2>3. CASE k > at
      <3> DEFINE j == k - at
      <3>1. j \in 1 .. n - (at + 1) + 1 /\ at + 1 <= n /\ at + 1 + j - 1 = k
        BY <1>1, <1>5, <2>0, <2>3
      <3>2. right[j] = recent[k] /\ Len(right) = n - (at + 1) + 1
        BY <1>8, <3>1
      <3>3. /\ Len(left) + j \in 1 .. Len(left) + Len(right)
            /\ ~(Len(left) + j <= Len(left)) /\ (Len(left) + j) - Len(left) = j
        BY <1>10, <3>1, <3>2
      <3>4. t[Len(left) + j] = recent[k] /\ Len(left) + j \in 1 .. Len(t)
        BY <1>9, <3>2, <3>3
      <3> HIDE DEF j
      <3>5. Append(t, e)[Len(left) + j] = recent[k]
        BY <1>11, <3>4
      <3>6. Len(left) + j \in 1 .. Len(t) + 1
        BY <1>10, <3>4
      <3> QED
        BY <1>12, <3>5, <3>6
    <2> QED
      BY <1>1, <1>5, <2>0, <2>1, <2>2, <2>3
  <1> QED
    BY <1>2, <1>11, <1>13, <1>14

\* The least recently used of some entries that hold something is one of them.
LEMMA OldestIs ==
    ASSUME Typed, OnRecord, NEW S, S \subseteq Filled, S # {}
    PROVE  Oldest(S) \in S
  <1> DEFINE D == {k \in DOMAIN recent : recent[k] \in S}
  <1>1. D \subseteq Nat
    BY LenProperties DEF Typed
  <1>2. D # {}
    BY DEF OnRecord
  <1>3. First(D) \in D
    <2> HIDE DEF D
    <2> QED
      BY <1>1, <1>2, FirstIs
  <1> QED
    BY <1>3 DEF Oldest

\* What is overwritten: an entry that is empty or that the prompt continues, or
\* else no system prompt as long as there is anything else.
LEMMA VictimIs ==
    ASSUME Typed, OnRecord, load.entries # 0, NEW tokens, NEW shared
    PROVE  /\ Victim(tokens, shared) \in Entries
           /\ \/ Ends(Victim(tokens, shared), tokens, shared)
              \/ load.exact => ~entry[Victim(tokens, shared)].shared \/ \A e \in Entries : entry[e].shared
  <1> DEFINE ends == {e \in Entries : Ends(e, tokens, shared)}
             conversations == {e \in Entries : ~entry[e].shared}
             S == IF load.exact /\ conversations # {} THEN conversations ELSE Entries
  <1>1. Entries \subseteq Nat /\ 1 \in Entries /\ load.exact \in BOOLEAN
    BY LoadIs DEF Typed, Entries
  <1>2. CASE ends # {}
    <2>1. ends \subseteq Nat
      BY <1>1
    <2>2. First(ends) \in ends
      <3> HIDE DEF ends
      <3> QED
        BY <1>2, <2>1, FirstIs
    <2>3. Victim(tokens, shared) = First(ends)
      BY <1>2 DEF Victim
    <2> QED
      BY <2>2, <2>3
  <1>3. CASE ends = {}
    <2>1. \A e \in Entries : entry[e].tokens # <<>>
      BY <1>3 DEF Ends
    <2>2. S \subseteq Filled /\ S # {}
      BY <1>1, <2>1 DEF Filled
    <2>3. Oldest(S) \in S
      <3> HIDE DEF S
      <3> QED
        BY <2>2, OldestIs
    <2>4. Victim(tokens, shared) = Oldest(S)
      BY <1>3 DEF Victim
    <2>5. Oldest(S) \in Entries
      BY <2>3
    <2>6. load.exact => ~entry[Oldest(S)].shared \/ \A e \in Entries : entry[e].shared
      <3>1. ASSUME load.exact, conversations # {} PROVE ~entry[Oldest(S)].shared
        <4>1. S = conversations
          BY <3>1
        <4> QED
          BY <2>3, <4>1
      <3>2. conversations = {} => \A e \in Entries : entry[e].shared
        BY EntryIs
      <3> QED
        BY <3>1, <3>2
    <2> QED
      BY <2>4, <2>5, <2>6
  <1> QED
    BY <1>2, <1>3

\* What an entry lends it has in common with the prompt: not the whole prompt,
\* and of recurrent state all it holds.
LEMMA LendsIs ==
    ASSUME Typed, NEW e \in Entries, NEW tokens \in Seq(Tokens), tokens # <<>>
    PROVE  LET n == Lends(e, tokens)
           IN  /\ n \in Nat /\ n <= Len(tokens) - 1 /\ n <= Len(entry[e].tokens)
               /\ Upto(entry[e].tokens, n) = Upto(tokens, n)
               /\ n > 0 /\ load.exact => n = Len(entry[e].tokens)
  <1> DEFINE had == entry[e].tokens
             c == CommonPrefix(had, tokens)
             k == Smaller(c, Len(tokens) - 1)
             n == Lends(e, tokens)
  <1>1. had \in Seq(Tokens) /\ Len(had) \in Nat /\ Len(tokens) \in Nat /\ Len(tokens) > 0
    BY EntryIs, EmptySeq, LenProperties
  <1>2. n = IF load.exact /\ k # Len(had) THEN 0 ELSE k
    BY DEF Lends
  <1> HIDE DEF n, had
  <1>3. /\ c \in Nat /\ c <= Len(had) /\ c <= Len(tokens) /\ Upto(had, c) = Upto(tokens, c)
    BY <1>1, CommonIs
  <1> HIDE DEF c
  <1>4. k \in Nat /\ k <= c /\ k <= Len(tokens) - 1
    BY <1>1, <1>3 DEF Smaller
  <1> HIDE DEF k
  <1>5. Upto(had, k) = Upto(tokens, k)
    BY <1>1, <1>3, <1>4, UptoUpto
  <1>6. Upto(had, 0) = Upto(tokens, 0)
    BY <1>1, UptoNone
  <1>7. /\ n \in Nat /\ n <= Len(tokens) - 1 /\ n <= Len(had)
        /\ Upto(had, n) = Upto(tokens, n)
        /\ n > 0 /\ load.exact => n = Len(had)
    <2>1. CASE load.exact /\ k # Len(had)
      <3>1. n = 0
        BY <1>2, <2>1
      <3> QED
        BY <1>1, <1>6, <3>1
    <2>2. CASE ~(load.exact /\ k # Len(had))
      <3>1. n = k
        BY <1>2, <2>2
      <3> QED
        BY <1>1, <1>3, <1>4, <1>5, <2>2, <3>1
    <2> QED
      BY <2>1, <2>2
  <1> QED
    BY <1>7 DEF n, had

\* What is adopted is worth it, and somebody's.
LEMMA MatchedIs ==
    ASSUME Typed, NEW tokens \in Seq(Tokens), tokens # <<>>
    PROVE  /\ Matched(tokens) \in Nat
           /\ Matched(tokens) > 0 =>
                /\ Lender(tokens) \in Filled
                /\ Lends(Lender(tokens), tokens) = Matched(tokens)
  <1> DEFINE L == {Lends(e, tokens) : e \in Filled}
             S == {0} \cup L
             best == Largest(S)
             D == {e \in Filled : Lends(e, tokens) = Matched(tokens)}
  <1>1. Len(tokens) \in Nat /\ MinMatch \in Nat /\ Filled \subseteq Entries /\ Filled \subseteq Nat
    BY LenProperties, BoundsAssumption, LoadIs DEF Filled, Typed, Entries
  <1>2. ASSUME NEW e \in Filled PROVE Lends(e, tokens) \in 0 .. Len(tokens)
    <2>1. e \in Entries
      BY <1>1
    <2>2. Lends(e, tokens) \in Nat /\ Lends(e, tokens) <= Len(tokens) - 1
      BY <2>1, LendsIs
    <2> QED
      BY <1>1, <2>2
  <1>3. best \in S
    <2>1. S \subseteq 0 .. Len(tokens) /\ S # {}
      BY <1>1, <1>2
    <2> HIDE DEF S
    <2> QED
      BY <1>1, <2>1, LargestIs
  <1>4. Matched(tokens) = IF best < MinMatch THEN 0 ELSE best
    BY DEF Matched
  <1>5. best \in Nat
    BY <1>2, <1>3
  <1> HIDE DEF best
  <1>6. Matched(tokens) \in Nat /\ (Matched(tokens) > 0 => Matched(tokens) \in L)
    BY <1>3, <1>4, <1>5
  <1>7. ASSUME Matched(tokens) > 0
        PROVE  Lender(tokens) \in D
    <2>1. D # {} /\ D \subseteq Nat
      BY <1>1, <1>6, <1>7
    <2>2. Lender(tokens) = First(D)
      BY DEF Lender
    <2> HIDE DEF D
    <2> QED
      BY <2>1, <2>2, FirstIs
  <1> QED
    BY <1>6, <1>7

\* A prompt is pooled from cells that hold it.
LEMMA PutIs ==
    ASSUME IInv, load' = load, NEW s \in Slots, NEW tokens \in Seq(Tokens), cache[s].cells = tokens,
           Len(tokens) <= PerSeq, NEW shared \in BOOLEAN, Put(s, tokens, shared)
    PROVE  /\ cache' \in [Seqs -> Held] /\ entry' \in [Entries -> Known] /\ recent' \in Seq(Entries)
           /\ EntriesSound' /\ HeadsSound' /\ OnRecord'
           /\ \A o \in Slots : cache'[o] = cache[o]
  <1>1. /\ Typed /\ OnRecord /\ EntriesSound /\ HeadsSound /\ load \in Loads
        /\ cache \in [Seqs -> Held] /\ entry \in [Entries -> Known] /\ recent \in Seq(Entries)
        /\ s \in Seqs
    BY LoadIs DEF IInv, Typed
  <1>2. CASE load.entries = 0 \/ Len(tokens) < MinMatch
    <2>1. cache' = cache /\ entry' = entry /\ recent' = recent
      BY <1>2 DEF Put, pool
    <2>2. EntriesSound' /\ OnRecord'
      BY <2>1, PoolStays DEF pool
    <2>3. HeadsSound'
      BY <1>1, <2>1, FollowsNow DEF HeadsSound
    <2> QED
      BY <1>1, <2>1, <2>2, <2>3
  <1>3. CASE ~(load.entries = 0 \/ Len(tokens) < MinMatch)
    <2> DEFINE e == Victim(tokens, shared)
               d == SeqOf(e)
               emptied == Forget(cache, d)
               n == Len(tokens)
               new == [tokens |-> tokens, shared |-> shared]
    <2>1. /\ recent' = Touched(e)
          /\ IF entry[e].tokens = tokens THEN cache' = cache /\ entry' = entry
             ELSE /\ cache' = Share(emptied, s, d, n)
                  /\ entry' = [entry EXCEPT ![e] = new]
      BY <1>3 DEF Put
    <2>2. e \in Entries
      BY <1>1, <1>3, VictimIs
    <2>3. d \in Seqs /\ d \notin Slots /\ d # s /\ \A f \in Entries : SeqOf(f) = d => f = e
      BY <1>1, <2>2, LoadIs
    <2> HIDE DEF e
    <2>4. /\ recent' \in Seq(Entries)
          /\ \E k \in DOMAIN recent' : recent'[k] = e
          /\ \A k \in DOMAIN recent : \E l \in DOMAIN recent' : recent'[l] = recent[k]
      <3> HIDE DEF d, emptied, n, new
      <3> QED
        BY <1>1, <2>1, <2>2, TouchedIs
    <2>5. /\ cache' \in [Seqs -> Held] /\ entry' \in [Entries -> Known]
          /\ \A f \in Entries : f # e => entry'[f] = entry[f] /\ cache'[SeqOf(f)] = cache[SeqOf(f)]
          /\ Pooled(entry'[e], cache'[d]) /\ entry'[e].tokens = tokens
          /\ \A o \in Slots : cache'[o] = cache[o]
          /\ \A o \in Seqs : Follows(cache'[o])
      <3>1. CASE entry[e].tokens = tokens
        <4>1. cache' = cache /\ entry' = entry
          BY <2>1, <3>1
        <4> QED
          BY <1>1, <2>2, <3>1, <4>1 DEF EntriesSound, HeadsSound
      <3>2. CASE entry[e].tokens # tokens
        <4>1. cache' = Share(emptied, s, d, n) /\ entry' = [entry EXCEPT ![e] = new]
          BY <2>1, <3>2
        <4>2. n \in Nat /\ n \in 0 .. PerSeq /\ MinMatch \in Nat \ {0} /\ n >= MinMatch
          BY <1>3, BoundsAssumption, LenProperties
        <4>3. /\ emptied \in [Seqs -> Held] /\ emptied[d] = Blank
              /\ \A o \in Seqs : o # d => emptied[o] = cache[o]
          <5> HIDE DEF d
          <5> QED
            BY <1>1, <2>3, ForgetIs
        <4>4. emptied[s].cells = tokens
          BY <1>1, <2>3, <4>3
        <4> HIDE DEF emptied
        <4>5. /\ cache' \in [Seqs -> Held] /\ cache'[d].cells = Upto(tokens, n)
              /\ Follows(emptied[s]) => Follows(cache'[d])
              /\ \A o \in Seqs : o # d => cache'[o] = emptied[o]
          <5> DEFINE m == n
          <5>1. m <= Len(emptied[s].cells) /\ m = Len(emptied[s].cells) /\ m \in 0 .. PerSeq
            BY <4>2, <4>4
          <5>2. cache' = Share(emptied, s, d, m)
            BY <4>1
          <5> HIDE DEF d, n, m
          <5>3. /\ cache' \in [Seqs -> Held] /\ cache'[d].cells = Upto(emptied[s].cells, m)
                /\ Follows(emptied[s]) => Follows(cache'[d])
                /\ \A o \in Seqs : o # d => cache'[o] = emptied[o]
            BY SMTT(30), <1>1, <2>3, <4>3, <5>1, <5>2, ShareIs
          <5> QED
            BY <4>4, <5>3 DEF m
        <4>6. Upto(tokens, n) = tokens
          BY <4>2, UptoAll
        <4>7. new \in Known /\ new.tokens = tokens
          BY DEF Known
        <4>8. tokens # <<>>
          BY <4>2, EmptySeq
        <4>9. Pooled(new, cache'[d])
          BY <4>5, <4>6, <4>8 DEF Pooled
        <4> HIDE DEF new
        <4>10. /\ entry' \in [Entries -> Known] /\ entry'[e] = new
               /\ \A f \in Entries : f # e => entry'[f] = entry[f]
          BY <1>1, <2>2, <4>1, <4>7
        <4>11. \A o \in Seqs : o # d => cache'[o] = cache[o]
          BY <4>3, <4>5
        <4>12. \A f \in Entries : f # e => cache'[SeqOf(f)] = cache[SeqOf(f)]
          <5> HIDE DEF d
          <5> QED
            BY <1>1, <2>3, <4>11, LoadIs
        <4>13. \A o \in Slots : cache'[o] = cache[o]
          <5> HIDE DEF d
          <5> QED
            BY <1>1, <2>3, <4>11, LoadIs
        <4>14. \A o \in Seqs : Follows(cache'[o])
          <5>1. Follows(cache'[d])
            BY <1>1, <2>3, <4>3, <4>5 DEF HeadsSound
          <5> HIDE DEF d
          <5> QED
            BY <1>1, <4>11, <5>1 DEF HeadsSound
        <4> QED
          BY <4>5, <4>7, <4>9, <4>10, <4>12, <4>13, <4>14
      <3> QED
        BY <3>1, <3>2
    <2>6. EntriesSound'
      <3> SUFFICES ASSUME NEW f \in Entries PROVE Pooled(entry'[f], cache'[SeqOf(f)])
        BY PooledNow
      <3>1. CASE f = e
        BY <2>5, <3>1
      <3>2. CASE f # e
        BY <1>1, <2>5, <3>2 DEF EntriesSound
      <3> QED
        BY <3>1, <3>2
    <2>7. HeadsSound'
      BY <2>5, FollowsNow
    <2>8. OnRecord'
      <3> SUFFICES ASSUME NEW f \in Entries, entry'[f].tokens # <<>>
                   PROVE  \E k \in DOMAIN recent' : recent'[k] = f
        BY SameLoad DEF OnRecord, Filled
      <3>1. CASE f = e
        BY <2>4, <3>1
      <3>2. CASE f # e
        <4>1. f \in Filled
          BY <2>5, <3>2 DEF Filled
        <4> QED
          BY <1>1, <2>4, <4>1 DEF OnRecord
      <3> QED
        BY <3>1, <3>2
    <2> QED
      BY <2>4, <2>5, <2>6, <2>7, <2>8
  <1> QED
    BY <1>2, <1>3

\* A prompt is pooled as far as it was read.
LEMMA PublishStep ==
    ASSUME IInv, NEW i \in Slots, Publish(i)
    PROVE  IInv'
  <1> DEFINE sl == slot[i]
             q == cache[sl.seq]
             at == sl.publish[1]
             read == Upto(sl.prompt, at.pos)
             new == [sl EXCEPT !.publish = <<>>]
  <1>1. /\ Turn(i) /\ sl.publish # <<>> /\ Put(sl.seq, read, at.shared)
        /\ slot' = [slot EXCEPT ![i] = new] /\ load' = load /\ phase' = phase
    BY DEF Publish
  <1>2. /\ Typed /\ Apart /\ HeadsSound /\ SlotsSound
        /\ cache \in [Seqs -> Held] /\ slot \in [Slots -> SlotType] /\ load \in Loads
    BY DEF IInv, Typed
  <1>3. sl.job
    BY <1>1, <1>2, TurnIs
  <1>4. /\ sl.seq \in Slots /\ sl.seq \in Seqs /\ sl.prompt \in Seq(Tokens) /\ sl.reply \in Seq(Tokens)
        /\ sl.drafts \in Seq(Tokens) /\ sl.past \in Nat /\ sl.past <= PerSeq /\ sl \in SlotType
        /\ sl.publish \in Seq(Point) /\ Len(sl.prompt) \in Nat
    BY <1>2, SlotIs
  <1>5. Stands(sl) /\ q.cells = Upto(Text(sl), sl.past)
    BY <1>2, <1>3 DEF SlotsSound, Sound
  <1>6. at \in Point /\ at.pos = sl.past /\ sl.past <= Len(sl.prompt) /\ at.shared \in BOOLEAN
    <2>1. 1 \in 1 .. Len(sl.publish)
      BY <1>1, <1>4, EmptySeq
    <2>2. at \in Point
      BY <1>4, <2>1, ElementOfSeq
    <2>3. at.pos = sl.past /\ sl.past <= Len(sl.prompt)
      BY <1>1, <1>5 DEF Stands
    <2> HIDE DEF at
    <2> QED
      BY <2>2, <2>3 DEF Point
  <1>7. Text(sl) = (sl.prompt \o sl.reply) \o sl.drafts
    BY DEF Text
  <1>8. slot[i] = sl /\ q = cache[sl.seq] /\ read = Upto(sl.prompt, at.pos)
    OBVIOUS
  <1>9. new \in SlotType /\ new.seq = sl.seq /\ new.job = sl.job
        /\ new.prompt = sl.prompt /\ new.reply = sl.reply /\ new.drafts = sl.drafts
        /\ new.past = sl.past /\ new.maxGen = sl.maxGen /\ new.points = sl.points
        /\ new.publish = <<>> /\ new.logits = sl.logits
    <2>1. <<>> \in Seq(Point)
      BY EmptySeq
    <2> HIDE DEF sl
    <2> QED
      BY <1>4, <2>1 DEF SlotType
  <1> HIDE DEF sl, q, at, read, new
  <1>10. read \in Seq(Tokens) /\ Len(read) = sl.past /\ read = q.cells
    <2>1. at.pos \in Nat
      BY <1>4, <1>6
    <2>2. Upto(sl.prompt, sl.past) \in Seq(Tokens) /\ Len(Upto(sl.prompt, sl.past)) = sl.past
      BY <1>4, <1>6, UptoIs
    <2>3. sl.prompt \o sl.reply \in Seq(Tokens) /\ Len(sl.prompt \o sl.reply) = Len(sl.prompt) + Len(sl.reply)
      BY <1>4, ConcatProperties
    <2>4. Upto(sl.prompt \o sl.reply, sl.past) = Upto(sl.prompt, sl.past)
      BY <1>4, <1>6, UptoLonger
    <2> DEFINE w == sl.prompt \o sl.reply
    <2>5. sl.past <= Len(w) /\ w \in Seq(Tokens)
      <3> DEFINE a == Len(sl.prompt)
                 b == Len(sl.reply)
                 c == Len(w)
      <3>1. a \in Nat /\ b \in Nat /\ c = a + b /\ sl.past <= a
        BY <1>4, <1>6, <2>3, LenProperties
      <3> HIDE DEF a, b, c
      <3>2. sl.past <= c
        BY <1>4, <3>1
      <3> QED
        BY <2>3, <3>2 DEF c
    <2> HIDE DEF w
    <2>6. Upto(w \o sl.drafts, sl.past) = Upto(w, sl.past)
      BY <1>4, <2>5, UptoLonger
    <2>7. Upto(Text(sl), sl.past) = Upto(sl.prompt, sl.past)
      BY <1>7, <2>4, <2>6 DEF w
    <2> QED
      BY <1>5, <1>6, <1>8, <2>2, <2>7
  <1>11. /\ cache' \in [Seqs -> Held] /\ entry' \in [Entries -> Known] /\ recent' \in Seq(Entries)
         /\ EntriesSound' /\ HeadsSound' /\ OnRecord'
         /\ \A o \in Slots : cache'[o] = cache[o]
    <2>1. Len(read) <= PerSeq /\ cache[sl.seq].cells = read
      BY <1>4, <1>8, <1>10
    <2> QED
      BY <1>1, <1>4, <1>6, <1>10, <2>1, PutIs
  <1>12. Sound(new, cache'[new.seq])
    <2>1. Text(new) = Text(sl)
      BY <1>9 DEF Text
    <2>2. Stands(new)
      BY <1>5, <1>9, <2>1 DEF Stands
    <2>3. cache'[new.seq] = q
      BY <1>4, <1>8, <1>9, <1>11
    <2> QED
      BY <1>3, <1>5, <1>9, <2>1, <2>2, <2>3 DEF Sound
  <1>13. slot' \in [Slots -> SlotType] /\ SlotsSound' /\ Apart'
    BY <1>1, <1>8, <1>9, <1>11, <1>12, SlotGoesOn
  <1>14. Typed'
    BY <1>1, <1>2, <1>11, <1>13, TypedNow DEF Typed
  <1>15. Quiet'
    <2>1. Pending # {}
      BY <1>1 DEF Turn
    <2> QED
      BY <1>1, <2>1 DEF IInv, Quiet
  <1> QED
    BY <1>11, <1>13, <1>14, <1>15 DEF IInv

----------------------------------------------------------------------------
(* A request comes.                                                        *)

LEMMA CheckpointsAre ==
    ASSUME NEW p, IsPrompt(p), NEW reused \in Nat, NEW end \in Nat, Len(p.tokens) <= end
    PROVE  Checkpoints(p, reused) \in Seq(Point) /\ Ahead(Checkpoints(p, reused), reused, end)
  <1> DEFINE worth(n) == n > reused /\ n >= MinMatch
             s == [pos |-> p.system, shared |-> TRUE]
             t == [pos |-> p.turn, shared |-> FALSE]
             system == IF worth(p.system) THEN <<s>> ELSE <<>>
             both == worth(p.turn) /\ (system = <<>> \/ p.turn > p.system)
  <1>1. p.system \in Nat /\ p.turn \in Nat /\ p.system <= end /\ p.turn <= end
    <2>1. /\ Len(p.tokens) \in Nat /\ p.system \in 0 .. Len(p.tokens) - 1
          /\ p.turn \in 0 .. Len(p.tokens) - 1
      BY LenProperties DEF IsPrompt
    <2> QED
      BY <2>1
  <1>2. s \in Point /\ t \in Point /\ s.pos = p.system /\ t.pos = p.turn
    BY <1>1 DEF Point
  <1>3. Checkpoints(p, reused) = IF both THEN Append(system, t) ELSE system
    BY DEF Checkpoints
  <1> HIDE DEF s, t
  <1>4. CASE worth(p.system)
    <2>1. system = <<s>> /\ <<s>> \in Seq(Point) /\ <<s>> # <<>>
      BY <1>2, <1>4
    <2> DEFINE u == Append(<<s>>, t)
    <2>2. u \in Seq(Point) /\ DOMAIN u = 1 .. 2 /\ u[1] = s /\ u[2] = t
      <3>1. <<s>> \in Seq(Point) /\ Len(<<s>>) = 1 /\ <<s>>[1] = s
        BY <2>1
      <3> DEFINE v == <<s>>
      <3> HIDE DEF v
      <3>2. /\ Append(v, t) \in Seq(Point) /\ Len(Append(v, t)) = Len(v) + 1
            /\ \A k \in 1 .. Len(v) : Append(v, t)[k] = v[k] /\ Append(v, t)[Len(v) + 1] = t
        BY <1>2, <3>1, AppendProperties DEF v
      <3>3. Len(v) = 1 /\ v[1] = s
        BY <3>1 DEF v
      <3>4. Len(Append(v, t)) = 2 /\ Append(v, t)[1] = s /\ Append(v, t)[2] = t
        BY <3>2, <3>3
      <3>5. DOMAIN Append(v, t) = 1 .. 2
        BY <3>2, <3>4, LenProperties
      <3> QED
        BY <3>2, <3>4, <3>5 DEF v
    <2> HIDE DEF u
    <2>3. Ahead(<<s>>, reused, end)
      BY <1>1, <1>2, <1>4 DEF Ahead
    <2>4. both => p.turn > p.system /\ p.turn > reused
      BY <2>1
    <2>5. p.turn > p.system /\ p.turn > reused => Ahead(u, reused, end)
      <3> SUFFICES ASSUME p.turn > p.system, p.turn > reused PROVE Ahead(u, reused, end)
        OBVIOUS
      <3>1. \A k \in DOMAIN u : u[k].pos > reused /\ u[k].pos <= end
        BY <1>1, <1>2, <1>4, <2>2
      <3>2. \A k \in DOMAIN u : \A l \in DOMAIN u : k < l => u[k].pos < u[l].pos
        BY <1>1, <1>2, <2>2
      <3> QED
        BY <3>1, <3>2 DEF Ahead
    <2>6. both => Append(system, t) = u
      BY <2>1 DEF u
    <2> HIDE DEF both, system
    <2> QED
      BY <1>3, <2>1, <2>2, <2>3, <2>4, <2>5, <2>6
  <1>5. CASE ~worth(p.system)
    <2>1. system = <<>> /\ <<>> \in Seq(Point)
      BY <1>5
    <2>2. Append(<<>>, t) = <<t>> /\ <<t>> \in Seq(Point)
      BY <1>2
    <2>3. Ahead(<<>>, reused, end)
      BY DEF Ahead
    <2>4. p.turn > reused => Ahead(<<t>>, reused, end)
      BY <1>1, <1>2 DEF Ahead
    <2>5. both => p.turn > reused
      OBVIOUS
    <2> HIDE DEF both, system
    <2> QED
      BY <1>3, <2>1, <2>2, <2>3, <2>4, <2>5
  <1> QED
    BY <1>4, <1>5

LEMMA AdmitStep ==
    ASSUME IInv, NEW i \in Slots, NEW p \in load.prompts, Admit(i, p)
    PROVE  IInv'
  <1> DEFINE seq == slot[i].seq
             reused == Matched(p.tokens)
             lender == Lender(p.tokens)
             tokens == p.tokens \o p.resume
             points == IF WholeOnly THEN Checkpoints(p, reused) ELSE <<>>
             maxGen == IF p.budget > 0 THEN p.budget ELSE PerSeq - Len(tokens)
             new == [Free(seq) EXCEPT !.job = TRUE, !.prompt = tokens, !.past = reused,
                                      !.maxGen = maxGen, !.points = points]
             emptied == Forget(cache, seq)
  <1>1. /\ Between /\ i \notin Busy
        /\ IF reused > 0 THEN cache' = Share(emptied, SeqOf(lender), seq, reused) /\ recent' = Touched(lender)
           ELSE cache' = emptied /\ recent' = recent
        /\ slot' = [slot EXCEPT ![i] = new]
        /\ load' = load /\ entry' = entry /\ phase' = phase
    BY DEF Admit
  <1>2. /\ Typed /\ Apart /\ HeadsSound /\ SlotsSound /\ EntriesSound /\ OnRecord
        /\ cache \in [Seqs -> Held] /\ slot \in [Slots -> SlotType] /\ load \in Loads
        /\ entry \in [Entries -> Known] /\ recent \in Seq(Entries)
    BY DEF IInv, Typed
  <1>3. seq \in Slots /\ seq \in Seqs
    BY <1>2, SlotIs
  <1>4. /\ p.tokens \in Seq(Tokens) /\ p.resume \in Seq(Tokens) /\ p.budget \in Nat
        /\ p.tokens # <<>> /\ Len(p.tokens) + Len(p.resume) < PerSeq /\ IsPrompt(p)
        /\ Len(p.tokens) \in Nat /\ Len(p.resume) \in Nat /\ Len(p.tokens) > 0
        /\ PerSeq \in Nat
    <2>1. IsPrompt(p)
      BY <1>2, LoadIs
    <2>2. /\ p.tokens \in Seq(Tokens) /\ p.resume \in Seq(Tokens) /\ p.budget \in Nat
          /\ p.tokens # <<>> /\ Len(p.tokens) + Len(p.resume) < PerSeq
      BY <2>1 DEF IsPrompt
    <2>3. Len(p.tokens) \in Nat \ {0} /\ Len(p.resume) \in Nat
      BY <2>2, EmptySeq, LenProperties
    <2>4. PerSeq \in Nat
      BY BoundsAssumption
    <2>5. Len(p.tokens) \in Nat /\ Len(p.tokens) > 0
      <3> DEFINE a == Len(p.tokens)
      <3>1. a \in Nat \ {0}
        BY <2>3
      <3> HIDE DEF a
      <3>2. a \in Nat /\ a > 0
        BY <3>1
      <3> QED
        BY <3>2 DEF a
    <2> HIDE DEF reused, lender, tokens, points, maxGen, new
    <2> QED
      BY <2>1, <2>2, <2>3, <2>4, <2>5
  <1>5. tokens \in Seq(Tokens) /\ Len(tokens) = Len(p.tokens) + Len(p.resume)
    BY <1>4, ConcatProperties
  <1>6. /\ reused \in Nat
        /\ reused > 0 => lender \in Filled /\ Lends(lender, p.tokens) = reused
    BY <1>2, <1>4, MatchedIs
  <1> HIDE DEF reused, lender
  <1>7. /\ reused <= Len(p.tokens) - 1
        /\ reused > 0 => /\ lender \in Entries /\ reused <= Len(entry[lender].tokens)
                         /\ Upto(entry[lender].tokens, reused) = Upto(p.tokens, reused)
                         /\ load.exact => reused = Len(entry[lender].tokens)
    <2>1. CASE reused > 0
      <3>1. lender \in Entries
        BY <1>6, <2>1 DEF Filled
      <3> QED
        BY <1>2, <1>4, <1>6, <2>1, <3>1, LendsIs
    <2>2. CASE ~(reused > 0)
      BY <1>4, <1>6, <2>2
    <2> QED
      BY <2>1, <2>2
  <1>8. reused \in 0 .. PerSeq /\ reused < PerSeq /\ reused < Len(tokens) /\ Len(tokens) <= PerSeq
        /\ Len(tokens) \in Nat /\ Len(p.tokens) <= Len(tokens)
    <2> DEFINE a == Len(p.tokens)
               b == Len(p.resume)
               c == Len(tokens)
    <2>1. a \in Nat /\ b \in Nat /\ a > 0 /\ a + b < PerSeq /\ c = a + b /\ reused <= a - 1
      BY <1>4, <1>5, <1>7
    <2> HIDE DEF a, b, c
    <2>2. /\ reused \in 0 .. PerSeq /\ reused < PerSeq /\ reused < c /\ c <= PerSeq /\ c \in Nat
          /\ a <= c
      BY <1>4, <1>6, <2>1
    <2> QED
      BY <2>2 DEF a, c
  <1>9. points \in Seq(Point) /\ Ahead(points, reused, Len(tokens))
    <2>1. CASE WholeOnly
      BY <1>4, <1>6, <1>8, <2>1, CheckpointsAre
    <2>2. CASE ~WholeOnly
      <3>1. <<>> \in Seq(Point) /\ Ahead(<<>>, reused, Len(tokens))
        BY EmptySeq DEF Ahead
      <3> QED
        BY <2>2, <3>1
    <2> QED
      BY <2>1, <2>2
  <1>10. maxGen \in Nat
    <2> HIDE DEF tokens
    <2>1. PerSeq - Len(tokens) \in Nat
      BY <1>4, <1>8
    <2> QED
      BY <1>4, <2>1
  <1>11. <<>> \in Seq(Tokens) /\ Text(new) = (tokens \o <<>>) \o <<>> /\ Text(new) = tokens
    <2>1. <<>> \in Seq(Tokens)
      BY EmptySeq
    <2>2. Text(new) = (tokens \o <<>>) \o <<>>
      BY DEF Text, Free
    <2> HIDE DEF tokens, new
    <2> QED
      BY <1>5, <2>1, <2>2, ConcatEmptySeq
  <1>12. /\ new \in SlotType /\ new.seq = seq /\ new.job /\ new.prompt = tokens /\ new.reply = <<>>
         /\ new.drafts = <<>> /\ new.past = reused /\ new.maxGen = maxGen /\ new.points = points
         /\ new.publish = <<>> /\ ~new.logits
    <2>1. Free(seq) \in SlotType
      BY <1>3, FreeIs
    <2> HIDE DEF tokens, maxGen, points, seq
    <2> QED
      BY <1>5, <1>8, <1>9, <1>10, <2>1 DEF SlotType, Free
  <1> HIDE DEF new, points, maxGen
  <1>13. Stands(new)
    BY <1>8, <1>9, <1>12 DEF Stands
  <1>14. emptied \in [Seqs -> Held] /\ emptied[seq] = Blank /\ \A s \in Seqs : s # seq => emptied[s] = cache[s]
    BY <1>2, <1>3, ForgetIs
  <1>15. Upto(tokens, reused) = Upto(p.tokens, reused)
    BY <1>4, <1>6, <1>7, UptoLonger
  <1> HIDE DEF emptied, seq, tokens
  <1>16. /\ cache' \in [Seqs -> Held] /\ cache'[seq].cells = Upto(tokens, reused)
         /\ Follows(cache'[seq]) /\ \A s \in Seqs : s # seq => cache'[s] = cache[s]
         /\ recent' \in Seq(Entries)
         /\ \A k \in DOMAIN recent : \E l \in DOMAIN recent' : recent'[l] = recent[k]
    <2>1. CASE reused > 0
      <3> DEFINE src == SeqOf(lender)
      <3>1. lender \in Entries /\ cache' = Share(emptied, src, seq, reused) /\ recent' = Touched(lender)
        BY <1>1, <1>7, <2>1
      <3>2. src \in Seqs /\ src \notin Slots /\ src # seq
        BY <1>2, <1>3, <3>1, LoadIs
      <3>3. cache[src].cells = entry[lender].tokens
        BY <1>2, <3>1 DEF EntriesSound, Pooled
      <3> HIDE DEF src
      <3>4. emptied[src] = cache[src] /\ Follows(cache[src])
        BY <1>2, <1>14, <3>2 DEF HeadsSound
      <3>5. /\ reused <= Len(emptied[src].cells)
            /\ load.exact => reused = Len(emptied[src].cells)
        BY <1>7, <2>1, <3>3, <3>4
      <3>6. /\ cache' \in [Seqs -> Held] /\ cache'[seq].cells = Upto(emptied[src].cells, reused)
            /\ Follows(emptied[src]) => Follows(cache'[seq])
            /\ \A s \in Seqs : s # seq => cache'[s] = emptied[s]
        BY <1>2, <1>3, <1>8, <1>14, <3>1, <3>2, <3>5, ShareIs
      <3>7. cache'[seq].cells = Upto(tokens, reused)
        BY <1>7, <1>15, <2>1, <3>3, <3>4, <3>6
      <3>8. /\ recent' \in Seq(Entries)
            /\ \A k \in DOMAIN recent : \E l \in DOMAIN recent' : recent'[l] = recent[k]
        BY <1>2, <3>1, TouchedIs
      <3> QED
        BY <1>14, <3>4, <3>6, <3>7, <3>8
    <2>2. CASE ~(reused > 0)
      <3>1. reused = 0 /\ cache' = emptied /\ recent' = recent
        BY <1>1, <1>6, <2>2
      <3>2. Upto(tokens, reused) = <<>>
        BY <1>5, <3>1, UptoNone
      <3> QED
        BY <1>2, <1>14, <3>1, <3>2, BlankIs
    <2> QED
      BY <2>1, <2>2
  <1>17. Sound(new, cache'[new.seq])
    BY <1>11, <1>12, <1>13, <1>16 DEF Sound
  <1>18. slot' \in [Slots -> SlotType] /\ SlotsSound' /\ Apart'
    <2>1. \A s \in Slots : s # new.seq => cache'[s] = cache[s]
      BY <1>2, <1>12, <1>16, LoadIs
    <2>2. new.seq = slot[i].seq
      BY <1>12 DEF seq
    <2> QED
      BY <1>1, <1>12, <1>17, <2>1, <2>2, SlotGoesOn
  <1>19. EntriesSound'
    <2> SUFFICES ASSUME NEW e \in Entries PROVE Pooled(entry'[e], cache'[SeqOf(e)])
      BY <1>1, PooledNow
    <2>1. SeqOf(e) \in Seqs /\ SeqOf(e) # seq
      BY <1>2, <1>3, LoadIs
    <2> QED
      BY <1>1, <1>2, <1>16, <2>1 DEF EntriesSound
  <1>20. HeadsSound'
    <2>1. \A s \in Seqs : Follows(cache'[s])
      BY <1>2, <1>16 DEF HeadsSound
    <2> QED
      BY <1>1, <2>1, FollowsNow
  <1>21. OnRecord'
    <2> SUFFICES ASSUME NEW e \in Entries, entry[e].tokens # <<>>
                 PROVE  \E k \in DOMAIN recent' : recent'[k] = e
      BY <1>1, SameLoad DEF OnRecord, Filled
    <2>1. \E k \in DOMAIN recent : recent[k] = e
      BY <1>2 DEF OnRecord, Filled
    <2> QED
      BY <1>16, <2>1
  <1>22. Typed'
    BY <1>1, <1>2, <1>16, <1>18, TypedNow DEF Typed
  <1>23. Quiet'
    BY <1>1 DEF Quiet, Between
  <1> QED
    BY <1>18, <1>19, <1>20, <1>21, <1>22, <1>23 DEF IInv

----------------------------------------------------------------------------
(* A batch.                                                                *)

\* How many drafts each reply may have is a number.
LEMMA EachIs ==
    ASSUME Typed, NEW i \in Generating
    PROVE  Each \in Nat
  <1> DEFINE n == Cardinality(Generating)
  <1>1. IsFiniteSet(Slots)
    <2>1. 1 \in Int /\ load.slots \in Int
      BY LoadIs DEF Typed
    <2> QED
      BY <2>1, FS_Interval DEF Slots
  <1>2. IsFiniteSet(Generating)
    <2>1. Generating \subseteq Slots
      BY DEF Generating, Busy
    <2> QED
      BY <1>1, <2>1, FS_Subset
  <1>3. n \in Nat /\ n # 0
    BY <1>2, FS_CardinalityType, FS_EmptySet
  <1>4. DraftPass \div n \in Nat
    <2> HIDE DEF n
    <2> QED
      BY <1>3, BoundsAssumption
  <1>5. Each = IF n > DraftingMost THEN 0
               ELSE IF DraftPass \div n > 2 THEN DraftPass \div n - 1 ELSE 1
    BY DEF Each
  <1> HIDE DEF n
  <1> QED
    BY <1>4, <1>5

\* Drafts fit the context and the reply.
LEMMA DraftsFit ==
    ASSUME Typed, NEW i \in Generating, NEW k \in Nat, k > 0, k <= Drafts(i)
    PROVE  slot[i].past + k < PerSeq /\ Len(slot[i].reply) + k < slot[i].maxGen
  <1> DEFINE a == PerSeq - slot[i].past - 1
             r == slot[i].maxGen - Len(slot[i].reply) - 1
             e == Smaller(Each, load.drafts)
  <1>1. i \in Slots
    BY DEF Generating, Busy
  <1>2. /\ slot[i].past \in Nat /\ slot[i].maxGen \in Nat /\ Len(slot[i].reply) \in Nat /\ PerSeq \in Nat
    BY <1>1, SlotIs, BoundsAssumption
  <1>3. a \in Int /\ r \in Int
    BY <1>2
  <1>4. e \in Int
    BY EachIs, LoadIs DEF Smaller, Typed
  <1>5. Allowance(i) = Smaller(a, r)
    BY DEF Allowance
  <1>6. Drafts(i) = Smaller(e, Smaller(a, r)) \/ Drafts(i) = 0
    BY <1>5 DEF Drafts
  <1> HIDE DEF e
  <1>7. k <= a /\ k <= r
    <2> HIDE DEF a, r
    <2> QED
      BY <1>3, <1>4, <1>6 DEF Smaller
  <1> QED
    BY SMTT(30), <1>2, <1>7

\* A reply that writes has begun, and stands one token before its end.
LEMMA WritesIs ==
    ASSUME IInv, Pending = {}, NEW i \in Busy
    PROVE  /\ i \in Slots /\ Stands(slot[i]) /\ slot[i].drafts = <<>> /\ ~slot[i].logits
           /\ Text(slot[i]) = Written(i) /\ cache[slot[i].seq].cells = Upto(Written(i), slot[i].past)
           /\ slot[i].publish = <<>> /\ slot[i].past < PerSeq
           /\ i \in Generating => /\ slot[i].reply # <<>> /\ slot[i].past + 1 = Len(Written(i))
                                  /\ slot[i].points = <<>>
           /\ i \notin Generating => /\ slot[i].reply = <<>> /\ Written(i) = slot[i].prompt
                                     /\ slot[i].past < Len(slot[i].prompt)
  <1>1. i \in Slots /\ slot[i].job /\ Typed /\ SlotsSound
    BY DEF Busy, IInv
  <1>2. /\ Stands(slot[i]) /\ cache[slot[i].seq].cells = Upto(Text(slot[i]), slot[i].past)
        /\ ~slot[i].logits /\ slot[i].publish = <<>>
    BY <1>1, NothingComes DEF SlotsSound, Sound
  <1>3. /\ slot[i].drafts = <<>> /\ slot[i].past < PerSeq
        /\ slot[i].reply = <<>> => slot[i].past < Len(slot[i].prompt)
        /\ slot[i].reply # <<>> => slot[i].past = Len(Text(slot[i])) - 1
        /\ Ahead(slot[i].points, slot[i].past, Len(slot[i].prompt))
    BY <1>2 DEF Stands
  <1>4. /\ Written(i) \in Seq(Tokens) /\ Text(slot[i]) = Written(i) \o slot[i].drafts
        /\ Len(Written(i)) = Len(slot[i].prompt) + Len(slot[i].reply)
        /\ slot[i].past \in Nat /\ slot[i].prompt \in Seq(Tokens) /\ slot[i].reply \in Seq(Tokens)
        /\ slot[i].points \in Seq(Point)
    BY <1>1, TextIs, SlotIs
  <1>5. Text(slot[i]) = Written(i)
    BY <1>3, <1>4, ConcatEmptySeq
  <1> DEFINE P == Len(slot[i].prompt)
             R == Len(slot[i].reply)
             W == Len(Written(i))
             past == slot[i].past
  <1>6. /\ P \in Nat /\ R \in Nat /\ W \in Nat /\ W = P + R /\ past \in Nat
        /\ slot[i].reply = <<>> => past < P
        /\ slot[i].reply # <<>> => past = W - 1 /\ R # 0
    BY <1>3, <1>4, <1>5, EmptySeq, LenProperties
  <1>7. i \in Generating <=> past >= P
    BY <1>1 DEF Generating, Busy
  <1> HIDE DEF P, R, W, past
  <1>8. i \in Generating <=> slot[i].reply # <<>>
    BY <1>6, <1>7
  <1>9. slot[i].reply # <<>> => past + 1 = W
    BY <1>6
  <1>10. slot[i].reply = <<>> => Written(i) = slot[i].prompt
    BY <1>4, ConcatEmptySeq DEF Written
  <1>11. ASSUME i \in Generating PROVE slot[i].points = <<>>
    <2> SUFFICES ASSUME slot[i].points # <<>> PROVE FALSE
      OBVIOUS
    <2> DEFINE pts == slot[i].points
    <2>1. pts \in Seq(Point) /\ pts # <<>> /\ Ahead(pts, past, P)
      BY <1>3, <1>4 DEF past, P
    <2> HIDE DEF pts
    <2>2. 1 \in DOMAIN pts /\ pts[1] \in Point
      <3>1. Len(pts) \in Nat \ {0} /\ DOMAIN pts = 1 .. Len(pts)
        BY <2>1, EmptySeq, LenProperties
      <3>2. 1 \in 1 .. Len(pts)
        BY <3>1
      <3> QED
        BY <2>1, <3>1, <3>2, ElementOfSeq
    <2>3. pts[1].pos > past /\ pts[1].pos <= P /\ pts[1].pos \in Nat
      BY <2>1, <2>2 DEF Ahead, Point
    <2> QED
      BY <1>6, <1>7, <1>11, <2>3
  <1>12. i \in Generating => slot[i].reply # <<>> /\ slot[i].past + 1 = Len(Written(i))
    BY <1>8, <1>9 DEF past, W
  <1>13. i \notin Generating => slot[i].reply = <<>> /\ slot[i].past < Len(slot[i].prompt)
    BY <1>6, <1>8 DEF past, P
  <1> QED
    BY <1>1, <1>2, <1>3, <1>5, <1>10, <1>11, <1>12, <1>13

\* A batch's piece of a slot is within its text, its context and its reply; a
\* piece of a prompt ends at the next checkpoint at the latest.
LEMMA PieceIs ==
    ASSUME IInv, Pending = {}, NEW i \in Busy, NEW pc \in Pieces(i)
    PROVE  /\ pc.drafts \in Seq(Tokens) /\ pc.n \in Nat
           /\ slot[i].past + pc.n <= PerSeq
           /\ i \in Generating => \/ pc.n = 0 /\ pc.drafts = <<>>
                                  \/ pc.n = Len(pc.drafts) + 1
           /\ i \notin Generating => pc.drafts = <<>> /\ slot[i].past + pc.n <= Reach(i)
           /\ pc.drafts # <<>> => Len(slot[i].reply) + Len(pc.drafts) < slot[i].maxGen
  <1>1. /\ i \in Slots /\ Typed /\ slot[i].past < PerSeq /\ Stands(slot[i])
        /\ i \notin Generating => slot[i].past < Len(slot[i].prompt)
    BY WritesIs DEF IInv
  <1>2. slot[i].past \in Nat /\ PerSeq \in Nat /\ Len(slot[i].prompt) \in Nat
    BY <1>1, SlotIs, BoundsAssumption
  <1>3. Len(slot[i].prompt) <= PerSeq /\ Ahead(slot[i].points, slot[i].past, Len(slot[i].prompt))
    BY <1>1 DEF Stands
  <1>4. <<>> \in Seq(Tokens) /\ Len(<<>>) = 0
    BY EmptySeq
  <1>5. CASE i \in Generating
    <2>1. CASE pc = [drafts |-> <<>>, n |-> 0]
      <3>1. pc.drafts = <<>> /\ pc.n = 0
        BY <2>1
      <3> QED
        BY <1>1, <1>2, <1>4, <1>5, <3>1
    <2>2. CASE pc # [drafts |-> <<>>, n |-> 0]
      <3>1. PICK d \in UNION {[1 .. k -> Tokens] : k \in 0 .. Drafts(i)} :
                pc = [drafts |-> d, n |-> Len(d) + 1]
        BY <1>5, <2>2 DEF Pieces
      <3>2. PICK k \in 0 .. Drafts(i) : d \in [1 .. k -> Tokens]
        OBVIOUS
      <3>3. k \in Nat /\ k <= Drafts(i)
        <4>1. Drafts(i) \in Int
          <5>1. slot[i].maxGen \in Nat /\ Len(slot[i].reply) \in Nat
            BY <1>1, SlotIs
          <5>2. PerSeq - slot[i].past - 1 \in Int /\ slot[i].maxGen - Len(slot[i].reply) - 1 \in Int
            BY SMTT(30), <1>2, <5>1
          <5>3. Allowance(i) \in Int
            BY <5>2 DEF Allowance, Smaller
          <5>4. Smaller(Each, load.drafts) \in Int
            BY <1>1, <1>5, EachIs, LoadIs DEF Smaller, Typed
          <5> QED
            BY <5>3, <5>4 DEF Drafts, Smaller
        <4> QED
          BY <4>1
      <3>4. d \in Seq(Tokens) /\ Len(d) = k
        BY <3>2, <3>3
      <3>5. pc.drafts = d /\ pc.n = k + 1
        BY <3>1, <3>4
      <3>6. k > 0 => slot[i].past + k < PerSeq /\ Len(slot[i].reply) + k < slot[i].maxGen
        BY <1>1, <1>5, <3>3, DraftsFit
      <3>7. d # <<>> => k > 0
        BY <3>2, <3>3, <3>4, EmptySeq
      <3>8. slot[i].past + (k + 1) <= PerSeq
        BY <1>1, <1>2, <3>3, <3>6
      <3> QED
        BY <1>5, <3>3, <3>4, <3>5, <3>6, <3>7, <3>8
    <2> QED
      BY <2>1, <2>2
  <1>6. CASE i \notin Generating
    <2>1. PICK n \in 0 .. Reach(i) - slot[i].past : pc = [drafts |-> <<>>, n |-> n]
      BY <1>6 DEF Pieces
    <2>2. Reach(i) \in Nat /\ Reach(i) <= Len(slot[i].prompt)
      <3> DEFINE pts == slot[i].points
      <3>1. pts \in Seq(Point)
        BY <1>1, SlotIs
      <3>2. CASE pts = <<>>
        BY <1>2, <3>2 DEF Reach
      <3>3. CASE pts # <<>>
        <4>1. Reach(i) = pts[1].pos /\ Ahead(pts, slot[i].past, Len(slot[i].prompt))
          BY <1>3, <3>3 DEF Reach
        <4> HIDE DEF pts
        <4>2. 1 \in DOMAIN pts /\ pts[1] \in Point
          <5>1. Len(pts) \in Nat \ {0} /\ DOMAIN pts = 1 .. Len(pts)
            BY <3>1, <3>3, EmptySeq, LenProperties
          <5>2. 1 \in 1 .. Len(pts)
            BY <5>1
          <5> QED
            BY <3>1, <5>1, <5>2, ElementOfSeq
        <4> QED
          BY <4>1, <4>2 DEF Ahead, Point
      <3> QED
        BY <3>2, <3>3
    <2>3. pc.drafts = <<>> /\ pc.n = n
      BY <2>1
    <2>4. n \in Nat /\ slot[i].past + n <= Reach(i) /\ slot[i].past + n <= PerSeq
      BY <1>2, <1>3, <2>2
    <2> QED
      BY <1>4, <1>6, <2>3, <2>4
  <1> QED
    BY <1>5, <1>6

\* What is read is the text's next piece.
LEMMA ReadsOn ==
    ASSUME IInv, Pending = {}, NEW i \in Busy, NEW b, b[i] \in Pieces(i)
    PROVE  LET t == Written(i) \o b[i].drafts
               past == slot[i].past + b[i].n
           IN  /\ t \in Seq(Tokens) /\ Len(t) = Len(Written(i)) + Len(b[i].drafts)
               /\ past \in Nat /\ past <= Len(t)
               /\ Piece(i, b) \in Seq(Tokens) /\ Len(Piece(i, b)) = b[i].n
               /\ cache[slot[i].seq].cells \o Piece(i, b) = Upto(t, past)
               /\ Len(cache[slot[i].seq].cells) = slot[i].past
  <1> DEFINE d == b[i].drafts
             n == b[i].n
             w == Written(i)
             t == w \o d
             p == slot[i].past
             q == cache[slot[i].seq].cells
  <1>1. /\ i \in Slots /\ Typed /\ Stands(slot[i]) /\ q = Upto(w, p)
        /\ i \in Generating => p + 1 = Len(w)
        /\ i \notin Generating => w = slot[i].prompt /\ p < Len(slot[i].prompt)
    BY WritesIs DEF IInv
  <1>2. /\ d \in Seq(Tokens) /\ n \in Nat
        /\ i \in Generating => (n = 0 /\ d = <<>>) \/ n = Len(d) + 1
        /\ i \notin Generating => d = <<>> /\ p + n <= Reach(i)
    BY PieceIs
  <1>3. w \in Seq(Tokens) /\ p \in Nat
    BY <1>1, TextIs, SlotIs
  <1>4. i \notin Generating => Reach(i) <= Len(slot[i].prompt)
    <2> DEFINE pts == slot[i].points
    <2>1. pts \in Seq(Point) /\ Ahead(pts, p, Len(slot[i].prompt)) /\ Len(slot[i].prompt) \in Nat
      BY <1>1, SlotIs DEF Stands
    <2>2. CASE pts = <<>>
      BY <2>1, <2>2 DEF Reach
    <2>3. CASE pts # <<>>
      <3>1. Reach(i) = pts[1].pos
        BY <2>3 DEF Reach
      <3> HIDE DEF pts
      <3>2. 1 \in DOMAIN pts
        <4>1. Len(pts) \in Nat \ {0} /\ DOMAIN pts = 1 .. Len(pts)
          BY <2>1, <2>3, EmptySeq, LenProperties
        <4> QED
          BY <4>1
      <3> QED
        BY <2>1, <3>1, <3>2 DEF Ahead
    <2> QED
      BY <2>2, <2>3
  <1>5. Piece(i, b) = SubSeq(t, p + 1, p + n)
    BY DEF Piece
  <1>6. /\ t \in Seq(Tokens) /\ Len(t) = Len(w) + Len(d) /\ Len(d) \in Nat /\ Len(w) \in Nat
    <2> HIDE DEF w, d
    <2> QED
      BY <1>2, <1>3, ConcatProperties, LenProperties
  <1>7. Reach(i) \in Int \/ i \in Generating
    <2> DEFINE pts == slot[i].points
    <2>1. pts \in Seq(Point) /\ Len(slot[i].prompt) \in Nat
      BY <1>1, SlotIs
    <2>2. CASE pts # <<>>
      <3>1. Reach(i) = pts[1].pos
        BY <2>2 DEF Reach
      <3> HIDE DEF pts
      <3>2. pts[1] \in Point
        <4>1. 1 \in 1 .. Len(pts)
          BY <2>1, <2>2, EmptySeq
        <4> QED
          BY <2>1, <4>1, ElementOfSeq
      <3> QED
        BY <3>1, <3>2 DEF Point
    <2> QED
      BY <2>1, <2>2 DEF Reach
  <1>8. p <= Len(w) /\ p + n <= Len(t) /\ p + n \in Nat
    <2> DEFINE W == Len(w)
               D == Len(d)
               L == Len(t)
               P == Len(slot[i].prompt)
    <2>1. /\ W \in Nat /\ D \in Nat /\ L = W + D /\ P \in Nat /\ p \in Nat /\ n \in Nat
          /\ i \in Generating => p + 1 = W /\ ((n = 0 /\ D = 0) \/ n = D + 1)
          /\ i \notin Generating => W = P /\ p < P /\ D = 0 /\ p + n <= Reach(i) /\ Reach(i) <= P /\ Reach(i) \in Int
      BY <1>1, <1>2, <1>3, <1>4, <1>6, <1>7, SlotIs, EmptySeq
    <2> HIDE DEF W, D, L, P, w, d, t, n, p
    <2>2. p <= W /\ p + n <= L /\ p + n \in Nat
      <3>1. CASE i \in Generating
        BY <2>1, <3>1
      <3>2. CASE i \notin Generating
        BY <2>1, <3>2
      <3> QED
        BY <3>1, <3>2
    <2> QED
      BY <2>2 DEF W, L
  <1> HIDE DEF w, d, n, p, q
  <1>9. Upto(t, p) = Upto(w, p)
    BY <1>2, <1>3, <1>8, UptoLonger
  <1> HIDE DEF t
  <1>10. /\ Upto(t, p) \o SubSeq(t, p + 1, p + n) = Upto(t, p + n)
         /\ SubSeq(t, p + 1, p + n) \in Seq(Tokens) /\ Len(SubSeq(t, p + 1, p + n)) = n
    <2>1. n \in Nat
      BY <1>2
    <2>2. t \in Seq(Tokens) /\ p + n <= Len(t) /\ p \in Nat
      BY <1>3, <1>6, <1>8
    <2> QED
      BY <2>1, <2>2, UptoPiece
  <1>11. Len(q) = p
    BY <1>1, <1>3, <1>8, UptoIs
  <1>12. /\ t \in Seq(Tokens) /\ Len(t) = Len(w) + Len(d) /\ p + n \in Nat /\ p + n <= Len(t)
         /\ Piece(i, b) \in Seq(Tokens) /\ Len(Piece(i, b)) = n
         /\ q \o Piece(i, b) = Upto(t, p + n) /\ Len(q) = p
    BY <1>1, <1>5, <1>6, <1>8, <1>9, <1>10, <1>11
  <1> QED
    BY <1>12 DEF t, w, d, n, p, q

\* What both caches are after a batch.
LEMMA CaughtIs ==
    ASSUME NEW c \in [Seqs -> Held], NEW i, slot[i].seq \in Seqs, NEW b, NEW lost,
           NEW p \in Nat, NEW n \in Nat, p + n <= PerSeq, slot[i].past = p, b[i].n = n,
           Piece(i, b) \in Seq(Tokens), Len(Piece(i, b)) = n,
           Len(c[slot[i].seq].cells) = p, Follows(c[slot[i].seq])
    PROVE  /\ Caught(c, i, b, lost) \in Held
           /\ Caught(c, i, b, lost).cells = c[slot[i].seq].cells \o Piece(i, b)
           /\ Follows(Caught(c, i, b, lost))
  <1> DEFINE q == c[slot[i].seq]
             read == Piece(i, b)
             dropped == [q EXCEPT !.cells = q.cells \o read, !.tracked = q.tracked /\ ~(Drafting /\ i \in lost)]
             kept == [q EXCEPT !.cells = q.cells \o read, !.head = q.head \o read,
                               !.upTo = IF read = <<>> THEN q.upTo ELSE p + n]
  <1>1. /\ q \in Held /\ q.cells \in Seq(Tokens) /\ q.head \in Seq(Tokens)
        /\ q.upTo \in 0 .. PerSeq /\ q.tracked \in BOOLEAN
    BY CacheIs
  <1>2. Caught(c, i, b, lost) = IF ~Drafting \/ ~q.tracked \/ i \in lost THEN dropped ELSE kept
    BY Zenon DEF Caught
  <1>3. /\ q.cells \o read \in Seq(Tokens) /\ Len(q.cells \o read) = p + n
        /\ q.head \o read \in Seq(Tokens)
    <2> HIDE DEF q, read
    <2>1. Len(q.cells) = p /\ Len(read) = n /\ read \in Seq(Tokens)
      BY DEF q, read
    <2>2. /\ q.cells \o read \in Seq(Tokens) /\ Len(q.cells \o read) = Len(q.cells) + Len(read)
          /\ q.head \o read \in Seq(Tokens)
      BY <1>1, <2>1, ConcatProperties
    <2> QED
      BY <2>1, <2>2
  <1>4. Follows(q) /\ Len(q.cells) = p /\ (read = <<>> => n = 0) /\ p + n \in 0 .. PerSeq
    BY BoundsAssumption, EmptySeq
  <1> HIDE DEF q, read
  <1>5. CASE ~Drafting \/ ~q.tracked \/ i \in lost
    <2>1. /\ dropped \in Held /\ dropped.cells = q.cells \o read
          /\ dropped.tracked = (q.tracked /\ ~(Drafting /\ i \in lost))
      BY <1>1, <1>3 DEF Held
    <2>2. ~(Drafting /\ dropped.tracked)
      BY <1>5, <2>1
    <2> HIDE DEF dropped
    <2>3. Follows(dropped)
      BY <2>2 DEF Follows
    <2>4. Caught(c, i, b, lost) = dropped
      BY <1>2, <1>5
    <2> QED
      BY <2>1, <2>3, <2>4 DEF q, read
  <1>6. CASE ~(~Drafting \/ ~q.tracked \/ i \in lost)
    <2>1. /\ kept \in Held /\ kept.cells = q.cells \o read /\ kept.head = q.head \o read
          /\ kept.upTo = IF read = <<>> THEN q.upTo ELSE p + n
      BY <1>1, <1>3, <1>4 DEF Held
    <2> HIDE DEF kept
    <2>2. q.head = q.cells /\ q.upTo = p
      BY <1>4, <1>6 DEF Follows
    <2>3. kept.upTo = p + n
      BY <1>4, <2>1, <2>2
    <2>4. Follows(kept)
      BY <1>3, <2>1, <2>2, <2>3 DEF Follows
    <2>5. Caught(c, i, b, lost) = kept
      BY <1>2, <1>6
    <2> QED
      BY <2>1, <2>4, <2>5 DEF q, read
  <1> QED
    BY <1>5, <1>6

\* A full cache takes the pool's sequences and nobody else's.
LEMMA GivenIs ==
    ASSUME IInv, load' = load, NEW clear \in BOOLEAN, Cleared(clear)
    PROVE  /\ Given(clear) \in [Seqs -> Held] /\ \A s \in Slots : Given(clear)[s] = cache[s]
           /\ \A s \in Seqs : Follows(Given(clear)[s])
           /\ \A e \in Entries : Pooled(entry'[e], Given(clear)[SeqOf(e)])
           /\ entry' \in [Entries -> Known] /\ recent' = recent /\ OnRecord'
  <1> DEFINE g == Given(clear)
  <1>1. /\ Typed /\ HeadsSound /\ EntriesSound /\ OnRecord /\ load \in Loads
        /\ cache \in [Seqs -> Held] /\ entry \in [Entries -> Known]
        /\ recent' = recent /\ entry' = (IF clear THEN [e \in Entries |-> Empty] ELSE entry)
    BY DEF IInv, Typed, Cleared
  <1>2. CASE ~clear
    <2>1. g = cache /\ entry' = entry
      BY <1>1, <1>2 DEF Given
    <2>2. OnRecord'
      BY <1>1, <2>1, SameLoad DEF OnRecord, Filled, Entries
    <2> QED
      BY <1>1, <2>1, <2>2, LoadIs DEF HeadsSound, EntriesSound
  <1>3. CASE clear
    <2>1. entry' = [e \in Entries |-> Empty]
      BY <1>1, <1>3
    <2>2. Empty \in Known /\ Empty.tokens = <<>> /\ ~Empty.shared
      BY EmptySeq DEF Empty, Known
    <2>3. \A s \in Seqs : Forget(cache, s)[s] = Blank
      BY <1>1, ForgetIs
    <2>4. g = [s \in Seqs |-> IF \E e \in Filled : s = SeqOf(e) THEN Forget(cache, s)[s] ELSE cache[s]]
      BY <1>3 DEF Given
    <2>5. \A s \in Seqs : g[s] = IF \E e \in Filled : s = SeqOf(e) THEN Blank ELSE cache[s]
      BY <2>3, <2>4
    <2>6. g = [s \in Seqs |-> g[s]]
      BY <2>4
    <2> HIDE DEF g
    <2>7. g \in [Seqs -> Held]
      <3>1. \A s \in Seqs : g[s] \in Held
        BY <1>1, <2>5, BlankIs
      <3> QED
        BY <2>6, <3>1
    <2>8. ASSUME NEW s \in Slots PROVE g[s] = cache[s]
      <3>1. s \in Seqs /\ \A e \in Filled : s # SeqOf(e)
        BY <1>1, LoadIs DEF Filled
      <3> QED
        BY <2>5, <3>1
    <2>9. \A s \in Seqs : Follows(g[s])
      BY <1>1, <2>5, BlankIs DEF HeadsSound
    <2>10. ASSUME NEW e \in Entries PROVE Pooled(entry'[e], g[SeqOf(e)])
      <3>1. SeqOf(e) \in Seqs /\ entry'[e] = Empty
        BY <1>1, <2>1, LoadIs
      <3>2. g[SeqOf(e)].cells = <<>>
        <4>1. CASE e \in Filled
          BY <2>5, <3>1, <4>1, BlankIs
        <4>2. CASE e \notin Filled
          <5>1. entry[e].tokens = <<>>
            BY <4>2 DEF Filled
          <5>2. cache[SeqOf(e)].cells = <<>>
            BY <1>1, <5>1 DEF EntriesSound, Pooled
          <5> QED
            BY <2>5, <3>1, <5>2, BlankIs
        <4> QED
          BY <4>1, <4>2
      <3> QED
        BY <2>2, <3>1, <3>2 DEF Pooled
    <2>11. entry' \in [Entries -> Known]
      BY <2>1, <2>2
    <2>12. OnRecord'
      <3>1. \A e \in Entries : entry'[e].tokens = <<>>
        BY <2>1, <2>2
      <3> QED
        BY <3>1, SameLoad DEF OnRecord, Filled
    <2> QED
      BY <1>1, <2>7, <2>8, <2>9, <2>10, <2>11, <2>12 DEF g
  <1> QED
    BY <1>2, <1>3


\* A batch that ends at a checkpoint leaves the others ahead, one that ends
\* before it leaves them all.
LEMMA PointsGoOn ==
    ASSUME NEW pts \in Seq(Point), pts # <<>>, NEW p \in Nat, NEW past \in Nat, NEW end \in Nat,
           Ahead(pts, p, end), past <= pts[1].pos
    PROVE  /\ pts[1] \in Point /\ pts[1].pos <= end /\ Tail(pts) \in Seq(Point)
           /\ pts[1].pos = past => Ahead(Tail(pts), past, end)
           /\ pts[1].pos # past => Ahead(pts, past, end)
  <1> DEFINE n == Len(pts)
             t == Tail(pts)
  <1>1. n \in Nat \ {0} /\ DOMAIN pts = 1 .. n
    BY EmptySeq, LenProperties
  <1> HIDE DEF n
  <1>2. 1 \in DOMAIN pts
    BY <1>1
  <1>3. \A k \in DOMAIN pts : pts[k] \in Point /\ pts[k].pos \in Nat
    <2>1. \A k \in DOMAIN pts : pts[k] \in Point
      BY <1>1, ElementOfSeq DEF n
    <2> QED
      BY <2>1 DEF Point
  <1>4. /\ \A k \in DOMAIN pts : pts[k].pos > p /\ pts[k].pos <= end
        /\ \A k \in DOMAIN pts : \A l \in DOMAIN pts : k < l => pts[k].pos < pts[l].pos
    BY DEF Ahead
  <1>5. \A k \in DOMAIN pts : pts[1].pos <= pts[k].pos
    <2> SUFFICES ASSUME NEW k \in DOMAIN pts PROVE pts[1].pos <= pts[k].pos
      OBVIOUS
    <2>1. k = 1 \/ 1 < k
      BY <1>1
    <2> QED
      BY <1>2, <1>3, <1>4, <2>1
  <1>6. /\ t \in Seq(Point) /\ DOMAIN t = 1 .. n - 1
        /\ \A k \in 1 .. n - 1 : t[k] = pts[k + 1]
    <2>1. /\ t \in Seq(Point) /\ Len(t) = Len(pts) - 1
          /\ \A k \in 1 .. Len(t) : t[k] = pts[k + 1]
      BY HeadTailProperties
    <2> HIDE DEF t
    <2>2. DOMAIN t = 1 .. Len(t)
      BY <2>1, LenProperties
    <2> QED
      BY <2>1, <2>2 DEF n
  <1> HIDE DEF t
  <1>7. \A k \in 1 .. n - 1 : k + 1 \in DOMAIN pts /\ 1 < k + 1
    BY <1>1
  <1>8. ASSUME pts[1].pos = past PROVE Ahead(t, past, end)
    <2>1. ASSUME NEW k \in DOMAIN t PROVE t[k].pos > past /\ t[k].pos <= end
      <3>1. k \in 1 .. n - 1 /\ k + 1 \in DOMAIN pts /\ t[k] = pts[k + 1] /\ 1 < k + 1
        BY <1>6, <1>7
      <3>2. pts[1].pos < pts[k + 1].pos
        BY <1>2, <1>4, <3>1
      <3> QED
        BY <1>3, <1>4, <1>8, <3>1, <3>2
    <2>2. ASSUME NEW k \in DOMAIN t, NEW l \in DOMAIN t, k < l PROVE t[k].pos < t[l].pos
      <3>1. /\ k \in 1 .. n - 1 /\ k + 1 \in DOMAIN pts /\ t[k] = pts[k + 1]
            /\ l \in 1 .. n - 1 /\ l + 1 \in DOMAIN pts /\ t[l] = pts[l + 1]
        BY <1>6, <1>7
      <3>2. k + 1 < l + 1
        BY <1>1, <2>2, <3>1
      <3> QED
        BY <1>4, <3>1, <3>2
    <2> QED
      BY <2>1, <2>2 DEF Ahead
  <1>9. ASSUME pts[1].pos # past PROVE Ahead(pts, past, end)
    <2>1. past < pts[1].pos
      BY <1>2, <1>3, <1>9
    <2>2. \A k \in DOMAIN pts : pts[k].pos > past
      BY <1>2, <1>3, <1>5, <2>1
    <2> QED
      BY <1>4, <2>2 DEF Ahead
  <1> QED
    BY <1>2, <1>3, <1>4, <1>6, <1>8, <1>9 DEF t

\* Where a slot stands after a batch: at the end of its text, in its prompt, or
\* where it was.
LEMMA ReadIs ==
    ASSUME IInv, Pending = {}, NEW i \in Busy, NEW b, b[i] \in Pieces(i)
    PROVE  /\ Read(i, b) \in SlotType /\ Read(i, b).seq = slot[i].seq /\ Read(i, b).job
           /\ Read(i, b).past = slot[i].past + b[i].n
           /\ Text(Read(i, b)) = Written(i) \o b[i].drafts
           /\ Stands(Read(i, b))
  <1> DEFINE sl == slot[i]
             d == b[i].drafts
             n == b[i].n
             past == sl.past + n
             pts == sl.points
             atPoint == pts # <<>> /\ pts[1].pos = past
             ends == n > 0 /\ past >= Len(sl.prompt)
             points == IF atPoint THEN Tail(pts) ELSE pts
             publish == IF atPoint THEN <<pts[1]>>
                        ELSE IF ends /\ i \notin Generating /\ ~WholeOnly
                        THEN <<[pos |-> past, shared |-> FALSE]>> ELSE <<>>
             r == [sl EXCEPT !.past = past, !.drafts = d, !.logits = ends,
                             !.points = points, !.publish = publish]
  <1>1. /\ i \in Slots /\ Typed /\ Stands(sl) /\ sl.past < PerSeq /\ sl.job
        /\ i \in Generating => sl.reply # <<>> /\ sl.past + 1 = Len(Written(i)) /\ pts = <<>>
        /\ i \notin Generating => /\ sl.reply = <<>> /\ Written(i) = sl.prompt
                                  /\ sl.past < Len(sl.prompt)
    BY WritesIs DEF IInv, Busy
  <1>2. /\ sl \in SlotType /\ sl.seq \in Slots /\ sl.prompt \in Seq(Tokens) /\ sl.reply \in Seq(Tokens)
        /\ sl.past \in Nat /\ pts \in Seq(Point) /\ Len(sl.prompt) \in Nat /\ Len(sl.reply) \in Nat
        /\ sl.maxGen \in Nat
    BY <1>1, SlotIs
  <1>3. /\ d \in Seq(Tokens) /\ n \in Nat /\ past <= PerSeq
        /\ i \in Generating => (n = 0 /\ d = <<>>) \/ n = Len(d) + 1
        /\ i \notin Generating => d = <<>> /\ past <= Reach(i)
        /\ d # <<>> => Len(sl.reply) + Len(d) < sl.maxGen
    BY PieceIs
  <1>4. i \in Generating <=> sl.past >= Len(sl.prompt)
    BY DEF Generating
  <1>5. Read(i, b) = r
    BY DEF Read
  <1>6. /\ Written(i) \o d \in Seq(Tokens) /\ Written(i) \in Seq(Tokens)
        /\ Len(Written(i) \o d) = Len(Written(i)) + Len(d) /\ Len(d) \in Nat /\ Len(Written(i)) \in Nat
    <2>1. Written(i) \in Seq(Tokens)
      BY <1>1, TextIs
    <2> HIDE DEF d
    <2> QED
      BY <1>3, <2>1, ConcatProperties, LenProperties
  <1>7. /\ Len(sl.prompt) <= PerSeq /\ Ahead(pts, sl.past, Len(sl.prompt))
        /\ sl.reply # <<>> => Len(sl.reply) < sl.maxGen
    BY <1>1 DEF Stands
  <1>8. Written(i) = sl.prompt \o sl.reply
    BY DEF Written
  <1>9. /\ i \in Generating => atPoint = FALSE
        /\ pts = <<>> => Reach(i) = Len(sl.prompt)
        /\ pts # <<>> => Reach(i) = pts[1].pos
        /\ d = <<>> => Len(d) = 0
    BY <1>1, EmptySeq DEF Reach
  <1>10. past \in Nat /\ PerSeq \in Nat
    BY <1>2, <1>3, BoundsAssumption
  <1>11. atPoint => pts # <<>> /\ pts[1].pos = past
    OBVIOUS
  <1>12. ends <=> n > 0 /\ past >= Len(sl.prompt)
    OBVIOUS
  <1>a. past = sl.past + n
    OBVIOUS
  <1> HIDE DEF sl, d, n, pts, past, ends
  \* The checkpoints.
  <1>13. /\ points \in Seq(Point) /\ publish \in Seq(Point)
         /\ Ahead(points, past, Len(sl.prompt))
         /\ publish # <<>> => publish[1].pos = past /\ past <= Len(sl.prompt)
         /\ i \notin Generating => past <= Len(sl.prompt)
    <2>1. CASE i \in Generating
      <3>1. points = <<>> /\ publish = <<>>
        BY <1>1, <1>9, <2>1
      <3>2. <<>> \in Seq(Point) /\ DOMAIN <<>> = {}
        BY EmptySeq
      <3> HIDE DEF points, publish
      <3> QED
        BY <2>1, <3>1, <3>2 DEF Ahead
    <2>2. CASE i \notin Generating /\ pts = <<>>
      <3>1. points = pts /\ past <= Len(sl.prompt)
        BY <1>3, <1>9, <2>2
      <3>2. <<>> \in Seq(Point) /\ DOMAIN <<>> = {}
        BY EmptySeq
      <3>3. Ahead(points, past, Len(sl.prompt))
        BY <2>2, <3>1, <3>2 DEF Ahead
      <3>4. publish \in {<<>>, <<[pos |-> past, shared |-> FALSE]>>}
        BY <2>2
      <3>5. [pos |-> past, shared |-> FALSE] \in Point
        BY <1>10 DEF Point
      <3>6. publish \in Seq(Point) /\ (publish # <<>> => publish[1].pos = past)
        BY <3>2, <3>4, <3>5
      <3> HIDE DEF points, publish
      <3> QED
        BY <1>2, <3>1, <3>3, <3>6
    <2>3. CASE i \notin Generating /\ pts # <<>>
      <3>1. past <= pts[1].pos
        BY <1>3, <1>9, <2>3
      <3>2. /\ pts[1] \in Point /\ pts[1].pos <= Len(sl.prompt) /\ Tail(pts) \in Seq(Point)
            /\ pts[1].pos = past => Ahead(Tail(pts), past, Len(sl.prompt))
            /\ pts[1].pos # past => Ahead(pts, past, Len(sl.prompt))
        BY <1>2, <1>7, <1>10, <2>3, <3>1, PointsGoOn
      <3>3. past <= Len(sl.prompt)
        <4>1. pts[1].pos \in Nat
          BY <3>2 DEF Point
        <4> QED
          BY <1>2, <1>10, <3>1, <3>2, <4>1
      <3>4. CASE pts[1].pos = past
        <4>1. points = Tail(pts) /\ publish = <<pts[1]>>
          BY <2>3, <3>4
        <4>2. <<pts[1]>> \in Seq(Point) /\ <<pts[1]>>[1] = pts[1]
          BY <3>2
        <4> HIDE DEF points, publish
        <4> QED
          BY <3>2, <3>3, <3>4, <4>1, <4>2
      <3>5. CASE pts[1].pos # past
        <4>1. points = pts /\ publish \in {<<>>, <<[pos |-> past, shared |-> FALSE]>>}
          BY <3>5
        <4>2. [pos |-> past, shared |-> FALSE] \in Point /\ <<>> \in Seq(Point)
          BY <1>10, EmptySeq DEF Point
        <4>3. publish \in Seq(Point) /\ (publish # <<>> => publish[1].pos = past)
          BY <4>1, <4>2
        <4> HIDE DEF points, publish
        <4> QED
          BY <1>2, <3>2, <3>3, <3>5, <4>1, <4>3
      <3> QED
        BY <3>4, <3>5
    <2> QED
      BY <2>1, <2>2, <2>3
  <1> HIDE DEF atPoint, points, publish
  <1>14. /\ r \in SlotType /\ r.seq = sl.seq /\ r.job /\ r.past = past /\ r.drafts = d
         /\ r.logits = ends /\ r.points = points /\ r.publish = publish
         /\ r.prompt = sl.prompt /\ r.reply = sl.reply /\ r.maxGen = sl.maxGen
    <2>1. past \in 0 .. PerSeq
      BY <1>3, <1>10
    <2>2. ends \in BOOLEAN
      BY DEF ends
    <2> QED
      BY <1>1, <1>2, <1>3, <1>13, <2>1, <2>2 DEF SlotType
  <1> HIDE DEF r
  <1>15. Text(r) = Written(i) \o d
    BY <1>8, <1>14 DEF Text
  <1>16. /\ ends => past = Len(Written(i)) + Len(d)
         /\ ~ends => /\ d = <<>> /\ past < PerSeq
                     /\ sl.reply = <<>> => past < Len(sl.prompt)
                     /\ sl.reply # <<>> => past = Len(Written(i)) + Len(d) - 1
    <2> DEFINE W == Len(Written(i))
               D == Len(d)
               P == Len(sl.prompt)
    <2>1. W \in Nat /\ D \in Nat /\ P \in Nat /\ P <= PerSeq /\ (d = <<>> => D = 0)
      BY <1>2, <1>6, <1>7, <1>9
    <2>2. CASE i \in Generating
      <3>1. /\ sl.past + 1 = W /\ sl.past >= P /\ sl.reply # <<>>
            /\ (n = 0 /\ d = <<>>) \/ n = D + 1
        BY <1>1, <1>3, <1>4, <2>2
      <3> HIDE DEF W, D, P
      <3>2. ends <=> n > 0 /\ past >= P
        BY <1>12 DEF P
      <3>3. CASE n = 0
        <4>1. d = <<>> /\ D = 0 /\ past = sl.past /\ ~ends
          BY <1>2, <1>a, <2>1, <3>1, <3>2, <3>3
        <4>2. past = W + D - 1
          BY <1>2, <2>1, <3>1, <4>1
        <4> QED
          BY <1>1, <3>1, <4>1, <4>2 DEF W, D, P
      <3>4. CASE n # 0
        <4>1. n = D + 1
          BY <3>1, <3>4
        <4>2. past = W + D
          BY SMTT(30), <1>2, <1>a, <2>1, <3>1, <4>1
        <4>3. n > 0 /\ past >= P
          BY <1>2, <1>a, <2>1, <3>1, <4>1
        <4>4. ends
          BY <3>2, <4>3
        <4> QED
          BY <4>2, <4>4 DEF W, D
      <3> QED
        BY <3>3, <3>4
    <2>3. CASE i \notin Generating
      <3>1. d = <<>> /\ D = 0 /\ W = P /\ sl.past < P /\ past <= P /\ sl.reply = <<>>
        BY <1>1, <1>3, <1>13, <2>1, <2>3
      <3> HIDE DEF W, D, P
      <3>2. ends <=> n > 0 /\ past >= P
        BY <1>12 DEF P
      <3>3. CASE ends
        <4>1. past = W + D
          BY <1>10, <2>1, <3>1, <3>2, <3>3
        <4> QED
          BY <3>3, <4>1 DEF W, D
      <3>4. CASE ~ends
        <4>1. past < P
          BY <1>2, <1>3, <1>a, <2>1, <3>1, <3>2, <3>4
        <4>2. past < PerSeq
          BY <1>10, <2>1, <4>1
        <4> QED
          BY <3>1, <3>4, <4>1, <4>2 DEF P
      <3> QED
        BY <3>3, <3>4
    <2> QED
      BY <2>2, <2>3
  <1>17. Stands(r)
    <2>1. Len(Text(r)) = Len(Written(i)) + Len(d)
      BY <1>6, <1>15
    <2>2. /\ r.logits => r.past = Len(Text(r))
          /\ ~r.logits => /\ r.drafts = <<>> /\ r.past < PerSeq
                          /\ r.reply = <<>> => r.past < Len(r.prompt)
                          /\ r.reply # <<>> => r.past = Len(Text(r)) - 1
      BY <1>14, <1>16, <2>1
    <2>3. /\ Len(r.prompt) <= PerSeq
          /\ r.reply # <<>> => Len(r.reply) < r.maxGen
          /\ r.drafts # <<>> => Len(r.reply) + Len(r.drafts) < r.maxGen
      BY <1>3, <1>7, <1>14
    <2>4. /\ Ahead(r.points, r.past, Len(r.prompt))
          /\ r.publish # <<>> => r.publish[1].pos = r.past /\ r.past <= Len(r.prompt)
      BY <1>13, <1>14
    <2> QED
      BY <2>2, <2>3, <2>4 DEF Stands
  <1> QED
    BY <1>5, <1>14, <1>15, <1>17 DEF sl, d, n, past

\* A batch that succeeds: every slot reads its piece, in both caches.
LEMMA StepStep ==
    ASSUME IInv, Step
    PROVE  IInv'
  <1>1. /\ Typed /\ Apart /\ SlotsSound /\ Pending = {} /\ load' = load /\ phase' = "admit"
        /\ load \in Loads /\ slot \in [Slots -> SlotType]
    BY DEF IInv, Step, Quiet, Typed
  <1>2. PICK b \in Batches, clear \in BOOLEAN :
            /\ Cleared(clear)
            /\ \E lost \in Lost(b) :
                cache' = [s \in Seqs |->
                            IF \E i \in Busy : slot[i].seq = s
                            THEN Caught(Given(clear), CHOOSE i \in Busy : slot[i].seq = s, b, lost)
                            ELSE Given(clear)[s]]
            /\ slot' = [i \in Slots |-> IF i \in Busy THEN Read(i, b) ELSE slot[i]]
    BY DEF Step
  <1> DEFINE g == Given(clear)
  <1>3. PICK lost \in Lost(b) :
            cache' = [s \in Seqs |->
                        IF \E i \in Busy : slot[i].seq = s
                        THEN Caught(g, CHOOSE i \in Busy : slot[i].seq = s, b, lost)
                        ELSE g[s]]
    BY <1>2
  <1>4. /\ g \in [Seqs -> Held] /\ \A s \in Slots : g[s] = cache[s]
        /\ \A s \in Seqs : Follows(g[s])
        /\ \A e \in Entries : Pooled(entry'[e], g[SeqOf(e)])
        /\ entry' \in [Entries -> Known] /\ recent' = recent /\ OnRecord'
    BY <1>1, <1>2, GivenIs
  <1> HIDE DEF g
  <1>5. \A i \in Busy : i \in Slots /\ slot[i].seq \in Slots /\ slot[i].seq \in Seqs /\ b[i] \in Pieces(i)
    <2>1. \A i \in Busy : b[i] \in Pieces(i)
      BY DEF Batches
    <2>2. \A i \in Busy : i \in Slots
      BY DEF Busy
    <2> QED
      BY <1>1, <2>1, <2>2, SlotIs
  <1>6. ASSUME NEW i \in Busy
        PROVE  (CHOOSE j \in Busy : slot[j].seq = slot[i].seq) = i
    BY <1>1, <1>5 DEF Apart
  <1>7. \A i \in Busy : cache'[slot[i].seq] = Caught(g, i, b, lost)
    BY <1>3, <1>5, <1>6
  <1>8. \A s \in Seqs : (\A i \in Busy : slot[i].seq # s) => cache'[s] = g[s]
    BY <1>3
  <1>9. ASSUME NEW i \in Busy
        PROVE  /\ cache'[slot[i].seq] \in Held /\ Follows(cache'[slot[i].seq])
               /\ cache'[slot[i].seq].cells = Upto(Written(i) \o b[i].drafts, slot[i].past + b[i].n)
    <2> DEFINE p == slot[i].past
               n == b[i].n
               s == slot[i].seq
    <2>1. /\ i \in Slots /\ s \in Slots /\ s \in Seqs /\ b[i] \in Pieces(i)
          /\ g[s] = cache[s] /\ Follows(g[s])
      BY <1>4, <1>5
    <2>2. p \in Nat /\ n \in Nat /\ p + n <= PerSeq
      BY <1>1, <2>1, SlotIs, PieceIs
    <2>3. /\ Piece(i, b) \in Seq(Tokens) /\ Len(Piece(i, b)) = n /\ Len(cache[s].cells) = p
          /\ cache[s].cells \o Piece(i, b) = Upto(Written(i) \o b[i].drafts, p + n)
      BY <1>1, <2>1, ReadsOn
    <2>4. /\ Caught(g, i, b, lost) \in Held /\ Follows(Caught(g, i, b, lost))
          /\ Caught(g, i, b, lost).cells = g[s].cells \o Piece(i, b)
      <3>1. slot[i].past = p /\ b[i].n = n /\ slot[i].seq = s
        OBVIOUS
      <3>2. Len(g[s].cells) = p
        BY <2>1, <2>3
      <3>3. g \in [Seqs -> Held] /\ Follows(g[s]) /\ s \in Seqs
        BY <1>4, <2>1
      <3>4. Piece(i, b) \in Seq(Tokens) /\ Len(Piece(i, b)) = n
        BY <2>3
      <3> HIDE DEF p, n, s
      <3> QED
        BY <2>2, <3>1, <3>2, <3>3, <3>4, CaughtIs
    <2> QED
      BY <1>7, <2>1, <2>3, <2>4
  <1>10. /\ cache' \in [Seqs -> Held]
         /\ \A s \in Seqs : Follows(cache'[s])
    <2>1. \A s \in Seqs : cache'[s] \in Held /\ Follows(cache'[s])
      <3> SUFFICES ASSUME NEW s \in Seqs PROVE cache'[s] \in Held /\ Follows(cache'[s])
        OBVIOUS
      <3>1. CASE \E i \in Busy : slot[i].seq = s
        BY <1>9, <3>1
      <3>2. CASE ~\E i \in Busy : slot[i].seq = s
        BY <1>4, <1>8, <3>2
      <3> QED
        BY <3>1, <3>2
    <2>2. cache' = [s \in Seqs |-> cache'[s]]
      BY <1>3
    <2> QED
      BY <2>1, <2>2
  <1>11. HeadsSound'
    BY <1>1, <1>10, FollowsNow
  <1>12. EntriesSound'
    <2> SUFFICES ASSUME NEW e \in Entries PROVE Pooled(entry'[e], cache'[SeqOf(e)])
      BY <1>1, PooledNow
    <2>1. SeqOf(e) \in Seqs /\ SeqOf(e) \notin Slots
      BY <1>1, LoadIs
    <2>2. cache'[SeqOf(e)] = g[SeqOf(e)]
      BY <1>5, <1>8, <2>1
    <2> QED
      BY <1>4, <2>2
  <1>13. ASSUME NEW i \in Slots
         PROVE  /\ slot'[i] \in SlotType /\ slot'[i].seq = slot[i].seq
                /\ Sound(slot'[i], cache'[slot'[i].seq])
    <2>1. CASE i \in Busy
      <3>1. slot'[i] = Read(i, b)
        BY <1>2, <2>1
      <3>2. /\ Read(i, b) \in SlotType /\ Read(i, b).seq = slot[i].seq /\ Read(i, b).job
            /\ Read(i, b).past = slot[i].past + b[i].n
            /\ Text(Read(i, b)) = Written(i) \o b[i].drafts
            /\ Stands(Read(i, b))
        BY <1>1, <1>5, <2>1, ReadIs
      <3>3. cache'[slot[i].seq].cells = Upto(Written(i) \o b[i].drafts, slot[i].past + b[i].n)
        BY <1>9, <2>1
      <3>4. Sound(Read(i, b), cache'[slot[i].seq])
        BY <3>2, <3>3 DEF Sound
      <3> QED
        BY <3>1, <3>2, <3>4
    <2>2. CASE i \notin Busy
      <3>1. slot'[i] = slot[i] /\ slot[i].seq \in Slots /\ slot[i].seq \in Seqs /\ ~slot[i].job
        BY <1>1, <1>2, <2>2, SlotIs DEF Busy
      <3>2. \A j \in Busy : slot[j].seq # slot[i].seq
        BY <1>1, <1>5, <2>2 DEF Apart
      <3>3. cache'[slot[i].seq] = cache[slot[i].seq]
        BY <1>4, <1>8, <3>1, <3>2
      <3>4. Sound(slot[i], cache[slot[i].seq])
        BY <1>1 DEF SlotsSound
      <3> QED
        BY <1>1, <3>1, <3>3, <3>4
    <2> QED
      BY <2>1, <2>2
  <1>14. slot' \in [Slots -> SlotType]
    <2>1. slot' = [i \in Slots |-> slot'[i]]
      BY <1>2
    <2> QED
      BY <1>13, <2>1
  <1>15. SlotsSound'
    BY <1>1, <1>13, SoundNow
  <1>16. Apart'
    BY <1>1, <1>13, SameLoad DEF Apart
  <1>17. Typed'
    <2>1. recent' \in Seq(Entries)
      BY <1>1, <1>4 DEF Typed
    <2> QED
      BY <1>1, <1>4, <1>10, <1>14, <2>1, TypedNow
  <1>18. Quiet'
    BY <1>1 DEF Quiet
  <1> QED
    BY <1>4, <1>11, <1>12, <1>15, <1>16, <1>17, <1>18 DEF IInv

\* A batch that fails ends every reply.
LEMMA StepFailsStep ==
    ASSUME IInv, StepFails
    PROVE  IInv'
  <1>1. /\ Typed /\ Apart /\ SlotsSound /\ load' = load /\ phase' = "admit" /\ load \in Loads
        /\ slot' = [i \in Slots |-> Free(slot[i].seq)]
    BY DEF IInv, StepFails, Typed
  <1>2. PICK clear \in BOOLEAN :
            /\ Cleared(clear)
            /\ cache' = [s \in Seqs |-> IF \E i \in Busy : slot[i].seq = s THEN Blank ELSE Given(clear)[s]]
    BY DEF StepFails
  <1> DEFINE g == Given(clear)
  <1>3. /\ g \in [Seqs -> Held] /\ \A s \in Slots : g[s] = cache[s]
        /\ \A s \in Seqs : Follows(g[s])
        /\ \A e \in Entries : Pooled(entry'[e], g[SeqOf(e)])
        /\ entry' \in [Entries -> Known] /\ recent' = recent /\ OnRecord'
    BY <1>1, <1>2, GivenIs
  <1>4. cache' = [s \in Seqs |-> IF \E i \in Busy : slot[i].seq = s THEN Blank ELSE g[s]]
    BY <1>2
  <1> HIDE DEF g
  <1>5. cache' \in [Seqs -> Held] /\ HeadsSound'
    <2>1. \A s \in Seqs : cache'[s] \in Held /\ Follows(cache'[s])
      BY <1>3, <1>4, BlankIs
    <2>2. cache' = [s \in Seqs |-> cache'[s]]
      BY <1>4
    <2> QED
      BY <1>1, <2>1, <2>2, FollowsNow
  <1>6. EntriesSound'
    <2> SUFFICES ASSUME NEW e \in Entries PROVE Pooled(entry'[e], cache'[SeqOf(e)])
      BY <1>1, PooledNow
    <2>1. SeqOf(e) \in Seqs /\ SeqOf(e) \notin Slots
      BY <1>1, LoadIs
    <2>2. \A i \in Busy : slot[i].seq # SeqOf(e)
      BY <1>1, <2>1, SlotIs DEF Busy
    <2>3. cache'[SeqOf(e)] = g[SeqOf(e)]
      BY <1>4, <2>1, <2>2
    <2> QED
      BY <1>3, <2>3
  <1>7. ASSUME NEW i \in Slots
        PROVE  /\ slot'[i] \in SlotType /\ slot'[i].seq = slot[i].seq
               /\ Sound(slot'[i], cache'[slot'[i].seq])
    <2>1. slot[i].seq \in Slots /\ slot[i].seq \in Seqs
      BY <1>1, SlotIs
    <2>2. slot'[i] \in SlotType /\ slot'[i].seq = slot[i].seq /\ ~slot'[i].job
      BY <1>1, <2>1, FreeIs
    <2>3. cache'[slot[i].seq] = Blank
      <3>1. CASE i \in Busy
        BY <1>4, <2>1, <3>1
      <3>2. CASE i \notin Busy
        <4>1. cache[slot[i].seq] = Blank
          BY <1>1, <3>2 DEF SlotsSound, Sound, Busy
        <4> QED
          BY <1>3, <1>4, <2>1, <4>1
      <3> QED
        BY <3>1, <3>2
    <2> QED
      BY <2>2, <2>3 DEF Sound
  <1>8. slot' \in [Slots -> SlotType]
    <2>1. slot' = [i \in Slots |-> slot'[i]]
      BY <1>1
    <2> QED
      BY <1>7, <2>1
  <1>9. SlotsSound' /\ Apart'
    BY <1>1, <1>7, SoundNow, SameLoad DEF Apart
  <1>10. Typed'
    <2>1. recent' \in Seq(Entries)
      BY <1>1, <1>3 DEF Typed
    <2> QED
      BY <1>1, <1>3, <1>5, <1>8, <2>1, TypedNow
  <1>11. Quiet'
    BY <1>1 DEF Quiet
  <1> QED
    BY <1>3, <1>5, <1>6, <1>9, <1>10, <1>11 DEF IInv

----------------------------------------------------------------------------
(* The invariant.                                                          *)

LEMMA InitIs == Init => IInv
  <1> SUFFICES ASSUME Init PROVE IInv
    OBVIOUS
  <1>1. /\ load \in Loads /\ recent = <<>> /\ phase = "admit"
        /\ \A s \in Seqs : cache[s] = Blank
        /\ \A i \in Slots : slot[i] = Free(i) /\ i \in Seqs
        /\ \A e \in Entries : entry[e] = Empty /\ SeqOf(e) \in Seqs
    BY LoadIs DEF Init
  <1>2. Empty \in Known /\ Empty.tokens = <<>> /\ ~Empty.shared /\ <<>> \in Seq(Entries)
    BY EmptySeq DEF Empty, Known
  <1>3. Typed
    <2>1. cache \in [Seqs -> Held]
      BY BlankIs DEF Init
    <2>2. slot \in [Slots -> SlotType]
      BY FreeIs DEF Init
    <2>3. entry \in [Entries -> Known]
      BY <1>2 DEF Init
    <2> QED
      BY <1>1, <1>2, <2>1, <2>2, <2>3 DEF Typed
  <1>4. SlotsSound /\ Apart
    BY <1>1, FreeIs DEF SlotsSound, Sound, Apart
  <1>5. EntriesSound
    BY <1>1, <1>2, BlankIs DEF EntriesSound, Pooled
  <1>6. HeadsSound
    BY <1>1, BlankIs DEF HeadsSound
  <1>7. OnRecord /\ Quiet
    BY <1>1, <1>2 DEF OnRecord, Filled, Quiet
  <1> QED
    BY <1>3, <1>4, <1>5, <1>6, <1>7 DEF IInv

\* Nothing changes.
LEMMA Stutter ==
    ASSUME IInv, UNCHANGED vars
    PROVE  IInv'
  <1>1. /\ Typed /\ Apart /\ HeadsSound /\ SlotsSound /\ Quiet /\ load' = load /\ phase' = phase
        /\ cache' = cache /\ slot' = slot /\ entry' = entry /\ recent' = recent
    BY DEF IInv, vars, pool
  <1>2. Typed'
    BY <1>1, TypedNow DEF Typed
  <1>3. EntriesSound' /\ OnRecord'
    BY <1>1, PoolStays DEF pool
  <1>4. SlotsSound' /\ HeadsSound' /\ Apart'
    BY <1>1, SoundNow, FollowsNow, SameLoad DEF SlotsSound, HeadsSound, Apart
  <1>5. Quiet'
    BY <1>1, SameLoad DEF Quiet, Pending, Busy
  <1> QED
    BY <1>2, <1>3, <1>4, <1>5 DEF IInv

LEMMA NextKeeps == IInv /\ [Next]_vars => IInv'
  <1> SUFFICES ASSUME IInv, [Next]_vars PROVE IInv'
    OBVIOUS
  <1>1. CASE \E i \in Slots, p \in load.prompts : Admit(i, p)
    BY <1>1, AdmitStep
  <1>2. CASE Admitted
    <2>1. Pending = {} /\ phase' \in {"admit", "compact", "step"}
      BY <1>2 DEF Admitted, Between
    <2> QED
      BY <1>2, <2>1, PhaseStep DEF Admitted
  <1>3. CASE Compact
    BY <1>3, CompactStep
  <1>4. CASE Step
    BY <1>4, StepStep
  <1>5. CASE StepEmpty
    <2>1. Pending = {} /\ phase' \in {"admit", "compact", "step"}
      BY <1>5 DEF StepEmpty, Pending
    <2> QED
      BY <1>5, <2>1, PhaseStep DEF StepEmpty
  <1>6. CASE StepFails
    BY <1>6, StepFailsStep
  <1>7. CASE \E i \in Slots : Cancel(i) \/ Publish(i) \/ Finish(i) \/ CannotGoBack(i)
    BY <1>7, CancelStep, PublishStep, FinishStep
  <1>8. CASE \E i \in Slots, m \in 0 .. load.drafts, tok \in Tokens : GoesOn(i, m, tok)
    <2>1. \A m \in 0 .. load.drafts : m \in Nat
      BY LoadIs DEF IInv, Typed
    <2> QED
      BY <1>8, <2>1, GoesOnStep
  <1>9. CASE UNCHANGED vars
    BY <1>9, Stutter
  <1> QED
    BY <1>1, <1>2, <1>3, <1>4, <1>5, <1>6, <1>7, <1>8, <1>9 DEF Next

LEMMA Inductive == Spec => []IInv
  <1> QED
    BY InitIs, NextKeeps, PTL DEF Spec

\* A reply stands where CellsAreText says, and its checkpoints ahead.
LEMMA RepliesAreText == IInv => CellsAreText /\ IdleHoldsNothing /\ PointsAhead
  <1> SUFFICES ASSUME IInv PROVE CellsAreText /\ IdleHoldsNothing /\ PointsAhead
    OBVIOUS
  <1>1. Typed /\ SlotsSound
    BY DEF IInv
  <1>2. ASSUME NEW i \in Busy
        PROVE  /\ i \in Slots /\ Stands(slot[i])
               /\ cache[slot[i].seq].cells = Upto(Text(slot[i]), slot[i].past)
               /\ Text(slot[i]) = Written(i) \o slot[i].drafts
    <2>1. i \in Slots /\ slot[i].job
      BY DEF Busy
    <2> QED
      BY <1>1, <2>1, TextIs DEF SlotsSound, Sound
  <1>3. CellsAreText
    <2> SUFFICES ASSUME NEW i \in Busy
                 PROVE  LET text == Written(i) \o slot[i].drafts
                        IN  /\ cache[slot[i].seq].cells = Upto(text, slot[i].past)
                            /\ IF slot[i].logits THEN slot[i].past = Len(text)
                               ELSE IF slot[i].reply = <<>> THEN slot[i].past < Len(slot[i].prompt)
                               ELSE slot[i].past = Len(text) - 1
      BY DEF CellsAreText
    <2> QED
      BY <1>2 DEF Stands
  <1>4. IdleHoldsNothing
    BY <1>1 DEF IdleHoldsNothing, SlotsSound, Sound, Busy
  <1>5. PointsAhead
    BY <1>2 DEF PointsAhead, Stands, Ahead
  <1> QED
    BY <1>3, <1>4, <1>5

\* A context holds text and nothing else (scheduler.go, prefix.go, draft.go):
\* of every reply its own as far as it was read, whatever was adopted, drafted,
\* rejected, moved or pooled; of every pool entry the prompt it is said to hold;
\* of a slot without a reply nothing; and no checkpoint is passed unpooled.
THEOREM TextKept == Spec => []CachesAreText
  <1>1. IInv => CachesAreText
    <2> SUFFICES ASSUME IInv PROVE CachesAreText
      OBVIOUS
    <2>1. /\ Typed /\ EntriesSound /\ cache \in [Seqs -> Held] /\ entry \in [Entries -> Known]
      BY DEF IInv, Typed
    <2>2. TypeOK
      <3>1. \A s \in Seqs : /\ cache[s].cells \in Seq(Tokens) /\ cache[s].head \in Seq(Tokens)
                            /\ cache[s].upTo \in 0 .. PerSeq /\ cache[s].tracked \in BOOLEAN
        BY <2>1, CacheIs
      <3>2. \A i \in Slots : /\ slot[i].past \in 0 .. PerSeq /\ slot[i].seq \in Slots
                             /\ slot[i].prompt \in Seq(Tokens) /\ slot[i].reply \in Seq(Tokens)
                             /\ slot[i].drafts \in Seq(Tokens)
        BY <2>1, SlotIs, BoundsAssumption
      <3>3. \A e \in Entries : entry[e].tokens \in Seq(Tokens) /\ entry[e].shared \in BOOLEAN
        BY <2>1, EntryIs
      <3> QED
        BY <2>1, <3>1, <3>2, <3>3 DEF TypeOK, Typed
    <2>3. EntriesAreText
      BY <2>1 DEF EntriesSound, EntriesAreText, Pooled
    <2> QED
      BY <2>2, <2>3, RepliesAreText DEF CachesAreText
  <1> QED
    BY <1>1, Inductive, PTL

\* What drafting adds is true (draft.go): the head holds what the model does
\* wherever it is believed to, after failed passes, rejected drafts and
\* adoption; and no draft takes a slot past what it holds or a reply past its
\* budget.
THEOREM HeadKept == Spec => []DraftsFollow
  <1>1. IInv => DraftsFollow
    <2> SUFFICES ASSUME IInv PROVE DraftsFollow
      OBVIOUS
    <2>1. HeadFollows
      BY DEF IInv, HeadsSound, Follows, HeadFollows
    <2>2. ASSUME NEW i \in Busy
          PROVE  /\ Len(cache[slot[i].seq].cells) <= PerSeq
                 /\ Len(slot[i].reply) < slot[i].maxGen \/ slot[i].reply = <<>>
                 /\ slot[i].drafts # <<>> => Len(slot[i].reply \o slot[i].drafts) < slot[i].maxGen
      <3>1. i \in Slots /\ slot[i].job /\ Typed /\ SlotsSound
        BY DEF Busy, IInv
      <3>2. /\ Stands(slot[i]) /\ cache[slot[i].seq].cells = Upto(Text(slot[i]), slot[i].past)
            /\ Text(slot[i]) \in Seq(Tokens) /\ Len(Text(slot[i])) \in Nat
        BY <3>1, TextIs, LenProperties DEF SlotsSound, Sound
      <3>3. /\ slot[i].past \in Nat /\ slot[i].past <= PerSeq /\ PerSeq \in Nat
            /\ slot[i].reply \in Seq(Tokens) /\ slot[i].drafts \in Seq(Tokens)
        BY <3>1, SlotIs, BoundsAssumption
      <3>4. Len(cache[slot[i].seq].cells) <= PerSeq
        <4>1. Len(Upto(Text(slot[i]), slot[i].past)) =
                  IF slot[i].past <= Len(Text(slot[i])) THEN slot[i].past ELSE Len(Text(slot[i]))
          BY <3>2, <3>3, UptoIs
        <4> DEFINE a == Len(Upto(Text(slot[i]), slot[i].past))
                   c == Len(Text(slot[i]))
        <4>2. a = (IF slot[i].past <= c THEN slot[i].past ELSE c) /\ c \in Nat
          BY <3>2, <4>1
        <4> HIDE DEF a, c
        <4>3. a <= PerSeq
          BY <3>3, <4>2
        <4> QED
          BY <3>2, <4>3 DEF a
      <3>5. Len(slot[i].reply \o slot[i].drafts) = Len(slot[i].reply) + Len(slot[i].drafts)
        BY <3>3, ConcatProperties
      <3> QED
        BY <3>2, <3>4, <3>5 DEF Stands
    <2>3. WithinContext
      BY <2>2 DEF WithinContext
    <2> QED
      BY <2>1, <2>3 DEF DraftsFollow
  <1> QED
    BY <1>1, Inductive, PTL

----------------------------------------------------------------------------
(* The system prompts of an exact pool.                                    *)

Kept(p) == \E q \in Systems' : Upto(q, Len(p)) = p

\* One whose entry is left alone is kept, as it is.
LEMMA LeftAlone ==
    ASSUME Typed, load' = load, NEW f \in Entries, entry[f].shared, entry'[f] = entry[f]
    PROVE  Kept(entry[f].tokens)
  <1>1. entry[f].tokens \in Seq(Tokens) /\ Len(entry[f].tokens) \in Nat
    BY EntryIs
  <1>2. Upto(entry[f].tokens, Len(entry[f].tokens)) = entry[f].tokens
    BY <1>1, UptoAll
  <1>3. entry[f].tokens \in Systems'
    BY SameLoad DEF Systems
  <1> QED
    BY <1>2, <1>3 DEF Kept

LEMMA AllStay ==
    ASSUME Typed, load' = load, entry' = entry, NEW p \in Systems
    PROVE  Kept(p)
  <1>1. PICK f \in Entries : entry[f].shared /\ p = entry[f].tokens
    BY DEF Systems
  <1> QED
    BY <1>1, LeftAlone

\* A prompt that is pooled takes the place of one it continues, or of a
\* conversation while there is one.
LEMMA PutKeeps ==
    ASSUME IInv, load' = load, load.exact, NEW s, NEW tokens \in Seq(Tokens), NEW shared \in BOOLEAN,
           Put(s, tokens, shared), NEW p \in Systems
    PROVE  Kept(p) \/ \A e \in Entries : entry[e].shared
  <1>1. /\ Typed /\ OnRecord /\ EntriesSound /\ entry \in [Entries -> Known]
    BY DEF IInv, Typed
  <1>2. CASE load.entries = 0 \/ Len(tokens) < MinMatch
    <2>1. entry' = entry
      BY <1>2 DEF Put, pool
    <2> QED
      BY <1>1, <2>1, AllStay
  <1>3. CASE ~(load.entries = 0 \/ Len(tokens) < MinMatch)
    <2> DEFINE e == Victim(tokens, shared)
               new == [tokens |-> tokens, shared |-> shared]
    <2>1. IF entry[e].tokens = tokens THEN entry' = entry ELSE entry' = [entry EXCEPT ![e] = new]
      BY <1>3 DEF Put
    <2>2. /\ e \in Entries
          /\ \/ Ends(e, tokens, shared)
             \/ load.exact => ~entry[e].shared \/ \A f \in Entries : entry[f].shared
      BY <1>1, <1>3, VictimIs
    <2> HIDE DEF e
    <2>3. CASE entry[e].tokens = tokens
      BY <1>1, <2>1, <2>3, AllStay
    <2>4. CASE entry[e].tokens # tokens
      <3>1. /\ entry'[e] = new /\ new.tokens = tokens /\ new.shared = shared
            /\ \A f \in Entries : f # e => entry'[f] = entry[f]
        BY <1>1, <2>1, <2>2, <2>4
      <3> HIDE DEF new
      <3>2. PICK f \in Entries : entry[f].shared /\ p = entry[f].tokens
        BY DEF Systems
      <3>3. CASE f # e
        BY <1>1, <3>1, <3>2, <3>3, LeftAlone
      <3>4. CASE f = e /\ ~Ends(e, tokens, shared)
        BY <2>2, <3>2, <3>4
      <3>5. CASE f = e /\ Ends(e, tokens, shared)
        <4>1. entry[e].tokens # <<>>
          BY <1>1, <2>2, <3>2, <3>5 DEF EntriesSound, Pooled
        <4>2. Continues(tokens, e) /\ entry[e].shared = shared
          BY <2>4, <3>5, <4>1 DEF Ends
        <4>3. entry[e].tokens \in Seq(Tokens) /\ Len(entry[e].tokens) \in Nat
          BY <1>1, <2>2, EntryIs
        <4>4. Upto(entry[e].tokens, Len(entry[e].tokens)) = Upto(tokens, Len(entry[e].tokens))
          BY <4>2, <4>3, CommonIs DEF Continues
        <4>5. Upto(entry[e].tokens, Len(entry[e].tokens)) = entry[e].tokens
          BY <4>3, UptoAll
        <4>6. Upto(tokens, Len(p)) = p
          BY <3>2, <3>5, <4>4, <4>5
        <4>7. tokens \in Systems'
          BY <2>2, <3>1, <3>2, <3>5, <4>2, SameLoad DEF Systems
        <4> QED
          BY <4>6, <4>7 DEF Kept
      <3> QED
        BY <3>3, <3>4, <3>5
    <2> QED
      BY <2>3, <2>4
  <1> QED
    BY <1>2, <1>3

\* A pool that is taken back is empty.
LEMMA ClearedIs ==
    ASSUME load' = load, NEW clear \in BOOLEAN, Cleared(clear)
    PROVE  entry' = entry \/ Filled' = {}
  <1>1. CASE clear
    <2>1. \A e \in Entries : entry'[e].tokens = <<>>
      BY <1>1 DEF Cleared, Empty
    <2> QED
      BY <2>1, SameLoad DEF Filled
  <1> QED
    BY <1>1 DEF Cleared

\* An exact pool gives up a system prompt only to a longer one that continues
\* it, to a full cache, or when it holds nothing but system prompts (victim, put
\* and the clear that makes room for a batch).
THEOREM SystemsKept == Spec => SystemPromptsStay
  <1> DEFINE A == load.exact /\ Filled' # {} =>
                    \A p \in Systems : \/ \E q \in Systems' : Upto(q, Len(p)) = p
                                       \/ \A e \in Entries : entry[e].shared
  <1>1. IInv /\ [Next]_vars => [A]_vars
    <2> SUFFICES ASSUME IInv, [Next]_vars, load.exact, Filled' # {}, NEW p \in Systems
                 PROVE  Kept(p) \/ \A e \in Entries : entry[e].shared
      BY DEF Kept
    <2>1. Typed
      BY DEF IInv
    <2>2. CASE load' = load /\ entry' = entry
      BY <2>1, <2>2, AllStay
    <2>3. CASE Step \/ StepFails
      <3>1. load' = load /\ \E clear \in BOOLEAN : Cleared(clear)
        BY <2>3 DEF Step, StepFails
      <3> QED
        BY <2>2, <3>1, ClearedIs
    <2>4. ASSUME NEW i \in Slots, Publish(i)
          PROVE  Kept(p) \/ \A e \in Entries : entry[e].shared
      <3> DEFINE at == slot[i].publish[1]
                 read == Upto(slot[i].prompt, at.pos)
      <3>1. load' = load /\ slot[i].publish # <<>> /\ Put(slot[i].seq, read, at.shared)
        BY <2>4 DEF Publish
      <3>2. slot[i].publish \in Seq(Point) /\ slot[i].prompt \in Seq(Tokens)
        BY <2>1, SlotIs
      <3>3. at \in Point
        <4>1. 1 \in 1 .. Len(slot[i].publish)
          BY <3>1, <3>2, EmptySeq
        <4> QED
          BY <3>2, <4>1, ElementOfSeq
      <3>4. at.pos \in Nat /\ at.shared \in BOOLEAN
        <4> HIDE DEF at
        <4> QED
          BY <3>3 DEF Point
      <3>5. read \in Seq(Tokens)
        BY <3>2, <3>4, UptoIs
      <3> HIDE DEF read, at
      <3> QED
        BY <3>1, <3>4, <3>5, PutKeeps
    <2>5. CASE Admitted \/ Compact \/ StepEmpty \/ UNCHANGED vars
      <3>1. load' = load /\ entry' = entry
        BY <2>5 DEF Admitted, Compact, StepEmpty, vars, pool
      <3> QED
        BY <2>2, <3>1
    <2>6. CASE \E i \in Slots, pr \in load.prompts : Admit(i, pr)
      <3>1. load' = load /\ entry' = entry
        BY <2>6 DEF Admit
      <3> QED
        BY <2>2, <3>1
    <2>7. CASE \E i \in Slots : Cancel(i) \/ Finish(i) \/ CannotGoBack(i)
      <3>1. load' = load /\ entry' = entry
        BY <2>7 DEF Cancel, Finish, CannotGoBack, pool
      <3> QED
        BY <2>2, <3>1
    <2>8. CASE \E i \in Slots, m \in 0 .. load.drafts, tok \in Tokens : GoesOn(i, m, tok)
      <3>1. load' = load /\ entry' = entry
        BY <2>8 DEF GoesOn, pool
      <3> QED
        BY <2>2, <3>1
    <2> QED
      BY <2>3, <2>4, <2>5, <2>6, <2>7, <2>8 DEF Next
  <1>2. Spec => [][A]_vars
    BY <1>1, Inductive, PTL DEF Spec
  <1> QED
    BY <1>2 DEF SystemPromptsStay
=============================================================================
