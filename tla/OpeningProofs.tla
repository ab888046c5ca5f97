-------------------------- MODULE OpeningProofs --------------------------
(***************************************************************************)
(* Whatever the models, machines, workers and readings, and whichever step *)
(* fails: opening, dividing and closing a model leaks nothing, what the    *)
(* operator said is what is served, and a context that leaves too little   *)
(* is served only when nothing more could be given up.                     *)
(*                                                                         *)
(* What is held follows from the phase alone: nothing before the weights   *)
(* and after the end, the model while a context is sized or after none     *)
(* could be made, a context with it from its making on.  The projector and *)
(* the drafting head, which are done without, are there or not.            *)
(*                                                                         *)
(* For the numbers, what sizing answers is first described (Answers): the  *)
(* context asked for or none, the slots and the pool asked for where both  *)
(* numbers are known, and never a pool that borrows where one was named.   *)
(* From there on each way of giving something up is shown to touch only    *)
(* what was ours to choose.                                                *)
(***************************************************************************)
EXTENDS Opening, TLAPS, WellFoundedInduction, FiniteSetTheorems

-----------------------------------------------------------------------------
(* Numbers, and what is defined by what comes before.                      *)

\* A set of naturals that holds the first and with each the next holds all.
LEMMA AllNaturals ==
  ASSUME NEW S, S \subseteq Nat, 0 \in S, \A n \in S : n + 1 \in S
  PROVE  S = Nat
  <1> DEFINE T == Nat \ S
             R == OpToRel(<, Nat)
  <1> SUFFICES ASSUME T # {} PROVE FALSE
    OBVIOUS
  <1>1. PICK n \in T : \A m \in T : ~ (<<m, n>> \in R)
    <2>1. IsWellFoundedOn(R, Nat) /\ T \subseteq Nat
      BY NatLessThanWellFounded
    <2> HIDE DEF R, T
    <2> QED
      BY <2>1, WFMin
  <1>2. n \in Nat \ {0} /\ n - 1 \in Nat
    OBVIOUS
  <1>3. n - 1 \notin S
    BY <1>2
  <1>4. <<n - 1, n>> \in Nat \X Nat /\ <<n - 1, n>>[1] = n - 1 /\ <<n - 1, n>>[2] = n
    BY <1>2
  <1>5. <<n - 1, n>> \in R
    BY <1>2, <1>4 DEF OpToRel
  <1> QED
    BY <1>1, <1>2, <1>3, <1>5

\* Of numbers with a bound there is a greatest.
LEMMA Greatest ==
  ASSUME NEW k \in Nat, NEW S, S \subseteq 0..k, S # {}
  PROVE  \E n \in S : \A m \in S : m <= n
  <1> DEFINE Bounded == {b \in Nat : \A T \in SUBSET (0..b) : T # {} => \E n \in T : \A m \in T : m <= n}
  <1>1. 0 \in Bounded
    <2> SUFFICES ASSUME NEW T \in SUBSET (0..0), T # {} PROVE \E n \in T : \A m \in T : m <= n
      OBVIOUS
    <2>1. \A m \in T : m = 0
      OBVIOUS
    <2>2. PICK n \in T : n = 0
      BY <2>1
    <2>3. \A m \in T : m <= n
      BY <2>1, <2>2
    <2> QED
      BY <2>3
  <1>2. ASSUME NEW b \in Bounded PROVE b + 1 \in Bounded
    <2> SUFFICES ASSUME NEW T \in SUBSET (0..b + 1), T # {} PROVE \E n \in T : \A m \in T : m <= n
      OBVIOUS
    <2>1. CASE b + 1 \in T
      <3>1. \A m \in T : m <= b + 1
        OBVIOUS
      <3> QED
        BY <2>1, <3>1
    <2>2. CASE b + 1 \notin T
      <3>1. T \in SUBSET (0..b)
        BY <2>2
      <3> QED
        BY <3>1
    <2> QED
      BY <2>1, <2>2
  <1>3. Bounded = Nat
    <2>1. Bounded \subseteq Nat
      OBVIOUS
    <2> HIDE DEF Bounded
    <2> QED
      BY <1>1, <1>2, <2>1, AllNaturals
  <1> QED
    BY <1>3

LEMMA MaxIs ==
  ASSUME NEW k \in Nat, NEW S, S \subseteq 0..k, S # {}
  PROVE  Max(S) \in S /\ \A m \in S : m <= Max(S)
  <1>1. \E n \in S : \A m \in S : n >= m
    BY Greatest
  <1> QED
    BY <1>1 DEF Max

LEMMA MinIs ==
  ASSUME NEW k \in Nat, NEW S, S \subseteq 0..k, S # {}
  PROVE  Min(S) \in S /\ \A m \in S : Min(S) <= m
  <1> DEFINE T == {k - m : m \in S}
  <1>1. T \subseteq 0..k /\ T # {}
    <2>1. \A m \in S : k - m \in 0..k
      OBVIOUS
    <2>2. \E m \in S : k - m \in T
      OBVIOUS
    <2> QED
      BY <2>1, <2>2
  <1>2. PICK t \in T : \A u \in T : u <= t
    <2> HIDE DEF T
    <2> QED
      BY <1>1, Greatest
  <1>3. PICK n \in S : t = k - n
    OBVIOUS
  <1>4. \A m \in S : n <= m
    <2> SUFFICES ASSUME NEW m \in S PROVE n <= m
      OBVIOUS
    <2>1. k - m <= k - n
      BY <1>2, <1>3
    <2> QED
      BY <2>1
  <1>5. \E x \in S : \A y \in S : x <= y
    BY <1>4
  <1> QED
    BY <1>5 DEF Min

LEMMA HalvingsAre ==
  ASSUME NEW n \in Nat
  PROVE  Halvings(n) \subseteq 1..n
  <1> SUFFICES ASSUME NEW d \in Powers, n \div d > 0 PROVE n \div d \in 1..n
    BY DEF Halvings
  <1>1. d \in Nat \ {0}
    BY DEF Powers
  <1>2. n \div d \in Int /\ n \div d <= n
    BY <1>1
  <1> QED
    BY <1>2

\* Each number is what g makes of the one before it.
Follows(f, a, b, c, g) == \A k \in a..b : f[k] = IF k = a THEN c ELSE g[k][f[k - 1]]

\* What each number does to the one before it defines a sequence of them.
LEMMA Recursion ==
  ASSUME NEW a \in Int, NEW b \in Int, a <= b, NEW X, NEW c \in X,
         NEW g \in [a + 1..b -> [X -> X]]
  PROVE  \E f \in [a..b -> X] : Follows(f, a, b, c, g)
  <1> DEFINE Is(f, n) == \A k \in a..a + n : f[k] = IF k = a THEN c ELSE g[k][f[k - 1]]
             Far == {n \in Nat : a + n <= b => \E f \in [a..a + n -> X] : Is(f, n)}
  <1>1. 0 \in Far
    <2>1. [k \in a..a + 0 |-> c] \in [a..a + 0 -> X] /\ Is([k \in a..a + 0 |-> c], 0)
      OBVIOUS
    <2> QED
      BY <2>1
  <1>2. ASSUME NEW n \in Far PROVE n + 1 \in Far
    <2>0. n \in Nat /\ n + 1 \in Nat /\ (a + n <= b => \E f \in [a..a + n -> X] : Is(f, n))
      OBVIOUS
    <2>1. ASSUME a + (n + 1) <= b PROVE \E f \in [a..a + (n + 1) -> X] : Is(f, n + 1)
      <3>1. n \in Nat /\ a + n <= b /\ a + n + 1 \in a + 1..b
        BY <2>0, <2>1
      <3>2. PICK f \in [a..a + n -> X] : Is(f, n)
        BY <2>0, <3>1
      <3> DEFINE h == [k \in a..a + (n + 1) |-> IF k = a + n + 1 THEN g[k][f[a + n]] ELSE f[k]]
      <3>3. f[a + n] \in X
        BY <3>1, <3>2
      <3>4. h \in [a..a + (n + 1) -> X]
        BY <3>1, <3>2, <3>3
      <3>5. ASSUME NEW k \in a..a + (n + 1) PROVE h[k] = IF k = a THEN c ELSE g[k][h[k - 1]]
        <4>1. CASE k = a + n + 1
          <5>1. k # a /\ k - 1 = a + n /\ k - 1 \in a..a + (n + 1) /\ k - 1 # a + n + 1
            BY <3>1, <4>1
          <5> QED
            BY <4>1, <5>1
        <4>2. CASE k # a + n + 1
          <5>1. k \in a..a + n
            BY <3>1, <4>2
          <5>2. h[k] = f[k] /\ f[k] = IF k = a THEN c ELSE g[k][f[k - 1]]
            BY <3>2, <4>2, <5>1
          <5>3. k # a => k - 1 \in a..a + (n + 1) /\ k - 1 # a + n + 1
            BY <3>1, <5>1
          <5>4. k # a => h[k - 1] = f[k - 1]
            BY <5>3
          <5> HIDE DEF h
          <5> QED
            BY <5>2, <5>4
        <4> QED
          BY <4>1, <4>2
      <3> QED
        BY <3>4, <3>5
    <2> HIDE DEF Is
    <2> QED
      BY <2>0, <2>1
  <1>3. Far = Nat
    <2>1. Far \subseteq Nat
      OBVIOUS
    <2> HIDE DEF Far
    <2> QED
      BY <1>1, <1>2, <2>1, AllNaturals
  <1>4. b - a \in Nat /\ a + (b - a) = b /\ b <= b
    OBVIOUS
  <1>5. b - a \in Far
    <2> HIDE DEF Far
    <2> QED
      BY <1>3, <1>4
  <1> QED
    BY <1>4, <1>5 DEF Follows

\* What the first number has, and each passes on, they all have.
LEMMA PassedOn ==
  ASSUME NEW a \in Int, NEW b \in Int, a <= b, NEW X, NEW f, f[a] \in X,
         \A k \in a + 1..b : f[k - 1] \in X => f[k] \in X
  PROVE  \A k \in a..b : f[k] \in X
  <1> DEFINE Far == {n \in Nat : a + n <= b => f[a + n] \in X}
  <1>1. 0 \in Far
    OBVIOUS
  <1>2. ASSUME NEW n \in Far PROVE n + 1 \in Far
    <2> SUFFICES ASSUME a + (n + 1) <= b PROVE f[a + (n + 1)] \in X
      OBVIOUS
    <2>1. n \in Nat /\ a + n <= b /\ a + (n + 1) \in a + 1..b /\ (a + (n + 1)) - 1 = a + n
      OBVIOUS
    <2>2. f[a + n] \in X
      BY <2>1
    <2> QED
      BY <2>1, <2>2
  <1>3. Far = Nat
    <2>1. Far \subseteq Nat
      OBVIOUS
    <2> HIDE DEF Far
    <2> QED
      BY <1>1, <1>2, <2>1, AllNaturals
  <1> SUFFICES ASSUME NEW k \in a..b PROVE f[k] \in X
    OBVIOUS
  <1>4. k - a \in Nat /\ a + (k - a) = k /\ a + (k - a) <= b
    OBVIOUS
  <1>5. k - a \in Far
    <2> HIDE DEF Far
    <2> QED
      BY <1>3, <1>4
  <1> QED
    BY <1>4, <1>5

\* A sum of numbers is one.
LEMMA SumType ==
  ASSUME NEW i \in Int, NEW j \in Int, i <= j + 1, NEW s, \A k \in i..j : s[k] \in Nat
  PROVE  Sum(s, i, j) \in Nat
  <1> DEFINE h == i - 1
             body(f) == [k \in (i - 1)..j |-> IF k < i THEN 0 ELSE s[k] + f[k - 1]]
             sum == CHOOSE f : f = body(f)
             g == [k \in i..j |-> [x \in Nat |-> s[k] + x]]
  <1>1. h \in Int /\ h <= j /\ i = h + 1 /\ h = i - 1
    OBVIOUS
  <1>2. g \in [h + 1..j -> [Nat -> Nat]]
    <2>1. \A k \in i..j : [x \in Nat |-> s[k] + x] \in [Nat -> Nat]
      OBVIOUS
    <2> QED
      BY <1>1, <2>1
  <1>10. \A k \in i..j : \A x \in Nat : g[k][x] = s[k] + x
    OBVIOUS
  <1> HIDE DEF g, h
  <1>3. PICK f \in [h..j -> Nat] :
            \A k \in h..j : f[k] = IF k = h THEN 0 ELSE g[k][f[k - 1]]
    <2>1. h \in Int /\ j \in Int /\ h <= j /\ 0 \in Nat
      BY <1>1
    <2>2. PICK f \in [h..j -> Nat] : Follows(f, h, j, 0, g)
      BY <2>1, <1>2, Recursion
    <2> QED
      BY <2>2 DEF Follows
  <1>4. f = body(f)
    <2>1. ASSUME NEW k \in (i - 1)..j PROVE f[k] = IF k < i THEN 0 ELSE s[k] + f[k - 1]
      <3>1. CASE k = h
        <4>1. f[k] = 0 /\ k < i
          BY <1>1, <1>3, <3>1
        <4> QED
          BY <4>1
      <3>2. CASE k # h
        <4>1. k \in i..j /\ k - 1 \in h..j /\ ~(k < i)
          BY <1>1, <3>2
        <4>2. f[k - 1] \in Nat /\ f[k] = g[k][f[k - 1]]
          BY <1>1, <1>3, <3>2, <4>1
        <4> QED
          BY <1>10, <4>1, <4>2
      <3> QED
        BY <3>1, <3>2
    <2> QED
      BY <1>1, <1>3, <2>1
  <1>5. sum = body(sum)
    <2> HIDE DEF body
    <2> QED
      BY <1>4
  <1>6. \A k \in h..j : sum[k] = IF k < i THEN 0 ELSE s[k] + sum[k - 1]
    <2> HIDE DEF sum
    <2> QED
      BY <1>1, <1>5
  <1> HIDE DEF sum
  <1>7. sum[h] \in Nat
    BY <1>1, <1>6
  <1>8. ASSUME NEW k \in h + 1..j, sum[k - 1] \in Nat PROVE sum[k] \in Nat
    <2>1. k \in h..j /\ k \in i..j /\ ~(k < i)
      BY <1>1
    <2>2. sum[k] = s[k] + sum[k - 1] /\ s[k] \in Nat
      BY <1>6, <2>1
    <2> QED
      BY <1>8, <2>2
  <1>9. \A k \in h..j : sum[k] \in Nat
    BY <1>1, <1>7, <1>8, PassedOn
  <1>11. sum[j] \in Nat
    BY <1>1, <1>9
  <1> QED
    BY <1>11 DEF Sum, sum

-----------------------------------------------------------------------------
(* Placing the weights: what stays on the GPU is a number.                 *)

LEMMA CacheIsNumber ==
  ASSUME NEW sh \in Shaped, NEW tokens \in Nat, NEW seqs \in Nat
  PROVE  CacheBytesFor(sh, tokens, seqs) \in Int
  <1>1. Trunk(sh) \in Int /\ AttnLayers(sh) \in Int
    BY DEF Shaped, Trunk, AttnLayers
  <1>2. CacheBytes(sh, tokens) \in Int
    <2> DEFINE stored == AttnLayers(sh) + IF sh.draft > 0 THEN sh.nextn ELSE 0
               kib == stored * sh.perLayer
               block == IF sh.q8 THEN (kib * 17) \div 32 ELSE kib
    <2>1. stored \in Int
      BY <1>1 DEF Shaped
    <2>2. kib \in Int
      <3> HIDE DEF stored
      <3> QED
        BY <2>1 DEF Shaped
    <2>3. block \in Int /\ tokens \div Block \in Int
      <3> HIDE DEF kib
      <3> QED
        BY <2>2 DEF Block
    <2>4. ((tokens \div Block) * block) \in Int
      <3> HIDE DEF block
      <3> QED
        BY <2>3
    <2>5. ((tokens \div Block) * block) \div 1024 \in Int
      <3> HIDE DEF block
      <3> QED
        BY <2>4
    <2> QED
      BY <2>5 DEF CacheBytes
  <1>3. RecurrentBytesPerSeq(sh) \in Int
    <2>1. (Trunk(sh) - AttnLayers(sh)) * sh.state \in Int
      BY <1>1 DEF Shaped
    <2> QED
      BY <2>1 DEF RecurrentBytesPerSeq
  <1>4. seqs * (1 + sh.draft) \in Int
    BY DEF Shaped
  <1>5. seqs * (1 + sh.draft) * RecurrentBytesPerSeq(sh) \in Int
    BY <1>3, <1>4
  <1> QED
    BY <1>2, <1>5 DEF CacheBytesFor

LEMMA RoomIs ==
  ASSUME NEW sh \in Shaped, NEW slots \in Nat, NEW ctx \in Nat, NEW batch \in Nat
  PROVE  LET room == PlaceRoom(sh, slots, ctx, batch) IN
         /\ room.reserve \in Int /\ room.slots = AtLeast(slots, 1) /\ room.ubatch \in Nat
         /\ room.tokens \in Nat \ {0}
  <1> DEFINE s == AtLeast(slots, 1)
             t == Given(ctx, Floor(sh))
             b == Given(batch, UbatchHost)
  <1>1. s \in Nat /\ s + 1 \in Nat
    BY DEF AtLeast
  <1>2. t \in Nat \ {0}
    BY DEF Given, Floor, AtMost, CtxFloor, Shaped
  <1>3. b \in Nat
    BY DEF Given, UbatchHost
  <1> HIDE DEF s, t, b
  <1>4. t * (s + 1) \in Nat
    BY <1>1, <1>2
  <1>5. CacheBytesFor(sh, t * (s + 1), s + 1) \in Int
    BY <1>1, <1>4, CacheIsNumber
  <1>6. ComputeBytes(sh, b) \in Int
    <2>1. sh.logits + sh.activations \in Nat
      BY DEF Shaped
    <2>2. b * (sh.logits + sh.activations) \in Nat
      BY <1>3, <2>1
    <2> QED
      BY <2>2 DEF ComputeBytes
  <1>7. PlaceReserve(sh, t, s, b) \in Int
    BY <1>5, <1>6 DEF PlaceReserve, ThinHeadroom
  <1>8. PlaceRoom(sh, slots, ctx, batch) = [slots |-> s, tokens |-> t, ubatch |-> b, reserve |-> PlaceReserve(sh, t, s, b)]
    BY DEF PlaceRoom, s, t, b
  <1>9. s = AtLeast(slots, 1)
    BY DEF s
  <1> QED
    BY <1>2, <1>3, <1>7, <1>8, <1>9

\* Of the layers whose experts leave, the experts are at least what is short.
LEMMA ExpertsFree ==
  ASSUME NEW n \in Nat, NEW sums \in [1..n -> Nat], NEW short \in Int, ExpertsOut(sums, short) # 0
  PROVE  LET k == ExpertsOut(sums, short) IN k \in 1..n /\ sums[k] >= short
  <1> DEFINE freed == {k \in 1..Len(sums) : sums[k] - sums[k] \div PlaceCacheShare >= short}
  <1>1. Len(sums) = n
    OBVIOUS
  <1>2. CASE freed # {}
    <2>1. freed \subseteq 0..n
      BY <1>1
    <2>2. Min(freed) \in freed
      <3> HIDE DEF freed
      <3> QED
        BY <1>2, <2>1, MinIs
    <2>3. ExpertsOut(sums, short) = Min(freed)
      BY <1>2 DEF ExpertsOut
    <2>4. PICK k \in 1..n : k = Min(freed) /\ sums[k] - sums[k] \div PlaceCacheShare >= short
      <3> DEFINE least == Min(freed)
      <3>1. least \in freed
        BY <2>2
      <3> HIDE DEF least
      <3>2. least \in 1..n /\ sums[least] - sums[least] \div PlaceCacheShare >= short
        BY <1>1, <3>1
      <3> QED
        BY <3>2 DEF least
    <2>5. sums[k] \in Nat /\ sums[k] \div PlaceCacheShare \in Nat
      BY DEF PlaceCacheShare
    <2> HIDE DEF freed
    <2> QED
      BY <2>3, <2>4, <2>5
  <1>3. CASE freed = {}
    <2>1. sums # <<>> /\ Last(sums) >= short /\ ExpertsOut(sums, short) = Len(sums)
      BY <1>3 DEF ExpertsOut
    <2>2. n # 0 /\ Last(sums) = sums[n]
      BY <1>1, <2>1 DEF Last
    <2> QED
      BY <1>1, <2>1, <2>2
  <1> QED
    BY <1>2, <1>3

\* What a placement keeps on the GPU for experts is a number.
LEMMA OutIs ==
  ASSUME NEW k, NEW first, NEW host \in Nat, NEW short \in Int, host >= short
  PROVE  Out(k, first, host, short).moeCache \in Nat
  BY DEF Out

LEMMA PlacedHere ==
  ASSUME NEW sh \in Shaped, NEW free \in Nat, NEW reserve \in Int
  PROVE  Place(sh, free, reserve).moeCache \in Nat
  <1> DEFINE n == Len(sh.expertSizes)
             need == WeightBytes(sh) + reserve
             sums == [k \in 1..n |-> Sum(sh.expertSizes, 1, k)]
             out == ExpertsOut(sums, need - free)
  <1>1. Total(sh.layerSizes) \in Nat
    <2>1. sh.layerSizes \in Seq(Nat)
      BY DEF Shaped
    <2> DEFINE l == Len(sh.layerSizes)
    <2>3. l \in Int /\ 1 <= l + 1 /\ \A k \in 1..l : sh.layerSizes[k] \in Nat
      BY <2>1
    <2> HIDE DEF l
    <2>4. Sum(sh.layerSizes, 1, l) \in Nat
      BY <2>3, SumType
    <2> QED
      BY <2>4 DEF Total, l
  <1>2. need \in Int /\ need - free \in Int
    <2>1. sh.apart \in Nat
      BY DEF Shaped
    <2> QED
      BY <1>1, <2>1 DEF WeightBytes
  <1>3. n \in Nat /\ sums \in [1..n -> Nat]
    <2>1. sh.expertSizes \in Seq(Nat)
      BY DEF Shaped
    <2>2. n \in Nat /\ \A k \in 1..n : sh.expertSizes[k] \in Nat
      BY <2>1
    <2>3. ASSUME NEW k \in 1..n PROVE Sum(sh.expertSizes, 1, k) \in Nat
      <3>1. k \in Int /\ 1 <= k + 1 /\ \A i \in 1..k : sh.expertSizes[i] \in Nat
        BY <2>2
      <3> QED
        BY <3>1, SumType
    <2> QED
      BY <2>2, <2>3
  <1>4. CASE Place(sh, free, reserve) = Whole
    BY <1>4 DEF Whole
  <1>5. CASE Place(sh, free, reserve) # Whole
    <2>1. out # 0 /\ Place(sh, free, reserve) = Out(out, 0, sums[out], need - free)
      BY <1>5 DEF Place
    <2> HIDE DEF sums, need
    <2>2. out \in 1..n /\ sums[out] >= need - free
      BY <1>2, <1>3, <2>1, ExpertsFree
    <2>3. sums[out] \in Nat
      BY <1>3, <2>2
    <2> QED
      BY <1>2, <2>1, <2>2, <2>3, OutIs
  <1> QED
    BY <1>4, <1>5

\* Next layers are no more than there are.
LEMMA NextAre ==
  ASSUME NEW sh, Len(sh.layerSizes) \in Nat, NEW here, NEW room, NEW q \in 1..Len(sh.layerSizes) + 1
  PROVE  q + NextLayers(sh, q, here, room) \in 1..Len(sh.layerSizes) + 1
  <1> DEFINE n == Len(sh.layerSizes)
             took == {k \in q..n : Sum(sh.layerSizes, k, n) > here /\ Sum(sh.layerSizes, q, k) <= room}
  <1>1. n \in Nat /\ q \in 1..n + 1
    OBVIOUS
  <1>2. IsFiniteSet(q..n) /\ Cardinality(q..n) = n - q + 1
    <2> HIDE DEF n
    <2>1. q \in Int /\ n \in Int
      BY <1>1
    <2>2. IsFiniteSet(q..n) /\ Cardinality(q..n) = IF q > n THEN 0 ELSE n - q + 1
      BY <2>1, FS_Interval
    <2> QED
      BY <1>1, <2>2
  <1>3. took \subseteq q..n
    OBVIOUS
  <1>4. NextLayers(sh, q, here, room) = Cardinality(took)
    BY DEF NextLayers
  <1> HIDE DEF n, took
  <1>5. Cardinality(took) \in Nat /\ Cardinality(took) <= n - q + 1
    <2>1. IsFiniteSet(took) /\ Cardinality(took) <= Cardinality(q..n)
      BY <1>2, <1>3, FS_Subset
    <2>2. Cardinality(took) \in Nat
      BY <2>1, FS_CardinalityType
    <2> QED
      BY <1>2, <2>1, <2>2
  <1> QED
    BY <1>1, <1>4, <1>5 DEF n

\* Where each device's layers begin.
LEMMA PlacedAcross ==
  ASSUME NEW sh \in Shaped, Len(sh.expertSizes) = Len(sh.layerSizes), NEW free \in Seq(Nat), free # <<>>,
         NEW reserve \in Int, NEW peerReserve
  PROVE  PlaceDevices(sh, free, reserve, peerReserve).placement.moeCache \in Nat
  <1> DEFINE n == Len(sh.layerSizes)
             m == Len(free)
             here == Sub(Last(free), reserve + sh.apart)
             after(q, d) == q + NextLayers(sh, q, here, Sub(free[d - 1], peerReserve))
             body(first) == [d \in 1..m |-> IF d = 1 THEN 1
                                 ELSE CHOOSE f \in {q + NextLayers(sh, q, here, Sub(free[d - 1], peerReserve)) : q \in {first[d - 1]}} : TRUE]
             first == CHOOSE f : f = body(f)
             last == first[m]
             short == Sum(sh.layerSizes, last, n) - here
             sums == [k \in 1..(n - last + 1) |-> Sum(sh.expertSizes, n - k + 1, n)]
             out == ExpertsOut(sums, short)
             g == [d \in 2..m |-> [q \in 1..n + 1 |-> after(q, d)]]
  <1>1. /\ n \in Nat /\ m \in Nat \ {0} /\ Last(free) \in Nat
        /\ \A k \in 1..n : sh.layerSizes[k] \in Nat /\ sh.expertSizes[k] \in Nat
    <2>1. sh.layerSizes \in Seq(Nat) /\ sh.expertSizes \in Seq(Nat)
      BY DEF Shaped
    <2>2. m \in Nat \ {0} /\ free[m] \in Nat
      OBVIOUS
    <2>3. Last(free) \in Nat
      BY <2>2 DEF Last
    <2>4. n \in Nat /\ \A k \in 1..n : sh.layerSizes[k] \in Nat
      <3>1. sh.layerSizes \in Seq(Nat)
        BY <2>1
      <3> QED
        BY <3>1
    <2>5. n = Len(sh.expertSizes)
      OBVIOUS
    <2>6. \A k \in 1..n : sh.expertSizes[k] \in Nat
      <3>1. sh.expertSizes \in Seq(Nat)
        BY <2>1
      <3> HIDE DEF n
      <3> QED
        BY <3>1, <2>5
    <2> QED
      BY <2>2, <2>3, <2>4, <2>6
  <1>2. here \in Nat
    <2>1. Last(free) \in Nat
      BY <1>1
    <2>2. reserve + sh.apart \in Int
      BY DEF Shaped
    <2> QED
      BY <2>1, <2>2 DEF Sub, AtLeast
  <1> HIDE DEF here
  <1>3. \A d \in 2..m : \A q \in 1..n + 1 : after(q, d) \in 1..n + 1
    BY <1>1, NextAre
  <1>4. g \in [1 + 1..m -> [1..n + 1 -> 1..n + 1]]
    <2> HIDE DEF after
    <2>1. \A d \in 2..m : [q \in 1..n + 1 |-> after(q, d)] \in [1..n + 1 -> 1..n + 1]
      BY <1>3
    <2> HIDE DEF n, m
    <2> QED
      BY <2>1
  <1>5. \A d \in 2..m : \A q \in 1..n + 1 : g[d][q] = after(q, d)
    <2> HIDE DEF after
    <2> QED
      OBVIOUS
  <1>6. PICK f \in [1..m -> 1..n + 1] : Follows(f, 1, m, 1, g)
    <2>1. 1 \in Int /\ m \in Int /\ 1 <= m /\ 1 \in 1..n + 1
      BY <1>1
    <2> HIDE DEF g, n, m
    <2> QED
      BY <1>4, <2>1, Recursion
  <1> HIDE DEF g
  <1>7. f = body(f)
    <2> SUFFICES ASSUME NEW d \in 1..m PROVE f[d] = body(f)[d]
      BY <1>6
    <2>1. CASE d = 1
      BY <1>6, <2>1 DEF Follows
    <2>2. CASE d # 1
      <3>1. d \in 2..m /\ d - 1 \in 1..m /\ f[d - 1] \in 1..n + 1
        <4>1. d \in 2..m /\ d - 1 \in 1..m
          BY <1>1, <2>2
        <4> HIDE DEF n, m
        <4> QED
          BY <1>6, <4>1
      <3>2. f[d] = g[d][f[d - 1]]
        BY <1>6, <2>2 DEF Follows
      <3>3. f[d] = after(f[d - 1], d)
        BY <1>5, <3>1, <3>2
      <3>4. {q + NextLayers(sh, q, here, Sub(free[d - 1], peerReserve)) : q \in {f[d - 1]}} = {after(f[d - 1], d)}
        OBVIOUS
      <3>5. body(f)[d] = CHOOSE e \in {after(f[d - 1], d)} : TRUE
        BY <2>2, <3>4
      <3> HIDE DEF after, body
      <3> QED
        BY <3>3, <3>5
    <2> QED
      BY <2>1, <2>2
  <1>8. first = body(first)
    <2> HIDE DEF body
    <2> QED
      BY <1>7
  <1>9. last \in 1..n + 1
    <2>1. first[1] \in 1..n + 1
      <3>1. first[1] = body(first)[1]
        <4> HIDE DEF body, first
        <4> QED
          BY <1>8
      <3> HIDE DEF first
      <3> QED
        BY <1>1, <3>1
    <2>2. ASSUME NEW d \in 1 + 1..m, first[d - 1] \in 1..n + 1 PROVE first[d] \in 1..n + 1
      <3>1. first[d] = body(first)[d]
        <4> HIDE DEF body, first
        <4> QED
          BY <1>8
      <3> HIDE DEF first
      <3>2. d \in 2..m /\ d # 1
        BY <1>1
      <3>3. {q + NextLayers(sh, q, here, Sub(free[d - 1], peerReserve)) : q \in {first[d - 1]}} = {after(first[d - 1], d)}
        OBVIOUS
      <3>4. body(first)[d] = CHOOSE e \in {after(first[d - 1], d)} : TRUE
        BY <3>2, <3>3
      <3>5. after(first[d - 1], d) \in 1..n + 1
        BY <1>3, <2>2, <3>2
      <3> HIDE DEF body, after
      <3> QED
        BY <3>1, <3>4, <3>5
    <2> HIDE DEF first, n, m
    <2>3. 1 \in Int /\ m \in Int /\ 1 <= m
      BY <1>1
    <2>4. \A d \in 1..m : first[d] \in 1..n + 1
      BY <2>1, <2>2, <2>3, PassedOn
    <2> QED
      BY <1>1, <2>4
  <1> HIDE DEF last
  <1>10. short \in Int
    <2>1. last \in Int /\ n \in Int /\ last <= n + 1 /\ \A k \in last..n : sh.layerSizes[k] \in Nat
      BY <1>1, <1>9
    <2> HIDE DEF n
    <2>2. Sum(sh.layerSizes, last, n) \in Nat
      BY <2>1, SumType
    <2> QED
      BY <1>2, <2>2
  <1>11. n - last + 1 \in Nat /\ sums \in [1..n - last + 1 -> Nat]
    <2>1. n - last + 1 \in Nat
      BY <1>1, <1>9
    <2>2. ASSUME NEW k \in 1..n - last + 1 PROVE Sum(sh.expertSizes, n - k + 1, n) \in Nat
      <3>1. n - k + 1 \in Int /\ n \in Int /\ n - k + 1 <= n + 1 /\ \A i \in n - k + 1..n : sh.expertSizes[i] \in Nat
        BY <1>1, <1>9
      <3> HIDE DEF n
      <3> QED
        BY <3>1, SumType
    <2> HIDE DEF n
    <2> QED
      BY <2>1, <2>2
  <1>12. PlaceDevices(sh, free, reserve, peerReserve).placement
           = IF short <= 0 THEN Whole ELSE IF out = 0 THEN Whole ELSE Out(out, n - out, sums[out], short)
    BY DEF PlaceDevices, last, here, first, body, n, m, short, out, sums
  <1>13. ASSUME out # 0 PROVE Out(out, n - out, sums[out], short).moeCache \in Nat
    <2> HIDE DEF sums, short, n
    <2>1. out \in 1..n - last + 1 /\ sums[out] >= short
      BY <1>10, <1>11, <1>13, ExpertsFree
    <2>2. sums[out] \in Nat
      BY <1>11, <2>1
    <2> QED
      BY <1>10, <2>1, <2>2, OutIs
  <1>14. Whole.moeCache \in Nat
    BY DEF Whole
  <1> HIDE DEF short, out, sums, n
  <1> QED
    BY <1>12, <1>13, <1>14

-----------------------------------------------------------------------------
(* Sizing the context.                                                     *)

Answers(p, slots, prefixAsked, perSeq) ==
    /\ p.slots \in Nat /\ p.prefix \in Nat /\ p.perSeq \in Nat /\ p.shared \in BOOLEAN
    /\ perSeq > 0 => p.perSeq \in {0, perSeq}
    /\ p.perSeq # 0 => p.slots # 0
    /\ slots > 0 /\ perSeq > 0 => p.slots = slots /\ (prefixAsked # 0 => p.prefix = AtLeast(prefixAsked, 0))
    /\ prefixAsked # 0 => p.prefix <= AtLeast(prefixAsked, 0) /\ ~p.shared

LEMMA PlanIs ==
  ASSUME NEW sh, NEW slots, NEW prefix, NEW perSeq, NEW shared
  PROVE  LET p == Plan(sh, slots, prefix, perSeq, shared) IN
         p.slots = slots /\ p.prefix = prefix /\ p.perSeq = perSeq /\ p.shared = shared
  BY DEF Plan

LEMMA PoolIs ==
  ASSUME NEW s \in Nat, NEW prefix \in Nat
  PROVE  PoolFor(s, prefix) \in Nat /\ PoolFor(s, prefix) <= prefix
  BY DEF PoolFor, AtMost, AtLeast

LEMMA WidestIs ==
  ASSUME NEW plans, plans # {}, NEW k \in Nat, \A p \in plans : Seqs(p) \in 0..k
  PROVE  Widest(plans) \in plans
  <1> DEFINE S == {Seqs(p) : p \in plans}
  <1>1. S \subseteq 0..k /\ S # {}
    OBVIOUS
  <1>2. PICK n \in S : \A m \in S : m <= n
    <2> HIDE DEF S
    <2> QED
      BY <1>1, Greatest
  <1>3. PICK p \in plans : \A q \in plans : Seqs(q) <= Seqs(p)
    <2> HIDE DEF Seqs
    <2>1. PICK p \in plans : n = Seqs(p)
      BY <1>2
    <2>2. \A q \in plans : Seqs(q) \in S
      OBVIOUS
    <2> QED
      BY <1>2, <2>1, <2>2
  <1> QED
    BY <1>3 DEF Widest

LEMMA AroundIs ==
  ASSUME NEW sh, NEW free, NEW slots \in Nat, NEW want \in Nat, NEW perSeq \in Nat
  PROVE  LET p == PoolAround(sh, free, slots, want, perSeq) IN
         p.slots = slots /\ p.perSeq = perSeq /\ p.prefix \in Nat /\ p.shared \in BOOLEAN
  <1> DEFINE spendable == SpendableOf(free)
             base == CacheBytesFor(sh, perSeq * slots, slots)
             room == AtLeast(spendable, Sub(free, FitReserve)) - base
             pools(shared) == {Plan(sh, slots, p, perSeq, shared) : p \in 1..PoolFor(slots, want)}
             own == {p \in pools(FALSE) : p.estimated <= spendable}
             borrowed == {p \in pools(TRUE) : p.estimated - base <= room}
             Is(p) == p.slots = slots /\ p.perSeq = perSeq /\ p.prefix \in 0..want /\ p.shared \in BOOLEAN
  <1>0. PoolFor(slots, want) \in Nat /\ PoolFor(slots, want) <= want
    BY PoolIs
  <1>1. ASSUME NEW shared \in BOOLEAN, NEW p \in pools(shared) PROVE Is(p)
    <2>1. PICK q \in 1..PoolFor(slots, want) : p = Plan(sh, slots, q, perSeq, shared)
      OBVIOUS
    <2>2. q \in 0..want
      BY <1>0
    <2> QED
      BY <2>1, <2>2, PlanIs
  <1>2. \A p \in own \cup borrowed : Is(p)
    <2> HIDE DEF Is
    <2>1. own \subseteq pools(FALSE) /\ borrowed \subseteq pools(TRUE)
      OBVIOUS
    <2> HIDE DEF own, borrowed, pools
    <2> QED
      BY <1>1, <2>1
  <1>3. ASSUME NEW S, S \in {own, borrowed}, S # {} PROVE Is(Widest(S))
    <2>1. \A p \in S : Is(p)
      <3> HIDE DEF own, borrowed, Is
      <3> QED
        BY <1>2, <1>3
    <2>2. \A p \in S : Seqs(p) \in 0..slots + want
      BY <2>1 DEF Seqs
    <2>3. slots + want \in Nat
      OBVIOUS
    <2>4. Widest(S) \in S
      BY <1>3, <2>2, <2>3, WidestIs
    <2> HIDE DEF Is
    <2> QED
      BY <2>1, <2>4
  <1>4. Is(Plan(sh, slots, 0, perSeq, FALSE))
    <2>1. 0 \in 0..want
      OBVIOUS
    <2> QED
      BY <2>1 DEF Plan
  <1>5. PoolAround(sh, free, slots, want, perSeq)
          = CASE own # {} -> Widest(own)
              [] own = {} /\ borrowed # {} -> Widest(borrowed)
              [] OTHER -> Plan(sh, slots, 0, perSeq, FALSE)
    BY DEF PoolAround
  <1>6. Is(PoolAround(sh, free, slots, want, perSeq))
    <2> HIDE DEF Is, own, borrowed
    <2>1. CASE own # {}
      BY <1>3, <1>5, <2>1
    <2>2. CASE own = {} /\ borrowed # {}
      BY <1>3, <1>5, <2>2
    <2>3. CASE own = {} /\ borrowed = {}
      BY <1>4, <1>5, <2>3
    <2> QED
      BY <2>1, <2>2, <2>3
  <1> QED
    BY <1>6

LEMMA CarriedIs ==
  ASSUME NEW sh, NEW free, NEW prefix \in Nat, NEW prefixAuto \in BOOLEAN, NEW perSeq \in Nat
  PROVE  LET p == FixedContext(sh, free, prefix, prefixAuto, perSeq) IN
         /\ p.slots \in Nat /\ p.prefix \in Nat /\ p.perSeq \in {0, perSeq} /\ p.shared \in BOOLEAN
         /\ p.perSeq # 0 => p.slots # 0
         /\ ~prefixAuto => p.prefix <= prefix /\ ~p.shared
  <1> DEFINE spendable == SpendableOf(free)
             plans == {Plan(sh, s, PoolFor(s, prefix), perSeq, FALSE) : s \in Halvings(DefaultSlots)}
             carry == {p \in plans : p.estimated <= spendable}
             one == Plan(sh, 1, 1, perSeq, TRUE)
             Is(p) == /\ p.slots \in 0..8 /\ p.prefix \in 0..prefix /\ p.perSeq \in {0, perSeq} /\ p.shared = FALSE
                      /\ p.perSeq # 0 => p.slots # 0
  <1>1. ASSUME NEW p \in plans PROVE Is(p)
    <2>1. PICK s \in Halvings(DefaultSlots) : p = Plan(sh, s, PoolFor(s, prefix), perSeq, FALSE)
      OBVIOUS
    <2>2. s \in 1..8 /\ s \in Nat
      BY HalvingsAre DEF DefaultSlots
    <2>3. PoolFor(s, prefix) \in 0..prefix
      BY <2>2, PoolIs
    <2>4. s # 0 /\ s \in 0..8
      BY <2>2
    <2> HIDE DEF plans
    <2> QED
      BY <2>1, <2>3, <2>4 DEF Plan
  <1>2. ASSUME carry # {} PROVE Is(Widest(carry))
    <2>1. \A p \in carry : Is(p)
      <3> HIDE DEF plans, Is
      <3> QED
        BY <1>1
    <2> HIDE DEF carry
    <2>2. \A p \in carry : Seqs(p) \in 0..8 + prefix
      BY <2>1 DEF Seqs
    <2>3. 8 + prefix \in Nat
      OBVIOUS
    <2>4. Widest(carry) \in carry
      BY <1>2, <2>2, <2>3, WidestIs
    <2> HIDE DEF Is
    <2> QED
      BY <2>1, <2>4
  <1>3. FixedContext(sh, free, prefix, prefixAuto, perSeq)
          = IF carry # {} THEN Widest(carry)
            ELSE IF prefixAuto /\ prefix > 0 /\ one.estimated <= spendable THEN one
            ELSE NoPlan
    BY DEF FixedContext
  <1>4. Is(NoPlan)
    BY DEF NoPlan
  <1>5. one.slots = 1 /\ one.prefix = 1 /\ one.perSeq = perSeq /\ one.shared = TRUE
    BY DEF Plan
  <1>6. \/ Is(FixedContext(sh, free, prefix, prefixAuto, perSeq))
        \/ prefixAuto /\ FixedContext(sh, free, prefix, prefixAuto, perSeq) = one
    <2> HIDE DEF Is, carry, one
    <2> QED
      BY <1>2, <1>3, <1>4
  <1> DEFINE r == FixedContext(sh, free, prefix, prefixAuto, perSeq)
  <1>7. \/ /\ r.slots \in 0..8 /\ r.prefix \in 0..prefix /\ r.perSeq \in {0, perSeq} /\ r.shared = FALSE
           /\ r.perSeq # 0 => r.slots # 0
        \/ prefixAuto /\ r.slots = 1 /\ r.prefix = 1 /\ r.perSeq = perSeq /\ r.shared = TRUE
    <2> HIDE DEF one, carry, plans
    <2> QED
      BY <1>5, <1>6
  <1> HIDE DEF r
  <1>8. /\ r.slots \in Nat /\ r.prefix \in Nat /\ r.perSeq \in {0, perSeq} /\ r.shared \in BOOLEAN
        /\ r.perSeq # 0 => r.slots # 0
        /\ ~prefixAuto => r.prefix <= prefix /\ ~r.shared
    <2> HIDE DEF one, carry, plans, Is
    <2>1. CASE prefixAuto /\ r.slots = 1 /\ r.prefix = 1 /\ r.perSeq = perSeq /\ r.shared = TRUE
      <3>1. r.slots \in Nat /\ r.prefix \in Nat /\ r.perSeq \in {0, perSeq} /\ r.slots # 0
        BY <2>1
      <3>2. prefixAuto /\ r.shared = TRUE
        BY <2>1
      <3> QED
        BY <3>1, <3>2, Zenon
    <2>2. CASE r.slots \in 0..8 /\ r.prefix \in 0..prefix /\ r.perSeq \in {0, perSeq} /\ r.shared = FALSE
               /\ (r.perSeq # 0 => r.slots # 0)
      <3>1. r.slots \in Nat /\ r.prefix \in Nat /\ r.prefix <= prefix
        BY <2>2
      <3> QED
        BY <2>2, <3>1
    <2> QED
      BY <1>7, <2>1, <2>2
  <1> QED
    BY <1>8 DEF r

\* The longest that fits is a number.
LEMMA LargestIs ==
  ASSUME NEW sh, NEW spendable, NEW cells, NEW seqs
  PROVE  LargestCtx(sh, spendable, cells, seqs) \in Nat
  <1> DEFINE fits(ctx) == spendable > 0 /\ CacheBytesFor(sh, ctx * cells, seqs) <= spendable
             S == {0} \cup {ctx \in Contexts : fits(ctx)}
             Is(ctx) == (ctx = 0 \/ fits(ctx)) /\ \A longer \in Contexts : longer > ctx => ~fits(longer)
  <1>1. PICK k \in Nat : Contexts \subseteq 0..k
    <2> DEFINE m == 4096
    <2>1. m \in Nat /\ Powers \subseteq 1..m
      BY SMT DEF Powers
    <2> HIDE DEF m
    <2>2. 256 * m \in Nat /\ \A d \in 1..m : 256 * d \in 0..256 * m
      BY <2>1
    <2>3. Contexts \subseteq 0..256 * m
      BY <2>1, <2>2 DEF Contexts
    <2> QED
      BY <2>2, <2>3
  <1>2. S \subseteq 0..k /\ S # {}
    <2>1. 0 \in 0..k
      OBVIOUS
    <2> QED
      BY <1>1, <2>1, Zenon
  <1> HIDE DEF fits
  <1>3. PICK n \in S : \A m \in S : m <= n
    <2> HIDE DEF S
    <2> QED
      BY <1>2, MaxIs
  <1>4. ASSUME NEW longer \in Contexts, longer > n PROVE ~fits(longer)
    <2>1. longer \in Int /\ n \in Int
      BY <1>1, <1>2
    <2>2. longer \notin S
      BY <1>3, <1>4, <2>1
    <2> QED
      BY <2>2
  <1>5. n \in {0} \cup Contexts /\ Is(n)
    BY <1>4
  <1>6. (CHOOSE ctx \in {0} \cup Contexts : Is(ctx)) \in {0} \cup Contexts
    <2> HIDE DEF Is
    <2> QED
      BY <1>5
  <1>7. LargestCtx(sh, spendable, cells, seqs) \in {0} \cup Contexts
    BY <1>6 DEF LargestCtx, fits
  <1>8. Contexts \subseteq Nat
    BY <1>1
  <1>9. 0 \in Nat
    OBVIOUS
  <1> QED
    BY <1>7, <1>8, <1>9, Zenon

LEMMA SizedIs ==
  ASSUME NEW sh, NEW spendable, NEW capCtx \in Nat, NEW s, NEW p, NEW shared,
         NEW plan, plan = SizedPlan(sh, spendable, capCtx, s, p, shared)
  PROVE  \/ plan = NoPlan
         \/ plan.slots = s /\ plan.prefix = p /\ plan.perSeq \in Nat /\ plan.shared = shared
  <1> DEFINE ctx == LargestCtx(sh, spendable, Cells(s, p, shared), s + p)
  <1>1. plan = IF ctx = 0 THEN NoPlan ELSE Plan(sh, s, p, AtMost(ctx, capCtx), shared)
    BY DEF SizedPlan
  <1>2. AtMost(ctx, capCtx) \in Nat
    <2>1. ctx \in Nat
      BY LargestIs
    <2> HIDE DEF ctx
    <2> QED
      BY <2>1 DEF AtMost
  <1> HIDE DEF ctx
  <1> QED
    BY <1>1, <1>2, PlanIs

LEMMA SlotsAre ==
  ASSUME NEW sh \in Shaped, NEW free, NEW slots \in Nat, NEW prefix \in Nat, NEW prefixAuto \in BOOLEAN
  PROVE  LET p == FixedSlots(sh, free, slots, prefix, prefixAuto) IN
         /\ p.slots \in Nat /\ p.prefix \in Nat /\ p.prefix <= prefix /\ p.perSeq \in Nat /\ p.shared \in BOOLEAN
         /\ p.perSeq # 0 => p.slots # 0
         /\ ~prefixAuto => p.shared = FALSE
  <1> DEFINE spendable == SpendableOf(free)
             capCtx == Given(sh.trained, 32768)
             sized(s, shared) == SizedPlan(sh, spendable, capCtx, s, PoolFor(s, prefix), shared)
             lends(s, own) == own.perSeq < Floor(sh) /\ prefix > 0 /\ prefixAuto /\ (s = 1 \/ slots > 0)
             best(s, own, lent) == IF lends(s, own) /\ lent.perSeq > own.perSeq THEN lent ELSE own
             most == Given(slots, DefaultSlots)
             both == {<<s, sized(s, FALSE), sized(s, TRUE)>> : s \in Halvings(most)}
             plans == {best(b[1], b[2], b[3]) : b \in both} \ {NoPlan}
             useful(p) == p.perSeq >= Floor(sh) \/ slots > 0
             Best(p) == \A q \in plans :
               IF useful(p) THEN useful(q) => q.slots <= p.slots ELSE ~useful(q) /\ p.slots <= q.slots
             Is(p) == /\ p.slots \in 0..most /\ p.prefix \in 0..prefix /\ p.perSeq \in Nat /\ p.shared \in BOOLEAN
                      /\ p.perSeq # 0 => p.slots # 0
                      /\ ~prefixAuto => p.shared = FALSE
  <1>1. most \in Nat
    BY DEF Given, DefaultSlots
  <1>2. capCtx \in Nat
    <2>1. 32768 \in Nat /\ sh.trained \in Nat
      BY SMT DEF Shaped
    <2> QED
      BY <2>1 DEF Given
  <1> HIDE DEF most, capCtx
  <1>3. ASSUME NEW s \in Halvings(most), NEW shared \in BOOLEAN, sized(s, shared) # NoPlan, ~prefixAuto => shared = FALSE
        PROVE  Is(sized(s, shared))
    <2>1. s \in 1..most /\ s \in Nat /\ s \in 0..most /\ s # 0
      BY <1>1, HalvingsAre
    <2>2. PoolFor(s, prefix) \in 0..prefix
      BY <2>1, PoolIs
    <2>3. \/ sized(s, shared) = NoPlan
          \/ /\ sized(s, shared).slots = s /\ sized(s, shared).prefix = PoolFor(s, prefix)
             /\ sized(s, shared).perSeq \in Nat /\ sized(s, shared).shared = shared
      BY <1>2, SizedIs
    <2>4. sized(s, shared).shared \in BOOLEAN /\ (~prefixAuto => sized(s, shared).shared = FALSE)
      <3> HIDE DEF sized
      <3> QED
        BY <1>3, <2>3, Zenon
    <2> HIDE DEF sized
    <2> QED
      BY <1>3, <2>1, <2>2, <2>3, <2>4, Zenon
  <1>4. ASSUME NEW p \in plans PROVE Is(p)
    <2>1. PICK s \in Halvings(most) : p = best(s, sized(s, FALSE), sized(s, TRUE))
      <3>1. PICK b \in both : p = best(b[1], b[2], b[3])
        <4> HIDE DEF both, best
        <4> QED
          BY <1>4
      <3>2. PICK s \in Halvings(most) : b = <<s, sized(s, FALSE), sized(s, TRUE)>>
        <4> HIDE DEF sized
        <4> QED
          BY <3>1
      <3> QED
        <4> HIDE DEF sized, best, both
        <4> QED
          BY <3>1, <3>2
    <2>2. \/ p = sized(s, FALSE)
          \/ prefixAuto /\ p = sized(s, TRUE)
      <3> HIDE DEF sized
      <3> QED
        BY <2>1
    <2>3. p # NoPlan
      BY <1>4
    <2> HIDE DEF Is, sized, plans
    <2>4. FALSE \in BOOLEAN /\ TRUE \in BOOLEAN
      OBVIOUS
    <2> QED
      BY <1>3, <2>2, <2>3, <2>4, Zenon
  <1>5. NoPlan.slots = 0 /\ NoPlan.prefix = 0 /\ NoPlan.perSeq = 0 /\ NoPlan.shared = FALSE
    BY DEF NoPlan
  <1>6. Is(NoPlan)
    <2>1. 0 \in 0..most /\ 0 \in 0..prefix /\ 0 \in Nat
      BY <1>1
    <2> QED
      BY <1>5, <2>1, Zenon
  <1>7. ASSUME plans # {} PROVE \E p \in plans : Best(p)
    <2> DEFINE U == {p \in plans : useful(p)}
               Many(S) == {p.slots : p \in S}
    <2>1. \A p \in plans : p.slots \in 0..most
      <3> HIDE DEF plans
      <3> QED
        BY <1>4
    <2> HIDE DEF useful, plans
    <2>2. CASE U # {}
      <3>1. Many(U) \subseteq 0..most /\ Many(U) # {}
        BY <2>1, <2>2
      <3>2. PICK n \in Many(U) : \A m \in Many(U) : m <= n
        <4> HIDE DEF Many, U
        <4> QED
          BY <1>1, <3>1, Greatest
      <3>3. PICK p \in U : n = p.slots
        OBVIOUS
      <3>4. \A q \in U : q.slots \in Many(U)
        OBVIOUS
      <3>5. \A q \in U : q.slots <= p.slots
        <4> HIDE DEF U, Many
        <4> QED
          BY <3>2, <3>3, <3>4
      <3>6. p \in plans /\ useful(p) /\ \A q \in plans : useful(q) => q.slots <= p.slots
        BY <3>5
      <3> QED
        BY <3>6
    <2>3. CASE U = {}
      <3>1. Many(plans) \subseteq 0..most /\ Many(plans) # {}
        BY <1>7, <2>1
      <3> DEFINE least == Min(Many(plans))
      <3>2. least \in Many(plans) /\ \A m \in Many(plans) : least <= m
        <4> HIDE DEF Many
        <4> QED
          BY <1>1, <3>1, MinIs
      <3> HIDE DEF least
      <3>3. PICK p \in plans : least = p.slots
        BY <3>2
      <3>4. \A q \in plans : q.slots \in Many(plans)
        OBVIOUS
      <3>5. \A q \in plans : p.slots <= q.slots
        <4> HIDE DEF Many
        <4> QED
          BY <3>2, <3>3, <3>4
      <3>6. \A q \in plans : ~useful(q)
        BY <2>3
      <3> QED
        BY <3>5, <3>6
    <2> QED
      BY <2>2, <2>3
  <1>8. FixedSlots(sh, free, slots, prefix, prefixAuto)
          = IF plans = {} THEN NoPlan ELSE CHOOSE p \in plans : Best(p)
    BY DEF FixedSlots, most, capCtx
  <1>9. Is(FixedSlots(sh, free, slots, prefix, prefixAuto))
    <2> HIDE DEF Is, Best, plans
    <2>1. CASE plans = {}
      BY <1>6, <1>8, <2>1
    <2>2. CASE plans # {}
      BY <1>4, <1>7, <1>8, <2>2
    <2> QED
      BY <2>1, <2>2
  <1> DEFINE r == FixedSlots(sh, free, slots, prefix, prefixAuto)
  <1> HIDE DEF r
  <1>10. r.slots \in 0..most /\ r.prefix \in 0..prefix /\ r.perSeq \in Nat
    BY <1>9 DEF r
  <1>11. r.slots \in Nat /\ r.prefix \in Nat /\ r.prefix <= prefix
    BY <1>1, <1>10
  <1>12. r.shared \in BOOLEAN /\ (~prefixAuto => r.shared = FALSE) /\ (r.perSeq # 0 => r.slots # 0)
    BY <1>9 DEF r
  <1> QED
    BY <1>10, <1>11, <1>12 DEF r

LEMMA AutoSizeIs ==
  ASSUME NEW sh \in Shaped, NEW free, NEW slots \in Nat, NEW prefixAsked \in Int, NEW perSeq \in Nat
  PROVE  Answers(AutoSize(sh, free, slots, prefixAsked, perSeq), slots, prefixAsked, perSeq)
  <1> DEFINE prefixAuto == prefixAsked = 0
             prefix == IF prefixAuto THEN DefaultPrefixSlots ELSE AtLeast(prefixAsked, 0)
             r == AutoSize(sh, free, slots, prefixAsked, perSeq)
  <1>1. prefix \in Nat /\ prefixAuto \in BOOLEAN /\ (~prefixAuto => prefix = AtLeast(prefixAsked, 0))
    BY DEF DefaultPrefixSlots, AtLeast
  <1>2. CASE slots > 0 /\ perSeq > 0
    <2>1. CASE prefixAuto /\ Known(sh, free)
      <3>1. r = PoolAround(sh, free, slots, prefix, perSeq)
        BY <1>2, <2>1 DEF AutoSize
      <3> HIDE DEF prefix, r
      <3>2. r.slots = slots /\ r.perSeq = perSeq /\ r.prefix \in Nat /\ r.shared \in BOOLEAN
        BY <1>1, <3>1, AroundIs
      <3> QED
        BY <1>2, <2>1, <3>2 DEF Answers, r
    <2>2. CASE ~(prefixAuto /\ Known(sh, free))
      <3>1. r = Plan(sh, slots, prefix, perSeq, FALSE)
        BY <1>2, <2>2 DEF AutoSize
      <3> HIDE DEF r
      <3>2. r.slots = slots /\ r.perSeq = perSeq /\ r.prefix = prefix /\ r.shared = FALSE
        BY <3>1 DEF Plan
      <3>3. prefix <= prefix /\ slots # 0
        BY <1>1, <1>2
      <3>4. ~prefixAuto => prefix = AtLeast(prefixAsked, 0)
        BY <1>1
      <3> HIDE DEF prefix
      <3> QED
        BY <1>1, <1>2, <3>2, <3>3, <3>4 DEF Answers, r
    <2> QED
      BY <2>1, <2>2
  <1>3. CASE ~(slots > 0 /\ perSeq > 0) /\ ~Known(sh, free)
    <2> DEFINE s == Given(slots, DefaultSlots)
               c == Given(perSeq, DefaultContextSize)
    <2>1. s \in Nat /\ c \in Nat /\ (perSeq > 0 => c = perSeq) /\ s # 0
      BY DEF Given, DefaultSlots, DefaultContextSize
    <2>2. r = [Plan(sh, s, prefix, c, FALSE) EXCEPT !.estimated = 0]
      BY <1>3 DEF AutoSize
    <2> HIDE DEF r, s, c, prefix
    <2>3. r.slots = s /\ r.perSeq = c /\ r.prefix = prefix /\ r.shared = FALSE
      BY <2>2 DEF Plan
    <2>4. prefix <= prefix
      BY <1>1
    <2> QED
      BY <1>1, <1>3, <2>1, <2>3, <2>4 DEF Answers, r
  <1>4. CASE ~(slots > 0 /\ perSeq > 0) /\ Known(sh, free) /\ perSeq > 0
    <2>1. r = FixedContext(sh, free, prefix, prefixAuto, perSeq)
      BY <1>4 DEF AutoSize
    <2> HIDE DEF r, prefix, prefixAuto
    <2>2. /\ r.slots \in Nat /\ r.prefix \in Nat /\ r.perSeq \in {0, perSeq} /\ r.shared \in BOOLEAN
          /\ r.perSeq # 0 => r.slots # 0
          /\ ~prefixAuto => r.prefix <= prefix /\ ~r.shared
      BY <1>1, <2>1, CarriedIs
    <2> USE DEF prefixAuto
    <2>3. r.perSeq \in Nat
      BY <2>2
    <2> QED
      BY <1>1, <1>4, <2>2, <2>3 DEF Answers, r
  <1>5. CASE ~(slots > 0 /\ perSeq > 0) /\ Known(sh, free) /\ ~(perSeq > 0)
    <2>1. r = FixedSlots(sh, free, slots, prefix, prefixAuto)
      BY <1>5 DEF AutoSize
    <2> HIDE DEF r, prefix
    <2>2. /\ r.slots \in Nat /\ r.prefix \in Nat /\ r.prefix <= prefix /\ r.perSeq \in Nat /\ r.shared \in BOOLEAN
          /\ r.perSeq # 0 => r.slots # 0
          /\ ~prefixAuto => r.shared = FALSE
      BY <1>1, <2>1, SlotsAre
    <2> QED
      BY <1>1, <1>5, <2>2 DEF Answers, r
  <1> QED
    BY <1>2, <1>3, <1>4, <1>5

\* A share of a total is a number.
LEMMA TotalIs ==
  ASSUME NEW sh \in Shaped, NEW budget \in Nat, NEW free, NEW slots \in Nat \ {0}
  PROVE  SizeTotal(sh, budget, free, slots) \in Nat
  <1> DEFINE trained(n, most) == IF sh.trained > 0 THEN AtMost(n, most) ELSE n
             default == trained(OllamaDefaultCtx(budget), sh.trained)
             total == trained(AtLeast(default, slots * MinSlotCtx), slots * sh.trained)
             share(t) == ((t \div slots) \div Block) * Block
             fit == {t \in Halvings(total) :
                        share(t) >= 1024 /\ CacheBytesFor(sh, share(t) * slots, slots) <= Sub(free, FitReserve)}
  <1>1. default \in Nat
    <2>1. OllamaDefaultCtx(budget) \in Nat
      BY SMT DEF OllamaDefaultCtx
    <2> QED
      BY <2>1 DEF AtMost, Shaped
  <1>2. total \in Nat
    <2>1. slots * MinSlotCtx \in Nat /\ slots * sh.trained \in Nat
      BY DEF MinSlotCtx, Shaped
    <2> HIDE DEF default
    <2>2. AtLeast(default, slots * MinSlotCtx) \in Nat
      BY <1>1, <2>1 DEF AtLeast
    <2> QED
      BY <2>1, <2>2 DEF AtMost
  <1>3. ASSUME NEW t \in Nat PROVE share(t) \in Nat
    <2>1. t \div slots \in Nat
      OBVIOUS
    <2>2. (t \div slots) \div Block \in Nat
      BY <2>1 DEF Block
    <2> QED
      BY <2>2 DEF Block
  <1>4. ASSUME fit # {} PROVE Max(fit) \in Nat
    <2>1. fit \subseteq 0..total
      <3> HIDE DEF total
      <3>1. Halvings(total) \subseteq 0..total
        BY <1>2, HalvingsAre
      <3> QED
        BY <3>1
    <2> HIDE DEF fit, total
    <2>2. Max(fit) \in fit
      BY <1>2, <1>4, <2>1, MaxIs
    <2>3. Max(fit) \in 0..total
      BY <2>1, <2>2
    <2> QED
      BY <1>2, <2>3
  <1>5. SizeTotal(sh, budget, free, slots) = IF ~Known(sh, free) THEN share(total) ELSE IF fit # {} THEN share(Max(fit)) ELSE 0
    BY DEF SizeTotal
  <1> HIDE DEF share, total, fit
  <1> QED
    BY <1>2, <1>3, <1>4, <1>5

\* The widest pass that is tried is not too narrow.
LEMMA UbatchIs ==
  ASSUME NEW longest, NEW predicted, NEW available
  PROVE  AutoUbatch(longest, predicted, available) \in Nat /\ AutoUbatch(longest, predicted, available) >= UbatchDefault
  <1> DEFINE start == IF longest > 32768 THEN UbatchLarge ELSE IF longest > 4096 THEN UbatchMedium ELSE UbatchDefault
             S == {UbatchDefault} \cup {b \in Halvings(start) : b > UbatchDefault /\ UbatchFits(b, predicted, available)}
  <1>1. start \in Nat /\ UbatchDefault \in Nat /\ UbatchDefault <= start
    BY SMT DEF UbatchLarge, UbatchMedium, UbatchDefault
  <1> HIDE DEF start
  <1>2. S \subseteq 0..start /\ S # {}
    <2>1. Halvings(start) \subseteq 0..start /\ UbatchDefault \in 0..start
      BY <1>1, HalvingsAre
    <2> QED
      BY <2>1
  <1>3. Max(S) \in S
    <2> HIDE DEF S
    <2> QED
      BY <1>1, <1>2, MaxIs
  <1>4. \A b \in S : b \in Nat /\ b >= UbatchDefault
    BY <1>1, <1>2
  <1>5. AutoUbatch(longest, predicted, available) = Max(S)
    BY DEF AutoUbatch, start
  <1> HIDE DEF S
  <1> QED
    BY <1>3, <1>4, <1>5

\* The greatest of some numbers is no less than any.
LEMMA Least ==
  ASSUME NEW a \in Nat, NEW S, S \subseteq Nat, NEW b \in Nat, \A m \in S : m <= b, NEW low \in Nat, low <= a
  PROVE  Max({a} \cup S) \in Nat /\ Max({a} \cup S) >= low
  <1> DEFINE T == {a} \cup S
  <1>1. a + b \in Nat /\ T \subseteq 0..a + b /\ T # {} /\ a \in T /\ T \subseteq Nat
    OBVIOUS
  <1>2. Max(T) \in T /\ \A m \in T : m <= Max(T)
    <2> HIDE DEF T
    <2> QED
      BY <1>1, MaxIs
  <1>3. Max(T) \in Nat
    <2> HIDE DEF T
    <2> QED
      BY <1>1, <1>2
  <1>4. a <= Max(T)
    <2> HIDE DEF T
    <2> QED
      BY <1>1, <1>2
  <1> DEFINE top == Max(T)
  <1> HIDE DEF top
  <1>5. top \in Nat /\ a <= top
    BY <1>3, <1>4 DEF top
  <1>6. top >= low
    BY <1>5
  <1> QED
    BY <1>5, <1>6 DEF top

-----------------------------------------------------------------------------
(* What is held.                                                           *)

Empty == {"start", "weights", "load", "failed", "closed"}
Bare == {"size", "context", "retired"}
Made == {"fit", "grow", "finish", "serving"}

IInv ==
    /\ held \in [Resources -> 0..1]
    /\ phase \in Empty \cup Bare \cup Made
    /\ phase \in Empty => held = Nothing
    /\ phase \in Bare => held["model"] = 1 /\ held["context"] = 0 /\ held["head"] = 0
    /\ phase \in Made => held["model"] = 1 /\ held["context"] = 1

LEMMA NothingIsHeld == Nothing \in [Resources -> 0..1]
  BY DEF Nothing

\* A layout that is let go of leaves the rest, and can be made again.
LEMMA LayoutFreed ==
  ASSUME NEW h \in [Resources -> 0..1]
  PROVE  /\ FreeLayout(h) \in [Resources -> 0..1]
         /\ FreeLayout(h)["context"] = 0 /\ FreeLayout(h)["head"] = 0
         /\ FreeLayout(h)["model"] = h["model"]
  BY DEF FreeLayout, Resources

LEMMA LayoutOpened ==
  ASSUME NEW h \in [Resources -> 0..1], h["context"] = 0, h["head"] = 0,
         NEW g \in OpenLayout(h)
  PROVE  /\ g \in [Resources -> 0..1]
         /\ g["context"] = 1 /\ g["model"] = h["model"]
  <1>1. PICK d \in 0..1 : g = [h EXCEPT !["context"] = @ + 1, !["head"] = @ + d]
    BY DEF OpenLayout
  <1> QED
    BY <1>1 DEF Resources

LEMMA LayoutMadeAgain ==
  ASSUME NEW h \in [Resources -> 0..1], NEW g \in OpenLayout(FreeLayout(h))
  PROVE  /\ g \in [Resources -> 0..1]
         /\ g["context"] = 1 /\ g["model"] = h["model"]
  BY LayoutFreed, LayoutOpened

LEMMA InitHolds == Init => IInv
  BY NothingIsHeld DEF Init, IInv, Empty, Bare, Made

LEMMA NextKeeps == IInv /\ [Next]_vars => IInv'
  <1> SUFFICES ASSUME IInv, [Next]_vars PROVE IInv'
    OBVIOUS
  <1> USE DEF Empty, Bare, Made
  <1>f. ASSUME Fails PROVE IInv'
    BY <1>f, NothingIsHeld DEF Fails, IInv
  <1>1. CASE Borrow
    BY <1>1 DEF Borrow, Borrowed, IInv
  <1>2. CASE PeersFail
    BY <1>2, <1>f DEF PeersFail
  <1>3. CASE Weights
    BY <1>3 DEF Weights, IInv
  <1>4. CASE Load
    <2>1. CASE Fails
      BY <2>1, <1>f
    <2>2. CASE ~Fails
      <3>1. phase' = "size"
        BY <1>4, <2>2 DEF Load
      <3>2. PICK p \in 0..1 : held' = [Nothing EXCEPT !["model"] = 1, !["projector"] = p]
        BY <1>4, <2>2 DEF Load
      <3> QED
        BY <3>1, <3>2 DEF IInv, Nothing, Resources
    <2> QED
      BY <2>1, <2>2
  <1>5. CASE Size
    <2>1. CASE Fails
      BY <2>1, <1>f
    <2>2. CASE ~Fails
      BY <1>5, <2>2 DEF Size, IInv
    <2> QED
      BY <2>1, <2>2
  <1>6. CASE Create
    <2>1. CASE Fails
      BY <2>1, <1>f
    <2>2. CASE ~Fails
      BY <1>6, <2>2, LayoutOpened DEF Create, IInv
    <2> QED
      BY <2>1, <2>2
  <1>7. CASE Shrink
    BY <1>7, LayoutFreed DEF Shrink, IInv
  <1>8. CASE Settle
    BY <1>8 DEF Settle, IInv
  <1>9. CASE Grow
    <2>1. CASE Fails
      BY <2>1, <1>f
    <2>2. CASE ~Fails
      <3>1. held' \in OpenLayout(FreeLayout(held)) /\ phase' \in {phase, "finish"} /\ phase = "grow"
        BY <1>9, <2>2 DEF Grow
      <3> QED
        BY <3>1, LayoutMadeAgain DEF IInv
    <2> QED
      BY <2>1, <2>2
  <1>10. CASE Finish
    <2>1. CASE Fails
      BY <2>1, <1>f
    <2>2. CASE ~Fails
      BY <1>10, <2>2 DEF Finish, IInv
    <2> QED
      BY <2>1, <2>2
  <1>11. CASE Reshape
    <2>1. phase = "serving"
      BY <1>11 DEF Reshape
    <2>2. \/ held' \in OpenLayout(FreeLayout(held)) /\ phase' = phase
          \/ held' = FreeLayout(held) /\ phase' = "retired"
      BY <1>11 DEF Reshape
    <2> QED
      BY <2>1, <2>2, LayoutFreed, LayoutMadeAgain DEF IInv
  <1>12. CASE Close
    BY <1>12, NothingIsHeld DEF Close, IInv
  <1>13. CASE UNCHANGED vars
    BY <1>13 DEF vars, IInv
  <1> QED
    BY <1>1, <1>2, <1>3, <1>4, <1>5, <1>6, <1>7, <1>8, <1>9, <1>10, <1>11, <1>12, <1>13 DEF Next, Open

THEOREM InvariantHolds == Spec => []IInv
  BY InitHolds, NextKeeps, PTL DEF Spec

\* Whatever is read and whichever step of opening, dividing again or closing a
\* model fails, what was allocated is there once and with what it rests on, and
\* nothing of it is left at the end (Open's error paths, contextBuilder, Close).
THEOREM LeaksNothing == Spec => []NothingLeaks
  <1>1. IInv => NothingLeaks
    BY DEF IInv, NothingLeaks, Empty, Bare, Made, Nothing, Resources
  <1> QED
    BY <1>1, InvariantHolds, PTL

-----------------------------------------------------------------------------
(* The operator's numbers.                                                 *)

Chosen == {"context", "fit", "grow", "finish"}
Served == {"serving", "retired", "closed"}
Laid == [slots : Nat, prefix : Nat, perSeq : Nat, shared : BOOLEAN, ubatch : Nat, moe : Nat]

\* A layout has the numbers that were given.
Kept(h) ==
    /\ h.slots # 0
    /\ opts.ctx > 0 => h.perSeq = opts.ctx
    /\ opts.slots > 0 /\ (opts.ctx > 0 \/ Reserved \/ ~opts.fixedLayout)
          => h.slots = opts.slots /\ (opts.prefix # 0 => h.prefix = AtLeast(opts.prefix, 0))
    /\ opts.prefix # 0 => h.prefix <= AtLeast(opts.prefix, 0) /\ h.shared = FALSE
    /\ opts.batch > 0 => h.ubatch = AtMost(opts.batch, MaxBatch)
    /\ opts.batch = 0 => h.ubatch >= UbatchDefault
    /\ opts.moeCache > 0 /\ shape.moe => h.moe = opts.moeCache

Inputs == /\ opts \in Asking /\ shape \in Shaped /\ Len(shape.expertSizes) = Len(shape.layerSizes)
          /\ gpu \in [total : Nat, free : Nat, known : BOOLEAN] /\ workers \in Seq(Nat)
PlacedRight ==
    /\ placed.moeCache \in Nat
    /\ Reserved => placed.slots = AtLeast(opts.slots, 1) /\ placed.tokens \in Nat \ {0} /\ placed.ubatch \in Nat
    /\ phase \notin {"start", "weights", "failed"} =>
          /\ opts.hostExperts # 0 => placed.hostExperts = opts.hostExperts
          /\ opts.moeCache > 0 => placed.moeCache = opts.moeCache

\* A plan's widest pass.
LEMMA PassIs ==
  ASSUME Inputs, PlacedRight, NEW p
  PROVE  /\ Ubatch(p) \in Nat
         /\ opts.batch > 0 => Ubatch(p) = AtMost(opts.batch, MaxBatch)
         /\ opts.batch = 0 => Ubatch(p) >= UbatchDefault
  <1>0. opts.batch \in Nat
    BY DEF Inputs, Asking
  <1>1. CASE UbAuto
    <2> DEFINE a == AutoUbatch(Longest(p), Sub(gpu.free, Left) + p.estimated, gpu.free)
               S == (IF placed.hostExperts # 0 THEN {UbatchHost} ELSE {}) \cup (IF Reserved THEN {placed.ubatch} ELSE {})
    <2>1. Ubatch(p) = Max({a} \cup S)
      BY <1>1 DEF Ubatch
    <2>2. a \in Nat /\ a >= UbatchDefault
      BY UbatchIs
    <2> HIDE DEF a
    <2> DEFINE u == IF Reserved THEN placed.ubatch ELSE 0
    <2>3. u \in Nat
      BY DEF PlacedRight
    <2> HIDE DEF u
    <2>4. UbatchHost \in Nat /\ S \subseteq {UbatchHost, u}
      BY SMT DEF UbatchHost, u
    <2>5. S \subseteq Nat /\ UbatchHost + u \in Nat /\ \A m \in S : m <= UbatchHost + u
      BY <2>3, <2>4
    <2> HIDE DEF S
    <2>6. UbatchDefault \in Nat /\ UbatchDefault <= a
      BY <2>2 DEF UbatchDefault
    <2>7. Max({a} \cup S) \in Nat /\ Max({a} \cup S) >= UbatchDefault
      BY <2>2, <2>5, <2>6, Least
    <2> QED
      BY <1>1, <2>1, <2>7 DEF UbAuto
  <1>2. CASE ~UbAuto
    BY <1>0, <1>2 DEF UbAuto, Ubatch, AtMost, MaxBatch
  <1> QED
    BY <1>1, <1>2

\* The plan has the numbers given, if there is one.
LEMMA PlannedIs ==
  ASSUME Inputs, PlacedRight, NEW p \in Sizes, p.perSeq # 0
  PROVE  /\ p.slots \in Nat \ {0} /\ p.prefix \in Nat /\ p.perSeq \in Nat /\ p.shared \in BOOLEAN
         /\ opts.ctx > 0 => p.perSeq = opts.ctx
         /\ opts.slots > 0 /\ (opts.ctx > 0 \/ Reserved \/ ~opts.fixedLayout)
               => p.slots = opts.slots /\ (opts.prefix # 0 => p.prefix = AtLeast(opts.prefix, 0))
         /\ opts.prefix # 0 => p.prefix <= AtLeast(opts.prefix, 0) /\ p.shared = FALSE
  <1> DEFINE ctx == IF ByTotal THEN SizeTotal(shape, gpu.total, Left, opts.slots) ELSE Ctx
  <1>1. /\ opts.slots \in Nat /\ opts.ctx \in Nat /\ opts.prefix \in Int /\ opts.fixedLayout \in BOOLEAN
        /\ shape \in Shaped /\ gpu.total \in Nat
    BY DEF Inputs, Asking
  <1>2. /\ Ctx \in Nat /\ SlotsWant \in Nat
        /\ Reserved => Ctx > 0
        /\ opts.ctx > 0 => Ctx = opts.ctx
        /\ opts.slots > 0 => SlotsWant = opts.slots
    BY <1>1 DEF PlacedRight, Ctx, SlotsWant, Given, AtLeast
  <1>3. ctx \in Nat
    <2>1. CASE ByTotal
      <3>1. opts.slots \in Nat \ {0}
        BY <1>1, <2>1 DEF ByTotal
      <3> QED
        BY <1>1, <2>1, <3>1, TotalIs
    <2>2. CASE ~ByTotal
      BY <1>2, <2>2
    <2> QED
      BY <2>1, <2>2
  <1>4. p = IF ctx = 0 /\ ByTotal THEN NoPlan ELSE AutoSize(shape, Left, SlotsWant, opts.prefix, ctx)
    BY DEF Sizes
  <1>5. NoPlan.perSeq = 0
    BY DEF NoPlan
  <1>6. ~(ctx = 0 /\ ByTotal)
    <2> HIDE DEF ctx
    <2> QED
      BY <1>4, <1>5
  <1>7. /\ opts.ctx > 0 => ctx = opts.ctx
        /\ Reserved \/ ~opts.fixedLayout => (opts.slots > 0 => ctx > 0)
    <2>1. CASE ByTotal
      <3>1. Ctx = 0
        BY <2>1 DEF ByTotal
      <3>2. ctx > 0
        <4> HIDE DEF ctx
        <4> QED
          BY <1>3, <1>6, <2>1
      <3> HIDE DEF ctx
      <3> QED
        BY <1>2, <3>1, <3>2
    <2>2. CASE ~ByTotal
      <3>1. ctx = Ctx
        BY <2>2
      <3>2. opts.slots > 0 /\ ~opts.fixedLayout => Ctx > 0
        BY <1>2, <2>2 DEF ByTotal
      <3> HIDE DEF ctx
      <3> QED
        BY <1>2, <3>1, <3>2
    <2> QED
      BY <2>1, <2>2
  <1> HIDE DEF ctx
  <1>8. Answers(p, SlotsWant, opts.prefix, ctx)
    <2>1. p = AutoSize(shape, Left, SlotsWant, opts.prefix, ctx)
      BY <1>4, <1>6
    <2> QED
      BY <1>1, <1>2, <1>3, <2>1, AutoSizeIs
  <1>9. p.slots \in Nat \ {0} /\ p.prefix \in Nat /\ p.perSeq \in Nat /\ p.shared \in BOOLEAN
    BY <1>8 DEF Answers
  <1>10. opts.ctx > 0 => p.perSeq = opts.ctx
    BY <1>1, <1>7, <1>8 DEF Answers
  <1>11. opts.slots > 0 /\ (opts.ctx > 0 \/ Reserved \/ ~opts.fixedLayout)
               => p.slots = opts.slots /\ (opts.prefix # 0 => p.prefix = AtLeast(opts.prefix, 0))
    BY <1>1, <1>2, <1>7, <1>8 DEF Answers
  <1>12. opts.prefix # 0 => p.prefix <= AtLeast(opts.prefix, 0) /\ p.shared = FALSE
    BY <1>8 DEF Answers
  <1> QED
    BY <1>9, <1>10, <1>11, <1>12

NumbersInv ==
    /\ phase \in Empty \cup Bare \cup Made
    /\ Inputs /\ PlacedRight
    /\ now \in Laid /\ home.layout \in Laid
    /\ left \in Readings \cup {0} /\ afterModel \in Readings \cup {0}
    /\ phase \in Chosen => Kept(now)
    /\ phase \in Served => Kept(home.layout) /\ now.ubatch = home.layout.ubatch /\ now.moe = home.layout.moe

LEMMA Naturals ==
  ASSUME Inputs
  PROVE  /\ opts.slots \in Nat /\ opts.ctx \in Nat /\ opts.prefix \in Int /\ opts.batch \in Nat /\ opts.moeCache \in Nat
         /\ opts.hostExperts \in Int /\ opts.draft \in Int
         /\ opts.fixedLayout \in BOOLEAN /\ shape.moe \in BOOLEAN /\ shape.trained \in Nat /\ shape.draft \in Nat
  BY DEF Inputs, Asking, Shaped

LEMMA PassLowered ==
  ASSUME Inputs, NEW h \in Laid, Kept(h), UbAuto
  PROVE  LET g == [h EXCEPT !.ubatch = LowerUbatch(@)] IN g \in Laid /\ Kept(g)
  <1> DEFINE g == [h EXCEPT !.ubatch = LowerUbatch(@)]
  <1>1. LowerUbatch(h.ubatch) \in Nat /\ LowerUbatch(h.ubatch) >= UbatchDefault
    BY DEF Laid, LowerUbatch, AtLeast, UbatchDefault
  <1>2. g \in Laid /\ g.ubatch >= UbatchDefault
    BY <1>1 DEF Laid
  <1>3. g.slots = h.slots /\ g.prefix = h.prefix /\ g.perSeq = h.perSeq /\ g.shared = h.shared /\ g.moe = h.moe
    BY DEF Laid
  <1> HIDE DEF g
  <1>4. Kept(g)
    BY <1>2, <1>3, Naturals DEF Kept, UbAuto
  <1> QED
    BY <1>2, <1>4 DEF g

\* Whatever is given up, what the operator gave is not.
LEMMA SmallerKeeps ==
  ASSUME NumbersInv, Kept(now), NEW h \in Smaller
  PROVE  h \in Laid /\ Kept(h)
  <1>0. Inputs /\ PlacedRight /\ now \in Laid /\ left \in Nat
    BY OpeningAssumption DEF NumbersInv
  <1> DEFINE tight == now.perSeq \div 2 < Floor(shape)
             pool == (tight \/ ~CtxAuto) /\ PrefixAuto /\ now.prefix > 0
             narrower == UbAuto /\ now.ubatch > UbatchDefault
             cut == CacheCut(Spare, left)
             cacheAuto == placed.hostExperts # 0 /\ opts.moeCache = 0 /\ MoeCache > 0
             low == [now EXCEPT !.ubatch = LowerUbatch(@)]
             fewer == [now EXCEPT !.slots = @ \div 2, !.prefix = PoolFor(now.slots \div 2, @)]
             borrows == [now EXCEPT !.shared = TRUE]
             cached == [now EXCEPT !.moe = @ - cut]
             less == [now EXCEPT !.prefix = @ - 1]
             shorter == [now EXCEPT !.perSeq = @ \div 2]
             long == now.perSeq \div 2 >= 2048
  <1>1. \/ narrower /\ h = low
        \/ tight /\ SlotsAuto /\ now.slots > 1 /\ h = fewer
        \/ pool /\ ~now.shared /\ h = borrows
        \/ pool /\ cacheAuto /\ now.moe - cut >= MoeCache \div 2 /\ h = cached
        \/ pool /\ h = less
        \/ CtxAuto /\ long /\ h = shorter
    <2>1. PICK i \in DOMAIN Steps : h \in Steps[i]
      BY DEF Smaller
    <2>2. Steps = <<Step(narrower /\ placed.hostExperts = 0, low),
                    Step(tight /\ SlotsAuto /\ now.slots > 1, fewer),
                    Step(pool /\ ~now.shared, borrows),
                    Step(pool /\ cacheAuto /\ now.moe - cut >= MoeCache \div 2, cached),
                    Step(pool, less),
                    Step(CtxAuto /\ long, shorter),
                    Step(narrower, low)>>
      BY DEF Steps
    <2> HIDE DEF tight, pool, narrower, cut, cacheAuto, low, fewer, borrows, cached, less, shorter, long
    <2>3. i \in 1..7
      BY <2>1, <2>2
    <2>4. \/ h \in Step(narrower /\ placed.hostExperts = 0, low)
          \/ h \in Step(tight /\ SlotsAuto /\ now.slots > 1, fewer)
          \/ h \in Step(pool /\ ~now.shared, borrows)
          \/ h \in Step(pool /\ cacheAuto /\ now.moe - cut >= MoeCache \div 2, cached)
          \/ h \in Step(pool, less)
          \/ h \in Step(CtxAuto /\ long, shorter)
          \/ h \in Step(narrower, low)
      BY <2>1, <2>2, <2>3
    <2>5. h \in Step(narrower /\ placed.hostExperts = 0, low) => narrower /\ h = low
      BY Zenon DEF Step
    <2>6. h \in Step(tight /\ SlotsAuto /\ now.slots > 1, fewer) => tight /\ SlotsAuto /\ now.slots > 1 /\ h = fewer
      BY Zenon DEF Step
    <2>7. h \in Step(pool /\ ~now.shared, borrows) => pool /\ ~now.shared /\ h = borrows
      BY Zenon DEF Step
    <2>8. h \in Step(pool /\ cacheAuto /\ now.moe - cut >= MoeCache \div 2, cached)
            => pool /\ cacheAuto /\ now.moe - cut >= MoeCache \div 2 /\ h = cached
      BY Zenon DEF Step
    <2>9. h \in Step(pool, less) => pool /\ h = less
      BY Zenon DEF Step
    <2>10. h \in Step(CtxAuto /\ long, shorter) => CtxAuto /\ long /\ h = shorter
      BY Zenon DEF Step
    <2>11. h \in Step(narrower, low) => narrower /\ h = low
      BY Zenon DEF Step
    <2> QED
      BY <2>4, <2>5, <2>6, <2>7, <2>8, <2>9, <2>10, <2>11
  <1>n. /\ now.slots \in Nat /\ now.prefix \in Nat /\ now.perSeq \in Nat /\ now.shared \in BOOLEAN
        /\ now.ubatch \in Nat /\ now.moe \in Nat
    BY <1>0 DEF Laid
  <1>2. CASE narrower /\ h = low
    BY <1>0, <1>2, PassLowered
  <1>3. CASE SlotsAuto /\ now.slots > 1 /\ h = fewer
    <2> DEFINE s == now.slots \div 2
               p == PoolFor(s, now.prefix)
    <2>1. s \in Nat /\ s # 0
      BY <1>n, <1>3
    <2>2. p \in Nat /\ p <= now.prefix
      <3> HIDE DEF s
      <3> QED
        BY <1>n, <2>1, PoolIs
    <2> HIDE DEF s, p
    <2>3. h = [[now EXCEPT !.slots = s] EXCEPT !.prefix = p]
      BY <1>0, <1>3 DEF s, p, Laid
    <2>4. /\ h \in Laid /\ h.slots = s /\ h.prefix = p /\ h.perSeq = now.perSeq /\ h.shared = now.shared
          /\ h.ubatch = now.ubatch /\ h.moe = now.moe
      BY <1>0, <2>1, <2>2, <2>3 DEF Laid
    <2>5. opts.prefix # 0 => h.prefix <= AtLeast(opts.prefix, 0)
      <3>1. opts.prefix # 0 => now.prefix <= AtLeast(opts.prefix, 0)
        BY DEF Kept
      <3>2. AtLeast(opts.prefix, 0) \in Nat
        BY <1>0, Naturals DEF AtLeast
      <3> QED
        BY <1>n, <2>2, <2>4, <3>1, <3>2
    <2>6. opts.slots = 0
      BY <1>3 DEF SlotsAuto
    <2> QED
      BY <2>1, <2>4, <2>5, <2>6 DEF Kept
  <1>4. CASE PrefixAuto /\ h = borrows
    <2>1. /\ h \in Laid /\ h.slots = now.slots /\ h.prefix = now.prefix /\ h.perSeq = now.perSeq
          /\ h.ubatch = now.ubatch /\ h.moe = now.moe
      BY <1>0, <1>4 DEF Laid
    <2>2. opts.prefix = 0
      BY <1>4 DEF PrefixAuto
    <2> QED
      BY <2>1, <2>2 DEF Kept
  <1>5. CASE pool /\ cacheAuto /\ now.moe - cut >= MoeCache \div 2 /\ h = cached
    <2>1. MoeCache \in Nat
      BY <1>0 DEF MoeCache, PlacedRight
    <2>2. MoeCache \div 2 \in Nat
      BY <2>1
    <2>3. cut \in Int
      BY <1>0 DEF CacheCut, Sub, AtLeast, Spare, FitReserve, ThinHeadroom, CacheSlack
    <2> HIDE DEF cut
    <2>4. now.moe - cut \in Nat
      BY <1>n, <1>5, <2>2, <2>3
    <2>5. /\ h \in Laid /\ h.slots = now.slots /\ h.prefix = now.prefix /\ h.perSeq = now.perSeq
          /\ h.shared = now.shared /\ h.ubatch = now.ubatch
      BY <1>0, <1>5, <2>4 DEF Laid
    <2>6. opts.moeCache = 0
      BY <1>5
    <2> QED
      BY <2>5, <2>6 DEF Kept
  <1>6. CASE pool /\ h = less
    <2>1. now.prefix - 1 \in Nat
      BY <1>n, <1>6
    <2>2. /\ h \in Laid /\ h.slots = now.slots /\ h.perSeq = now.perSeq
          /\ h.shared = now.shared /\ h.ubatch = now.ubatch /\ h.moe = now.moe
      BY <1>0, <1>6, <2>1 DEF Laid
    <2>3. opts.prefix = 0
      BY <1>6 DEF PrefixAuto
    <2> QED
      BY <2>2, <2>3 DEF Kept
  <1>7. CASE CtxAuto /\ h = shorter
    <2>1. now.perSeq \div 2 \in Nat
      BY <1>n
    <2>2. /\ h \in Laid /\ h.slots = now.slots /\ h.prefix = now.prefix
          /\ h.shared = now.shared /\ h.ubatch = now.ubatch /\ h.moe = now.moe
      BY <1>0, <1>7, <2>1 DEF Laid
    <2>3. opts.ctx = 0
      BY <1>7 DEF CtxAuto
    <2> QED
      BY <2>2, <2>3, <1>0, Naturals DEF Kept
  <1> HIDE DEF tight, pool, narrower, cut, cacheAuto, low, fewer, borrows, cached, less, shorter, long
  <1>8. pool => PrefixAuto
    BY DEF pool
  <1> QED
    BY <1>1, <1>2, <1>3, <1>4, <1>5, <1>6, <1>7, <1>8

\* A context divided otherwise is one.
LEMMA DividedIs ==
  ASSUME Inputs, home.layout \in Laid, NEW n \in 1..home.layout.slots
  PROVE  /\ LayoutOf(n) \in Laid
         /\ LayoutOf(n).ubatch = home.layout.ubatch /\ LayoutOf(n).moe = home.layout.moe
  <1> DEFINE h == home.layout
  <1>1. h.slots \in Nat /\ h.perSeq \in Nat /\ n \in Nat \ {0} /\ shape.trained \in Nat
    BY Naturals DEF Laid
  <1>2. HomeTokens \in Nat
    BY <1>1 DEF HomeTokens
  <1>3. Most \in Nat
    BY <1>1, <1>2 DEF Most, AtMost
  <1>4. Per(n) \in Nat
    <2>1. HomeTokens \div n \in Nat
      BY <1>1, <1>2
    <2>2. AtMost(HomeTokens \div n, Most) \in Nat
      BY <1>3, <2>1 DEF AtMost
    <2>3. (AtMost(HomeTokens \div n, Most) \div 256) * 256 \in Nat
      BY <2>2
    <2> QED
      BY <1>1, <2>3 DEF Per
  <1>5. LayoutOf(n) = IF n = h.slots THEN h
                      ELSE [[[[h EXCEPT !.slots = n] EXCEPT !.prefix = 0] EXCEPT !.perSeq = Per(n)] EXCEPT !.shared = FALSE]
    BY DEF LayoutOf, Laid
  <1> HIDE DEF h
  <1>6. h \in Laid
    BY DEF h
  <1>7. ASSUME n # h.slots PROVE LayoutOf(n) \in Laid /\ LayoutOf(n).ubatch = h.ubatch /\ LayoutOf(n).moe = h.moe
    <2> DEFINE a == [h EXCEPT !.slots = n]
               b == [a EXCEPT !.prefix = 0]
               c == [b EXCEPT !.perSeq = Per(n)]
               d == [c EXCEPT !.shared = FALSE]
    <2>1. a \in Laid /\ a.ubatch = h.ubatch /\ a.moe = h.moe
      BY <1>1, <1>6 DEF Laid
    <2>2. b \in Laid /\ b.ubatch = a.ubatch /\ b.moe = a.moe
      <3> HIDE DEF a
      <3> QED
        BY <2>1 DEF Laid
    <2>3. c \in Laid /\ c.ubatch = b.ubatch /\ c.moe = b.moe
      <3> HIDE DEF b
      <3> QED
        BY <1>4, <2>2 DEF Laid
    <2>4. d \in Laid /\ d.ubatch = c.ubatch /\ d.moe = c.moe
      <3> HIDE DEF c
      <3> QED
        BY <2>3 DEF Laid
    <2>5. LayoutOf(n) = d
      BY <1>5, <1>7
    <2> HIDE DEF a, b, c, d
    <2> QED
      BY <2>1, <2>2, <2>3, <2>4, <2>5
  <1>8. n = h.slots => LayoutOf(n) = h
    BY <1>5
  <1> QED
    BY <1>6, <1>7, <1>8 DEF h

LEMMA DraftIs ==
  ASSUME NEW sh \in Shaped, NEW want \in Int
  PROVE  Drafts(sh, want, TRUE) \in Nat
  BY DEF Drafts, AtMost, MaxDraft, MoeDraft, DefaultDraft

\* A shape that drafts otherwise is one.
LEMMA DraftingIs ==
  ASSUME NEW sh \in Shaped, NEW d \in Nat
  PROVE  LET g == [sh EXCEPT !.draft = d] IN
         g \in Shaped /\ g.layerSizes = sh.layerSizes /\ g.expertSizes = sh.expertSizes /\ g.moe = sh.moe
  BY DEF Shaped

LEMMA NumbersInit == Init => NumbersInv
  <1> SUFFICES ASSUME Init PROVE NumbersInv
    OBVIOUS
  <1>1. opts \in Asking /\ gpu \in [total : Nat, free : Nat, known : BOOLEAN] /\ workers = <<>> /\ phase = "start"
    BY OpeningAssumption DEF Init
  <1>2. PICK m \in Models : shape = [m EXCEPT !.draft = Drafts(m, opts.draft, TRUE)]
    BY DEF Init
  <1>3. m \in Shaped /\ Len(m.expertSizes) = Len(m.layerSizes) /\ opts.draft \in Int
    BY <1>1, OpeningAssumption DEF Asking
  <1>4. shape \in Shaped /\ Len(shape.expertSizes) = Len(shape.layerSizes)
    BY <1>2, <1>3, DraftIs, DraftingIs
  <1>5. Inputs
    <2>1. <<>> \in Seq(Nat)
      OBVIOUS
    <2> QED
      BY <1>1, <1>4, <2>1 DEF Inputs
  <1>6. placed.moeCache \in Nat /\ ~Reserved
    BY DEF Init, Nowhere, Reserved
  <1>7. PlacedRight
    BY <1>1, <1>6 DEF PlacedRight
  <1>8. now \in Laid /\ home.layout \in Laid
    BY DEF Init, NoContext, Laid
  <1> QED
    BY <1>1, <1>5, <1>7, <1>8 DEF NumbersInv, Init, Empty, Chosen, Served

\* Where the weights are put.
LEMMA WeightsKeep == NumbersInv /\ Weights => NumbersInv'
  <1> SUFFICES ASSUME NumbersInv, Weights PROVE NumbersInv'
    OBVIOUS
  <1>0. Inputs
    BY DEF NumbersInv
  <1> DEFINE Elsewhere == [layers |-> <<>>, placement |-> [Nowhere EXCEPT !.hostExperts = opts.hostExperts,
                                                                         !.moeCache = opts.moeCache]]
             Here == [layers |-> <<>>, placement |-> PlaceFor]
             Free == [layers |-> <<>>, placement |-> Nowhere]
             Right(p) == /\ p.moeCache \in Nat
                         /\ p.reserve # 0 => p.slots = AtLeast(opts.slots, 1) /\ p.tokens \in Nat \ {0} /\ p.ubatch \in Nat
  <1>1. PICK where \in {CASE ~(Unplaced /\ gpu.known) -> Elsewhere
                          [] Unplaced /\ gpu.known /\ workers = <<>> -> Here
                          [] OTHER -> IF opts.split \/ shape.layerSizes = <<>> THEN Free ELSE PlaceAcross} :
             /\ placed' = where.placement
             /\ shape' = IF where.placement.hostExperts # 0 /\ opts.draft = 0 THEN [shape EXCEPT !.draft = 0] ELSE shape
    BY DEF Weights
  <1>2. \/ ~(Unplaced /\ gpu.known) /\ where = Elsewhere
        \/ Unplaced /\ where \in {Here, Free}
        \/ Unplaced /\ where = PlaceAcross
    <2> HIDE DEF Elsewhere, Here, Free
    <2>1. CASE ~(Unplaced /\ gpu.known)
      BY <1>1, <2>1
    <2>2. CASE Unplaced /\ gpu.known /\ workers = <<>>
      BY <1>1, <2>2
    <2>3. CASE Unplaced /\ gpu.known /\ workers # <<>>
      BY <1>1, <2>3
    <2> QED
      BY <2>1, <2>2, <2>3
  <1>3. /\ opts.slots \in Nat /\ opts.ctx \in Nat /\ opts.batch \in Nat /\ opts.moeCache \in Nat
        /\ opts.hostExperts \in Int /\ gpu.free \in Nat /\ shape \in Shaped
    BY <1>0 DEF Inputs, Asking
  <1>4. /\ Room.reserve \in Int /\ Room.slots = AtLeast(opts.slots, 1) /\ Room.ubatch \in Nat
        /\ Room.tokens \in Nat \ {0}
    BY <1>3, RoomIs DEF Room
  <1>5. Right(Nowhere)
    BY DEF Nowhere
  <1>6. ASSUME NEW p, p.moeCache \in Nat PROVE Right(In(p, Room))
    BY <1>4, <1>6 DEF In
  <1>7. Right(PlaceFor)
    <2> DEFINE p == Place(shape, gpu.free, Room.reserve)
    <2>1. p.moeCache \in Nat
      BY <1>3, <1>4, PlacedHere
    <2>2. PlaceFor = IF p.hostExperts = 0 THEN Nowhere ELSE In(p, Room)
      BY DEF PlaceFor
    <2> HIDE DEF p, Right
    <2> QED
      BY <1>5, <1>6, <2>1, <2>2
  <1>8. Right(PlaceAcross.placement)
    <2> DEFINE d == PlaceDevices(shape, Append(workers, gpu.free), Room.reserve, PeerReserve(shape, Room.ubatch))
    <2>1. Append(workers, gpu.free) \in Seq(Nat) /\ Append(workers, gpu.free) # <<>>
      <3>1. workers \in Seq(Nat)
        BY <1>0 DEF Inputs
      <3> QED
        BY <1>3, <3>1
    <2>2. Len(shape.expertSizes) = Len(shape.layerSizes)
      BY <1>0 DEF Inputs
    <2>3. d.placement.moeCache \in Nat
      BY <1>3, <1>4, <2>1, <2>2, PlacedAcross
    <2>4. d = [layers |-> d.layers, placement |-> d.placement]
      <3> QED
        BY DEF PlaceDevices
    <2>5. PlaceAcross = IF d.layers = <<>> \/ Last(d.layers) = Len(shape.layerSizes) THEN [d EXCEPT !.placement = Nowhere]
                        ELSE [d EXCEPT !.placement = In(d.placement, Room)]
      BY DEF PlaceAcross
    <2> HIDE DEF d
    <2>6. PlaceAcross.placement \in {Nowhere, In(d.placement, Room)}
      BY <2>4, <2>5
    <2> HIDE DEF Right
    <2> QED
      BY <1>5, <1>6, <2>3, <2>6
  <1>9. /\ Elsewhere.placement.moeCache = opts.moeCache /\ Elsewhere.placement.hostExperts = opts.hostExperts
        /\ Elsewhere.placement.reserve = 0
    BY DEF Nowhere
  <1>10. Right(where.placement)
    <2>1. Right(Elsewhere.placement)
      <3> HIDE DEF Elsewhere
      <3> QED
        BY <1>3, <1>9
    <2>2. Here.placement = PlaceFor /\ Free.placement = Nowhere
      OBVIOUS
    <2> HIDE DEF Right, Elsewhere, Here, Free
    <2> QED
      BY <1>2, <1>5, <1>7, <1>8, <2>1, <2>2
  <1>11. /\ opts.hostExperts # 0 => placed'.hostExperts = opts.hostExperts
         /\ opts.moeCache > 0 => placed'.moeCache = opts.moeCache
    <2>1. CASE where = Elsewhere
      <3> HIDE DEF Elsewhere
      <3> QED
        BY <1>1, <1>9, <2>1
    <2>2. CASE Unplaced
      BY <2>2 DEF Unplaced
    <2> QED
      BY <1>2, <2>1, <2>2
  <1>12. PlacedRight'
    <2>1. placed' = where.placement /\ opts' = opts
      BY <1>1 DEF Weights
    <2> HIDE DEF Elsewhere, Here, Free
    <2> QED
      BY <1>10, <1>11, <2>1 DEF PlacedRight, Reserved
  <1>13. Inputs'
    <2>1. shape' = shape \/ shape' = [shape EXCEPT !.draft = 0]
      BY <1>1
    <2>2. shape' \in Shaped /\ Len(shape'.expertSizes) = Len(shape'.layerSizes)
      <3>1. Len(shape.expertSizes) = Len(shape.layerSizes)
        BY <1>0 DEF Inputs
      <3>2. CASE shape' = shape
        BY <1>3, <3>1, <3>2
      <3>3. CASE shape' = [shape EXCEPT !.draft = 0]
        <4>1. 0 \in Nat
          OBVIOUS
        <4> QED
          BY <1>3, <3>1, <3>3, <4>1, DraftingIs
      <3> QED
        BY <2>1, <3>2, <3>3
    <2> QED
      BY <1>0, <2>2 DEF Inputs, Weights
  <1>14. phase' = "load" /\ now' = now /\ home' = home /\ left' = left /\ afterModel' = afterModel
    BY DEF Weights, afterwards
  <1>15. /\ now' \in Laid /\ home'.layout \in Laid
         /\ left' \in Readings \cup {0} /\ afterModel' \in Readings \cup {0}
    BY <1>14 DEF NumbersInv
  <1>16. phase' \in Empty \cup Bare \cup Made /\ phase' \notin Chosen \cup Served
    BY <1>14 DEF Empty, Chosen, Served
  <1> QED
    BY <1>12, <1>13, <1>15, <1>16 DEF NumbersInv

\* What neither the numbers nor what they rest on changes in.
LEMMA NumbersStay ==
  ASSUME NumbersInv, UNCHANGED <<opts, shape, gpu, workers, placed, now, home>>,
         left' \in Readings \cup {0}, afterModel' \in Readings \cup {0},
         phase' \in Empty \cup Bare \cup Made,
         phase' \in Chosen => phase \in Chosen, phase' \in Served => phase \in Served,
         phase' \notin {"start", "weights", "failed"} => phase \notin {"start", "weights", "failed"}
  PROVE  NumbersInv'
  <1>1. Inputs'
    BY DEF NumbersInv, Inputs
  <1>2. PlacedRight'
    BY DEF NumbersInv, PlacedRight, Reserved
  <1>3. phase' \in Chosen => Kept(now)'
    BY DEF NumbersInv, Kept, Reserved
  <1>4. phase' \in Served => Kept(home.layout)' /\ now'.ubatch = home'.layout.ubatch /\ now'.moe = home'.layout.moe
    BY DEF NumbersInv, Kept, Reserved
  <1> QED
    BY <1>1, <1>2, <1>3, <1>4 DEF NumbersInv

\* A context made again in another layout.
LEMMA NumbersRelaid ==
  ASSUME NumbersInv, phase \in Chosen, UNCHANGED <<opts, shape, gpu, workers, placed, afterModel, home>>,
         now' \in Laid, Kept(now'), left' \in Readings \cup {0}, phase' \in Chosen
  PROVE  NumbersInv'
  <1>1. Inputs'
    BY DEF NumbersInv, Inputs
  <1>2. PlacedRight'
    BY DEF NumbersInv, PlacedRight, Reserved, Chosen
  <1>3. Kept(now)'
    BY DEF Kept, Reserved
  <1>4. phase' \in Empty \cup Bare \cup Made /\ phase' \notin Served
    BY DEF Chosen, Served, Bare, Made
  <1> QED
    BY <1>1, <1>2, <1>3, <1>4 DEF NumbersInv

LEMMA SampleIs == Sample \subseteq Readings \cup {0}
  BY DEF Sample

LEMMA NumbersNext == NumbersInv /\ [Next]_vars => NumbersInv'
  <1> SUFFICES ASSUME NumbersInv, [Next]_vars PROVE NumbersInv'
    OBVIOUS
  <1> USE DEF Empty, Bare, Made, Chosen, Served
  <1>0. left \in Readings \cup {0} /\ afterModel \in Readings \cup {0} /\ phase \in Empty \cup Bare \cup Made
    BY DEF NumbersInv
  <1>1. CASE Borrow
    <2>1. PICK w \in Workers \cup {<<>>} : workers' = w /\ shape' = IF w = <<>> THEN shape ELSE [shape EXCEPT !.draft = 0]
      BY <1>1 DEF Borrow, Borrowed
    <2>2. workers' \in Seq(Nat)
      <3>1. <<>> \in Seq(Nat)
        OBVIOUS
      <3> QED
        BY <2>1, <3>1, OpeningAssumption
    <2>3. shape' \in Shaped /\ Len(shape'.expertSizes) = Len(shape'.layerSizes)
      <3>1. shape \in Shaped /\ Len(shape.expertSizes) = Len(shape.layerSizes) /\ 0 \in Nat
        BY DEF NumbersInv, Inputs
      <3>2. CASE shape' = shape
        BY <3>1, <3>2
      <3>3. CASE shape' = [shape EXCEPT !.draft = 0]
        BY <3>1, <3>3, DraftingIs
      <3> QED
        BY <2>1, <3>2, <3>3
    <2>4. /\ phase' = "weights" /\ opts' = opts /\ gpu' = gpu /\ placed' = placed /\ now' = now /\ home' = home
          /\ left' = left /\ afterModel' = afterModel
      BY <1>1 DEF Borrow, Borrowed, afterwards
    <2>5. Inputs'
      BY <2>2, <2>3, <2>4 DEF NumbersInv, Inputs
    <2>6. PlacedRight'
      BY <2>4 DEF NumbersInv, PlacedRight, Reserved
    <2> QED
      BY <1>0, <2>4, <2>5, <2>6 DEF NumbersInv
  <1>2. CASE PeersFail
    BY <1>0, <1>2, NumbersStay DEF PeersFail, Fails, afterwards
  <1>3. CASE Weights
    BY <1>3, WeightsKeep
  <1>4. CASE Load
    <2>1. afterModel' \in Readings \cup {0} /\ phase' \in {"size", "failed"} /\ phase = "load"
      BY <1>0, <1>4 DEF Load, Fails
    <2>2. UNCHANGED <<opts, shape, gpu, workers, placed, now, home, left>>
      BY <1>4 DEF Load, afterwards
    <2> QED
      BY <1>0, <2>1, <2>2, NumbersStay
  <1>5. CASE Size
    <2>0. UNCHANGED <<opts, shape, gpu, workers, placed, afterModel, left, home>> /\ phase = "size"
      BY <1>5 DEF Size, afterwards
    <2>1. CASE Fails /\ UNCHANGED now
      BY <1>0, <2>0, <2>1, NumbersStay DEF Fails
    <2>2. CASE ~(Fails /\ UNCHANGED now)
      <3>1. PICK p \in Sizes : /\ p.perSeq # 0 /\ phase' = "context"
                               /\ now' = [slots |-> p.slots, prefix |-> p.prefix, perSeq |-> p.perSeq,
                                          shared |-> p.shared, ubatch |-> Ubatch(p), moe |-> MoeCache]
        BY <1>5, <2>2 DEF Size
      <3>2. Inputs /\ PlacedRight
        BY DEF NumbersInv
      <3> DEFINE u == Ubatch(p)
                 e == MoeCache
      <3>3. /\ u \in Nat
            /\ opts.batch > 0 => u = AtMost(opts.batch, MaxBatch)
            /\ opts.batch = 0 => u >= UbatchDefault
        BY <3>2, PassIs
      <3>4. e \in Nat /\ (opts.moeCache > 0 /\ shape.moe => e = opts.moeCache)
        BY <2>0, <3>2 DEF PlacedRight, MoeCache
      <3>5. /\ p.slots \in Nat \ {0} /\ p.prefix \in Nat /\ p.perSeq \in Nat /\ p.shared \in BOOLEAN
            /\ opts.ctx > 0 => p.perSeq = opts.ctx
            /\ opts.slots > 0 /\ (opts.ctx > 0 \/ Reserved \/ ~opts.fixedLayout)
                  => p.slots = opts.slots /\ (opts.prefix # 0 => p.prefix = AtLeast(opts.prefix, 0))
            /\ opts.prefix # 0 => p.prefix <= AtLeast(opts.prefix, 0) /\ p.shared = FALSE
        BY <3>1, <3>2, PlannedIs
      <3> HIDE DEF u, e
      <3>6. now' = [slots |-> p.slots, prefix |-> p.prefix, perSeq |-> p.perSeq,
                    shared |-> p.shared, ubatch |-> u, moe |-> e]
        BY <3>1 DEF u, e
      <3>7. now' \in Laid
        BY <3>3, <3>4, <3>5, <3>6 DEF Laid
      <3>8. /\ now'.slots = p.slots /\ now'.prefix = p.prefix /\ now'.perSeq = p.perSeq /\ now'.shared = p.shared
            /\ now'.ubatch = u /\ now'.moe = e
        BY <3>6
      <3>9. Kept(now')
        <4>1. now'.slots # 0
          BY <3>5, <3>8
        <4> QED
          BY <3>3, <3>4, <3>5, <3>8, <4>1 DEF Kept
      <3>10. Kept(now)'
        BY <2>0, <3>9 DEF Kept, Reserved
      <3>11. Inputs'
        BY <2>0, <3>2 DEF Inputs
      <3>12. PlacedRight'
        BY <2>0, <3>1, <3>2 DEF PlacedRight, Reserved
      <3>13. home'.layout \in Laid /\ left' \in Readings \cup {0} /\ afterModel' \in Readings \cup {0}
        BY <2>0 DEF NumbersInv
      <3> QED
        BY <3>1, <3>7, <3>10, <3>11, <3>12, <3>13 DEF NumbersInv
    <2> QED
      BY <2>1, <2>2
  <1>6. CASE Create
    <2>1. left' \in Readings \cup {0} /\ phase' \in {"fit", "failed"} /\ phase = "context"
      BY <1>0, <1>6, SampleIs DEF Create, Fails
    <2>2. UNCHANGED <<opts, shape, gpu, workers, placed, now, home, afterModel>>
      BY <1>6 DEF Create, afterwards
    <2> QED
      BY <1>0, <2>1, <2>2, NumbersStay
  <1>7. CASE Shrink
    <2>1. Kept(now) /\ phase = "fit"
      BY <1>7 DEF Shrink, NumbersInv
    <2>2. now' \in Laid /\ Kept(now')
      <3>1. now' \in Smaller
        BY <1>7 DEF Shrink
      <3> QED
        BY <2>1, <3>1, SmallerKeeps
    <2> QED
      BY <1>0, <1>7, <2>1, <2>2, NumbersRelaid DEF Shrink, afterwards
  <1>8. CASE Settle
    BY <1>0, <1>8, NumbersStay DEF Settle, afterwards
  <1>9. CASE Grow
    <2>0. UNCHANGED <<opts, shape, gpu, workers, placed, afterModel, home>> /\ phase = "grow" /\ UbAuto
      BY <1>9 DEF Grow, Growing, afterwards
    <2>1. CASE UNCHANGED now
      <3>1. left' \in Readings \cup {0} /\ phase' \in {"grow", "finish", "failed"}
        BY <1>0, <1>9, SampleIs DEF Grow, Fails
      <3> QED
        BY <1>0, <2>0, <2>1, <3>1, NumbersStay
    <2>2. CASE ~UNCHANGED now
      <3>1. now' = [now EXCEPT !.ubatch = AtMost(2 * @, UbatchLarge)] /\ left' \in Readings \cup {0} /\ phase' = phase
        BY <1>9, <2>2, SampleIs DEF Grow
      <3>2. now \in Laid /\ Kept(now) /\ Inputs
        BY <2>0 DEF NumbersInv
      <3> DEFINE u == AtMost(2 * now.ubatch, UbatchLarge)
      <3>3. u \in Nat /\ u >= UbatchDefault
        <4>1. now.ubatch \in Nat /\ now.ubatch >= UbatchDefault
          BY <2>0, <3>2 DEF UbAuto, Kept, Laid
        <4> QED
          BY <4>1, SMT DEF AtMost, UbatchLarge, UbatchDefault
      <3> HIDE DEF u
      <3>4. now' = [now EXCEPT !.ubatch = u]
        BY <3>1 DEF u
      <3>5. /\ now' \in Laid /\ now'.slots = now.slots /\ now'.prefix = now.prefix /\ now'.perSeq = now.perSeq
            /\ now'.shared = now.shared /\ now'.ubatch = u /\ now'.moe = now.moe
        BY <3>2, <3>3, <3>4 DEF Laid
      <3>6. Kept(now')
        BY <2>0, <3>2, <3>3, <3>5 DEF Kept, UbAuto
      <3> QED
        BY <2>0, <3>1, <3>5, <3>6, NumbersRelaid
    <2> QED
      BY <2>1, <2>2
  <1>10. CASE Finish
    <2>0. UNCHANGED <<opts, shape, gpu, workers, placed, now, left>> /\ phase \in {"grow", "finish"}
      BY <1>10 DEF Finish
    <2>1. CASE Fails /\ UNCHANGED <<afterModel, afterwards>>
      BY <1>0, <2>0, <2>1, NumbersStay DEF Fails, afterwards
    <2>2. CASE ~(Fails /\ UNCHANGED <<afterModel, afterwards>>)
      <3>1. phase' = "serving" /\ home'.layout = now /\ afterModel' = 0
        BY <1>10, <2>2 DEF Finish
      <3>2. now \in Laid /\ Kept(now) /\ Inputs /\ PlacedRight
        BY <2>0 DEF NumbersInv
      <3>3. Kept(home.layout)'
        BY <2>0, <3>1, <3>2 DEF Kept, Reserved
      <3>4. Inputs'
        BY <2>0, <3>2 DEF Inputs
      <3>5. PlacedRight'
        BY <2>0, <3>1, <3>2 DEF PlacedRight, Reserved
      <3> QED
        BY <1>0, <2>0, <3>1, <3>2, <3>3, <3>4, <3>5 DEF NumbersInv
    <2> QED
      BY <2>1, <2>2
  <1>11. CASE Reshape
    <2>0. /\ UNCHANGED <<opts, shape, gpu, workers, placed, afterModel, home>> /\ phase = "serving"
          /\ phase' \in {"serving", "retired"} /\ left' \in Readings \cup {0}
      BY <1>0, <1>11, SampleIs DEF Reshape
    <2>1. Inputs /\ PlacedRight /\ now \in Laid /\ home.layout \in Laid /\ Kept(home.layout)
      BY <2>0 DEF NumbersInv
    <2>2. now' \in Laid /\ now'.ubatch = home.layout.ubatch /\ now'.moe = home.layout.moe
      <3>1. PICK n \in 1..home.layout.slots : now' = LayoutOf(n) \/ now' = home.layout \/ now' = now
        BY <1>11 DEF Reshape
      <3>2. now.ubatch = home.layout.ubatch /\ now.moe = home.layout.moe
        BY <2>0 DEF NumbersInv
      <3>3. /\ LayoutOf(n) \in Laid
            /\ LayoutOf(n).ubatch = home.layout.ubatch /\ LayoutOf(n).moe = home.layout.moe
        BY <2>1, DividedIs
      <3> QED
        BY <2>1, <3>1, <3>2, <3>3
    <2>3. Kept(home.layout)'
      BY <2>0, <2>1 DEF Kept, Reserved
    <2>4. Inputs'
      BY <2>0, <2>1 DEF Inputs
    <2>5. PlacedRight'
      BY <2>0, <2>1 DEF PlacedRight, Reserved
    <2> QED
      BY <1>0, <2>0, <2>1, <2>2, <2>3, <2>4, <2>5 DEF NumbersInv
  <1>12. CASE Close
    BY <1>0, <1>12, NumbersStay DEF Close, afterwards
  <1>13. CASE UNCHANGED vars
    BY <1>0, <1>13, NumbersStay DEF vars
  <1> QED
    BY <1>1, <1>2, <1>3, <1>4, <1>5, <1>6, <1>7, <1>8, <1>9, <1>10, <1>11, <1>12, <1>13 DEF Next, Open

\* The operator's numbers are those that are served (engine.go:566).
THEOREM NumbersServed == Spec => []OperatorsNumbersStand
  <1>1. Spec => []NumbersInv
    BY NumbersInit, NumbersNext, PTL DEF Spec
  <1>2. NumbersInv /\ IInv => OperatorsNumbersStand
    <2> SUFFICES ASSUME NumbersInv, IInv PROVE OperatorsNumbersStand
      OBVIOUS
    <2>1. TypeOK
      <3>1. phase \in Empty \cup Bare \cup Made /\ left \in Readings \cup {0} /\ afterModel \in Readings \cup {0}
        BY DEF NumbersInv
      <3>2. held \in [Resources -> Nat]
        BY DEF IInv
      <3>3. now.perSeq >= 0 /\ now.prefix >= 0 /\ now.moe >= 0
        BY DEF NumbersInv, Laid
      <3> QED
        BY <3>1, <3>2, <3>3 DEF TypeOK, Empty, Bare, Made
    <2>2. NumbersStand
      <3> SUFFICES ASSUME phase = "serving" PROVE NumbersStand
        BY DEF NumbersStand
      <3> DEFINE h == home.layout
      <3>1. Kept(h) /\ now.ubatch = h.ubatch /\ now.moe = h.moe /\ Inputs /\ PlacedRight /\ h \in Laid
        BY DEF NumbersInv, Served
      <3>2. opts.prefix \in Int /\ h.prefix \in Nat
        BY <3>1, Naturals DEF Laid
      <3>3. opts.hostExperts # 0 => placed.hostExperts = opts.hostExperts
        BY <3>1 DEF PlacedRight
      <3>4. opts.prefix < 0 => h.prefix = 0
        BY <3>1, <3>2 DEF Kept, AtLeast
      <3>5. opts.prefix > 0 => h.prefix <= opts.prefix /\ ~h.shared
        BY <3>1, <3>2 DEF Kept, AtLeast
      <3>6. opts.prefix > 0 /\ opts.slots > 0 /\ (opts.ctx > 0 \/ Reserved \/ ~opts.fixedLayout) => h.prefix = opts.prefix
        BY <3>1, <3>2 DEF Kept, AtLeast
      <3>7. /\ opts.ctx > 0 => h.perSeq = opts.ctx
            /\ opts.slots > 0 /\ (opts.ctx > 0 \/ Reserved \/ ~opts.fixedLayout) => h.slots = opts.slots
            /\ opts.batch > 0 => now.ubatch = AtMost(opts.batch, MaxBatch)
            /\ opts.moeCache > 0 /\ shape.moe => now.moe = opts.moeCache
        BY <3>1 DEF Kept
      <3> HIDE DEF h
      <3> QED
        BY <3>3, <3>4, <3>5, <3>6, <3>7 DEF NumbersStand, h
    <2> QED
      BY <2>1, <2>2 DEF OperatorsNumbersStand
  <1> QED
    BY <1>1, <1>2, InvariantHolds, PTL

-----------------------------------------------------------------------------
(* The room that is left.                                                  *)

RoomInv ==
    /\ RoomLeft
    /\ phase \notin Served => refused = {}
    /\ phase = "serving" => home.layout.slots \notin refused

\* Where nothing can be made smaller, everything of ours is as small as it gets.
LEMMA AllIsSpent ==
  ASSUME NumbersInv, Kept(now), Smaller = {}
  PROVE  Spent
  <1>0. /\ Inputs /\ now \in Laid /\ now.slots \in Nat \ {0} /\ now.prefix \in Nat /\ now.ubatch \in Nat
        /\ opts.batch = 0 => now.ubatch >= UbatchDefault
    BY DEF NumbersInv, Laid, Kept
  <1> DEFINE tight == now.perSeq \div 2 < Floor(shape)
             pool == (tight \/ ~CtxAuto) /\ PrefixAuto /\ now.prefix > 0
             narrower == UbAuto /\ now.ubatch > UbatchDefault
             cut == CacheCut(Spare, left)
             cacheAuto == placed.hostExperts # 0 /\ opts.moeCache = 0 /\ MoeCache > 0
             low == [now EXCEPT !.ubatch = LowerUbatch(@)]
             fewer == [now EXCEPT !.slots = @ \div 2, !.prefix = PoolFor(now.slots \div 2, @)]
             borrows == [now EXCEPT !.shared = TRUE]
             cached == [now EXCEPT !.moe = @ - cut]
             less == [now EXCEPT !.prefix = @ - 1]
             shorter == [now EXCEPT !.perSeq = @ \div 2]
             long == now.perSeq \div 2 >= 2048
  <1>1. Steps = <<Step(narrower /\ placed.hostExperts = 0, low),
                  Step(tight /\ SlotsAuto /\ now.slots > 1, fewer),
                  Step(pool /\ ~now.shared, borrows),
                  Step(pool /\ cacheAuto /\ now.moe - cut >= MoeCache \div 2, cached),
                  Step(pool, less),
                  Step(CtxAuto /\ long, shorter),
                  Step(narrower, low)>>
    BY DEF Steps
  <1> HIDE DEF tight, pool, narrower, cut, cacheAuto, low, fewer, borrows, cached, less, shorter, long
  <1>2. \A i \in 1..7 : Steps[i] = {}
    <2> SUFFICES ASSUME NEW i \in 1..7, Steps[i] # {} PROVE FALSE
      OBVIOUS
    <2>1. DOMAIN Steps = 1..7
      BY <1>1
    <2> DEFINE can == {k \in DOMAIN Steps : Steps[k] # {}}
    <2>2. can \subseteq 0..7 /\ can # {}
      <3> HIDE DEF Steps
      <3> QED
        BY <2>1
    <2> DEFINE first == Min(can)
    <2>3. first \in can /\ \A m \in can : first <= m
      <3> HIDE DEF can
      <3> QED
        BY <2>2, MinIs
    <2> HIDE DEF first
    <2>4. PICK x : x \in Steps[first]
      BY <2>3
    <2>5. x \in Smaller
      <3> HIDE DEF Steps
      <3> QED
        BY <2>3, <2>4 DEF Smaller
    <2> QED
      BY <2>5
  <1>3. /\ Step(tight /\ SlotsAuto /\ now.slots > 1, fewer) = {} /\ Step(pool, less) = {}
        /\ Step(CtxAuto /\ long, shorter) = {} /\ Step(narrower, low) = {}
    <2>1. 2 \in 1..7 /\ 5 \in 1..7 /\ 6 \in 1..7 /\ 7 \in 1..7
      OBVIOUS
    <2>2. Steps[2] = {} /\ Steps[5] = {} /\ Steps[6] = {} /\ Steps[7] = {}
      BY <1>2, <2>1
    <2> QED
      BY <1>1, <2>2
  <1>4. ~(tight /\ SlotsAuto /\ now.slots > 1)
    BY <1>3, Zenon DEF Step
  <1>5. ~pool
    BY <1>3, Zenon DEF Step
  <1>6. ~(CtxAuto /\ long)
    BY <1>3, Zenon DEF Step
  <1>7. ~narrower
    BY <1>3, Zenon DEF Step
  <1>8. now.perSeq \div 2 \in Nat /\ Floor(shape) \in Nat
    <2>1. now.perSeq \in Nat /\ shape.trained \in Nat
      BY <1>0, Naturals DEF Laid
    <2>2. now.perSeq \div 2 \in Nat
      BY <2>1
    <2>3. Floor(shape) \in Nat
      BY <2>1, SMT DEF Floor, AtMost, CtxFloor
    <2> QED
      BY <2>2, <2>3
  <1> DEFINE enough == now.perSeq \div 2 >= Floor(shape)
  <1>9. ~tight => enough
    BY <1>8 DEF tight
  <1>10. ~long => now.perSeq \div 2 < 2048
    BY <1>8 DEF long
  <1>11. UbAuto => now.ubatch = UbatchDefault
    BY <1>0, <1>7, SMT DEF narrower, UbAuto, UbatchDefault
  <1>12. PrefixAuto => now.prefix = 0 \/ (CtxAuto /\ enough)
    BY <1>0, <1>5, <1>9 DEF pool
  <1>13. SlotsAuto => now.slots = 1 \/ enough
    BY <1>0, <1>4, <1>9
  <1> QED
    BY <1>6, <1>10, <1>11, <1>12, <1>13 DEF Spent

\* What is not ours to choose is not spent.
LEMMA NoneIsOurs ==
  ASSUME NumbersInv, Kept(now), ~Ours
  PROVE  Spent
  <1>1. now.ubatch \in Nat /\ (opts.batch = 0 => now.ubatch >= UbatchDefault)
    BY DEF NumbersInv, Laid, Kept
  <1>2. UbAuto => now.ubatch = UbatchDefault
    BY <1>1, SMT DEF Ours, UbAuto, UbatchDefault
  <1> QED
    BY <1>2 DEF Ours, Spent

\* A division that some prompt wants is longer than home, and holds no more.
LEMMA DividedHolds ==
  ASSUME Inputs, home.layout \in Laid, home.layout.slots \notin refused,
         NEW n \in 1..home.layout.slots, n # home.layout.slots, Wanted(n)
  PROVE  LET h == LayoutOf(n) IN
         /\ h.slots * h.perSeq <= HomeTokens /\ h.slots < home.layout.slots
         /\ h.perSeq > home.layout.perSeq /\ (shape.trained > 0 => h.perSeq <= shape.trained)
  <1> DEFINE m == home.layout.slots
             per == Per(n)
  <1>1. m \in Nat /\ home.layout.perSeq \in Nat /\ n \in Nat \ {0} /\ n < m /\ shape.trained \in Nat
    BY Naturals DEF Laid
  <1>2. LayoutOf(n).slots = n /\ LayoutOf(n).perSeq = per
    BY DEF LayoutOf, Laid
  <1>3. HomeTokens \in Nat
    BY <1>1 DEF HomeTokens
  <1>4. Most \in Nat /\ (shape.trained > 0 => Most <= shape.trained)
    BY <1>1, <1>3 DEF Most, AtMost
  <1>5. per \in Nat /\ per <= HomeTokens \div n /\ per <= Most
    <2> DEFINE share == HomeTokens \div n
               a == AtMost(share, Most)
    <2>1. share \in Nat
      BY <1>1, <1>3
    <2> HIDE DEF share
    <2>2. a \in Nat /\ a <= share /\ a <= Most
      BY <1>4, <2>1 DEF AtMost
    <2>3. per = (a \div 256) * 256
      BY DEF Per, share
    <2> HIDE DEF a, per
    <2>4. (a \div 256) * 256 <= a /\ (a \div 256) * 256 \in Nat
      BY <2>2
    <2>5. per \in Nat /\ per <= share /\ per <= Most
      BY <1>4, <2>1, <2>2, <2>3, <2>4
    <2> QED
      BY <2>5 DEF share
  <1>6. n * per <= HomeTokens
    <2> DEFINE share == HomeTokens \div n
    <2>1. share \in Nat /\ n * share <= HomeTokens
      BY <1>1, <1>3
    <2>2. per <= share
      BY <1>5
    <2> HIDE DEF share, per
    <2>3. n * per <= n * share /\ n * per \in Nat /\ n * share \in Nat
      BY <1>1, <1>5, <2>1, <2>2
    <2> QED
      BY <1>3, <2>1, <2>3
  <1>7. per > home.layout.perSeq
    <2>1. m \in (n + 1)..m
      BY <1>1
    <2>2. Per(m) < Per(n)
      BY <2>1 DEF Wanted
    <2>3. Per(m) = home.layout.perSeq
      BY DEF Per
    <2> QED
      BY <1>1, <1>5, <2>2, <2>3
  <1> HIDE DEF per
  <1>8. shape.trained > 0 => per <= shape.trained
    BY <1>1, <1>4, <1>5
  <1> QED
    BY <1>1, <1>2, <1>6, <1>7, <1>8

LEMMA RoomInit == Init => RoomInv
  BY DEF Init, RoomInv, RoomLeft, Roomy, Divided, Served

LEMMA RoomNext == NumbersInv /\ RoomInv /\ [Next]_vars => RoomInv'
  <1> SUFFICES ASSUME NumbersInv, RoomInv, [Next]_vars PROVE RoomInv'
    OBVIOUS
  <1> USE DEF Served
  \* Neither grown nor serving, there is nothing to be said.
  <1>e. ASSUME phase' \notin {"grow", "serving"} \cup Served, phase \notin Served, refused' = refused PROVE RoomInv'
    BY <1>e DEF RoomInv, RoomLeft, Roomy, Divided
  <1>c. ASSUME phase' \in {"retired", "closed"} PROVE RoomInv'
    BY <1>c DEF RoomInv, RoomLeft, Roomy, Divided
  <1>1. CASE Borrow
    BY <1>1, <1>e DEF Borrow, Borrowed, afterwards
  <1>2. CASE PeersFail
    BY <1>2, <1>e DEF PeersFail, Fails, afterwards
  <1>3. CASE Weights
    BY <1>3, <1>e DEF Weights, afterwards
  <1>4. CASE Load
    BY <1>4, <1>e DEF Load, Fails, afterwards
  <1>5. CASE Size
    BY <1>5, <1>e DEF Size, Fails, afterwards
  <1>6. CASE Create
    BY <1>6, <1>e DEF Create, Fails, afterwards
  <1>7. CASE Shrink
    BY <1>7, <1>e DEF Shrink, afterwards
  <1>8. CASE Settle
    <2>1. /\ phase = "fit" /\ phase' = "grow" /\ (~Short \/ Smaller = {})
          /\ UNCHANGED <<opts, shape, gpu, placed, now, left, home, refused>>
      BY <1>8 DEF Settle, afterwards
    <2>2. Kept(now)
      BY <2>1 DEF NumbersInv, Chosen
    <2>3. gpu.known => left >= Spare \/ Spent
      <3>1. CASE Smaller = {}
        BY <2>2, <3>1, AllIsSpent
      <3>2. CASE ~Ours
        BY <2>2, <3>2, NoneIsOurs
      <3>3. CASE Ours /\ ~Short
        <4>1. left \in Nat /\ Spare \in Nat
          BY OpeningAssumption, SMT DEF NumbersInv, Spare, FitReserve, ThinHeadroom
        <4> QED
          BY <3>3, <4>1 DEF Short
      <3> QED
        BY <2>1, <3>1, <3>2, <3>3
    <2>4. Roomy'
      BY <2>1, <2>3 DEF Roomy, Spare, ByTotal, Ctx, Reserved, Spent, UbAuto, PrefixAuto, CtxAuto, SlotsAuto
    <2> QED
      BY <2>1, <2>4 DEF RoomInv, RoomLeft, Divided
  <1>9. CASE Grow
    <2>1. phase = "grow" /\ UNCHANGED <<home, refused>>
      BY <1>9 DEF Grow, afterwards
    <2>2. CASE phase' = "grow"
      <3>1. left' \in Sample /\ left' >= ThinHeadroom
        BY <1>9, <2>2, <2>1 DEF Grow, Fails
      <3>2. left' \in Nat
        BY <3>1, SampleIs, OpeningAssumption
      <3>3. left' >= Spare'
        BY <3>1, <3>2, SMT DEF Spare, FitReserve, ThinHeadroom
      <3> QED
        BY <2>1, <2>2, <3>3 DEF RoomInv, RoomLeft, Roomy, Divided
    <2>3. CASE phase' # "grow"
      BY <1>9, <2>1, <2>3, <1>e DEF Grow, Fails
    <2> QED
      BY <2>2, <2>3
  <1>10. CASE Finish
    <2>1. phase \in {"grow", "finish"} /\ now' = now
      BY <1>10 DEF Finish
    <2>2. CASE phase' = "serving"
      <3>1. home'.layout = now /\ refused' = refused
        BY <1>10, <2>2 DEF Finish, Fails
      <3> QED
        BY <2>1, <2>2, <3>1 DEF RoomInv, RoomLeft, Roomy, Divided
    <2>3. CASE phase' # "serving"
      BY <1>10, <2>1, <2>3, <1>e DEF Finish, Fails, afterwards
    <2> QED
      BY <2>2, <2>3
  <1>11. CASE Reshape
    <2>0. UNCHANGED <<opts, shape, gpu, home>> /\ phase = "serving"
      BY <1>11 DEF Reshape
    <2>1. Inputs /\ home.layout \in Laid /\ home.layout.slots \notin refused
      BY <2>0 DEF NumbersInv, RoomInv
    <2>2. PICK n \in 1..home.layout.slots :
            /\ Wanted(n)
            /\ \/ /\ now' = LayoutOf(n)
                  /\ gpu.known /\ n # home.layout.slots => left' >= home.least
                  /\ phase' = phase /\ refused' = refused
               \/ /\ n # home.layout.slots /\ refused' = refused \cup {n} /\ now' = home.layout /\ phase' = phase
               \/ phase' = "retired"
      BY <1>11 DEF Reshape
    <2>3. CASE phase' = "retired"
      BY <2>3, <1>c
    <2>4. CASE n # home.layout.slots /\ refused' = refused \cup {n} /\ now' = home.layout /\ phase' = phase
      BY <2>0, <2>1, <2>4 DEF RoomInv, RoomLeft, Roomy, Divided
    <2>5. CASE /\ now' = LayoutOf(n)
               /\ gpu.known /\ n # home.layout.slots => left' >= home.least
               /\ phase' = phase /\ refused' = refused
      <3>1. CASE n = home.layout.slots
        <4>1. now' = home.layout
          BY <2>5, <3>1 DEF LayoutOf
        <4> QED
          BY <2>0, <2>1, <2>5, <4>1 DEF RoomInv, RoomLeft, Roomy, Divided
      <3>2. CASE n # home.layout.slots
        <4>1. /\ now'.slots * now'.perSeq <= HomeTokens /\ now'.slots < home.layout.slots
              /\ now'.perSeq > home.layout.perSeq /\ (shape.trained > 0 => now'.perSeq <= shape.trained)
          BY <2>1, <2>2, <2>5, <3>2, DividedHolds
        <4>2. Divided'
          BY <2>0, <2>5, <3>2, <4>1 DEF Divided, HomeTokens
        <4> QED
          BY <2>0, <2>1, <2>5, <4>2 DEF RoomInv, RoomLeft, Roomy
      <3> QED
        BY <3>1, <3>2
    <2> QED
      BY <2>2, <2>3, <2>4, <2>5
  <1>12. CASE Close
    BY <1>12, <1>c DEF Close
  <1>13. CASE UNCHANGED vars
    <2>1. UNCHANGED <<opts, shape, gpu, phase, placed, now, left, home, refused>>
      BY <1>13 DEF vars
    <2>2. Roomy'
      BY <2>1 DEF RoomInv, RoomLeft, Roomy, Spare, ByTotal, Ctx, Reserved, Spent, UbAuto, PrefixAuto, CtxAuto, SlotsAuto
    <2>3. Divided'
      BY <2>1 DEF RoomInv, RoomLeft, Divided, HomeTokens
    <2> QED
      BY <2>1, <2>2, <2>3 DEF RoomInv, RoomLeft
  <1> QED
    BY <1>1, <1>2, <1>3, <1>4, <1>5, <1>6, <1>7, <1>8, <1>9, <1>10, <1>11, <1>12, <1>13 DEF Next, Open

THEOREM RoomIsLeft == Spec => []RoomLeft
  <1>1. Spec => []NumbersInv
    BY NumbersInit, NumbersNext, PTL DEF Spec
  <1>2. Spec => []RoomInv
    BY <1>1, RoomInit, RoomNext, PTL DEF Spec
  <1>3. RoomInv => RoomLeft
    BY DEF RoomInv
  <1> QED
    BY <1>2, <1>3, PTL
=============================================================================
