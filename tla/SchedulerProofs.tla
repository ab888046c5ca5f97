-------------------------- MODULE SchedulerProofs --------------------------
(***************************************************************************)
(* Every request the scheduler accepted is in one place, a context is      *)
(* there for every reply under way, and none is cut that a layout holds,   *)
(* for any number of requests, slots and any prompts.                      *)
(***************************************************************************)
EXTENDS Scheduler, TLAPS, FiniteSetTheorems, WellFoundedInduction

----------------------------------------------------------------------------
(* Layouts: want names a layout that exists.                               *)

\* Over a finite set a function into the integers has a greatest value: the
\* set of those above a value shrinks with every greater one.
LEMMA Greatest ==
    ASSUME NEW S, IsFiniteSet(S), S # {}, NEW f \in [S -> Int]
    PROVE  \E n \in S : \A m \in S : f[m] <= f[n]
<1> DEFINE Above(n) == {m \in S : f[m] > f[n]}
           R == StrictSubsetOrdering(S)
           T == {Above(n) : n \in S}
<1>1. IsWellFoundedOn(R, SUBSET S)
  <2>1. FiniteSubsetsOf(S) = SUBSET S
    BY FS_FiniteSubsetsOfFinite
  <2>2. IsWellFoundedOn(R, FiniteSubsetsOf(S))
    BY FS_StrictSubsetOrderingWellFounded
  <2> QED
    BY <2>1, <2>2
<1>2. T \subseteq SUBSET S /\ T # {}
  <2>1. \A n \in S : Above(n) \in SUBSET S
    OBVIOUS
  <2>2. \E n \in S : Above(n) \in T
    OBVIOUS
  <2> HIDE DEF Above
  <2> QED
    BY <2>1, <2>2
<1>3. PICK A \in T : \A B \in T : ~ (<<B, A>> \in R)
  <2> HIDE DEF T, R
  <2> QED
    BY <1>1, <1>2, WFMin
<1>4. PICK n \in S : A = Above(n)
    OBVIOUS
<1>5. ASSUME NEW m \in S, ~(f[m] <= f[n]) PROVE FALSE
  <2>1. Above(m) \in T
    OBVIOUS
  <2>2. f[m] \in Int /\ f[n] \in Int /\ f[m] > f[n]
    BY <1>5
  <2>3. Above(m) \subseteq Above(n)
    BY <2>2
  <2>4. m \in Above(n) /\ m \notin Above(m)
    BY <2>2
  <2>5. <<Above(m), A>> \in R
    BY <1>4, <2>3, <2>4 DEF StrictSubsetOrdering
  <2> QED
    BY <1>3, <2>1, <2>5
<1> QED
    BY <1>5

\* The context of every layout has a length.
LEMMA PerType ==
    ASSUME LayoutAssumption, NEW n \in 1 .. HomeSlots
    PROVE  Per(n) \in Nat
<1>1. HomeSlots \in Nat /\ HomePer \in Nat /\ Trained \in Nat /\ Pad \in Nat /\ Pad > 0
    BY DEF LayoutAssumption
<1>2. Total \in Nat
    BY <1>1 DEF Total
<1>3. Most \in Nat
    BY <1>1, <1>2 DEF Most, Least
<1>4. Total \div n \in Nat
    BY <1>1, <1>2
<1>5. Least(Total \div n, Most) \in Nat
    BY <1>3, <1>4 DEF Least
<1>6. \A a \in Nat : a \div Pad \in Nat
    BY <1>1
<1>7. \A a \in Nat : a * Pad \in Nat
    BY <1>1
<1> QED
    BY <1>1, <1>5, <1>6, <1>7 DEF Per

\* There are finitely many layouts to choose from.
LEMMA LayoutsFinite ==
    ASSUME HomeSlots \in Nat, NEW S \in SUBSET (1 .. HomeSlots)
    PROVE  IsFiniteSet(S)
<1>1. IsFiniteSet(1 .. HomeSlots)
    BY FS_Interval
<1> QED
    BY <1>1, FS_Subset

\* A set of layouts has a largest.
LEMMA LargestType ==
    ASSUME HomeSlots \in Nat, NEW S \in SUBSET (1 .. HomeSlots), S # {}
    PROVE  Largest(S) \in S /\ \A m \in S : m <= Largest(S)
<1>1. IsFiniteSet(S)
    BY LayoutsFinite
<1>2. [n \in S |-> n] \in [S -> Int]
    OBVIOUS
<1>3. \E n \in S : \A m \in S : m <= n
  <2>1. \E n \in S : \A m \in S : [k \in S |-> k][m] <= [k \in S |-> k][n]
    BY <1>1, <1>2, Greatest
  <2> QED
    BY <2>1
<1> QED
  <2>1. PICK n \in S : \A m \in S : m <= n
    BY <1>3
  <2>2. Largest(S) \in S /\ \A m \in S : m <= Largest(S)
    BY <2>1 DEF Largest
  <2> QED
    BY <2>2

\* One of some layouts has the longest slots.
LEMMA LongestThere ==
    ASSUME LayoutAssumption, NEW offers \in SUBSET (1 .. HomeSlots), offers # {}
    PROVE  {n \in offers : \A m \in offers : Per(m) <= Per(n)} # {}
<1>1. IsFiniteSet(offers)
    BY LayoutsFinite DEF LayoutAssumption
<1>2. \A n \in offers : Per(n) \in Int
    BY PerType
<1>3. [n \in offers |-> Per(n)] \in [offers -> Int]
    BY <1>2
<1>4. \E n \in offers : \A m \in offers :
        [k \in offers |-> Per(k)][m] <= [k \in offers |-> Per(k)][n]
    BY <1>1, <1>3, Greatest
<1>5. \A n \in offers : [k \in offers |-> Per(k)][n] = Per(n)
    OBVIOUS
<1>6. PICK n \in offers : \A m \in offers : Per(m) <= Per(n)
    BY <1>4, <1>5
<1> QED
    BY <1>6

\* flex.want returns a layout on offer, whatever the prompt.
LEMMA WantType ==
    ASSUME LayoutAssumption, NEW offers \in SUBSET (1 .. HomeSlots), offers # {}, NEW len
    PROVE  WantAmong(offers, len) \in offers
<1> DEFINE longest == {n \in offers : \A m \in offers : Per(m) <= Per(n)}
           whole == {n \in offers : Holds(n, len)}
<1>1. HomeSlots \in Nat
    BY DEF LayoutAssumption
<1>2. longest # {}
    BY LongestThere
<1>3. whole # {} => Largest(whole) \in whole
    BY <1>1, LargestType
<1>4. Largest(longest) \in longest
    BY <1>1, <1>2, LargestType
<1> QED
    BY <1>3, <1>4 DEF WantAmong

\* What a quotient is.
LEMMA Divided ==
    ASSUME NEW a \in Nat, NEW n \in Nat \ {0}
    PROVE  a \div n \in Nat /\ n * (a \div n) <= a /\ a < n * (a \div n) + n
  OBVIOUS

\* More divided by less is more.
LEMMA DividedLess ==
    ASSUME NEW a \in Nat, NEW b \in Nat, NEW m \in Nat \ {0}, NEW n \in Nat \ {0},
           m <= n, a <= b
    PROVE  a \div n <= b \div m
<1> DEFINE q == a \div n
           r == b \div m
<1>1. q \in Nat /\ n * q <= a
    BY Divided
<1>2. r \in Nat /\ b < m * r + m
    BY Divided
<1> HIDE DEF q, r
<1>3. m * q <= n * q
    BY <1>1
<1>4. ASSUME ~(q <= r) PROVE FALSE
  <2>1. r + 1 <= q
    BY <1>1, <1>2, <1>4
  <2>2. m * (r + 1) <= m * q
    BY <1>1, <1>2, <2>1
  <2>3. m * (r + 1) = m * r + m
    BY <1>2
  <2> DEFINE x == m * q
             y == m * r
             z == n * q
  <2>4. x \in Nat /\ y \in Nat /\ z \in Nat
    BY <1>1, <1>2
  <2>5. y + m <= x /\ x <= z /\ z <= a /\ b < y + m
    BY <1>1, <1>2, <1>3, <2>2, <2>3
  <2> HIDE DEF x, y, z
  <2> QED
    BY <2>4, <2>5
<1>5. q <= r
    BY <1>4
<1> QED
    BY <1>5 DEF q, r

\* A longer slot has more room for a prompt.
LEMMA RoomGrows ==
    ASSUME NEW p \in Nat, NEW q \in Nat, p <= q
    PROVE  p - Room(p) <= q - Room(q)
  BY DEF Room

\* Fewer slots are longer, home left aside.
LEMMA FewerAreLonger ==
    ASSUME LayoutAssumption, NEW m \in 1 .. HomeSlots, NEW n \in 1 .. HomeSlots,
           m <= n, n # HomeSlots
    PROVE  Per(n) <= Per(m)
<1>1. HomeSlots \in Nat /\ HomePer \in Nat /\ Trained \in Nat /\ Pad \in Nat \ {0}
    BY DEF LayoutAssumption
<1>2. Total \in Nat
    BY <1>1 DEF Total
<1>3. Most \in Nat
    BY <1>1, <1>2 DEF Most, Least
<1>4. m \in Nat \ {0} /\ n \in Nat \ {0} /\ m # HomeSlots
    BY <1>1
<1> DEFINE long(k) == Least(Total \div k, Most)
<1>5. Total \div n <= Total \div m /\ Total \div n \in Nat /\ Total \div m \in Nat
  <2>1. Total <= Total
    BY <1>2
  <2>2. Total \div n <= Total \div m
    BY <1>2, <1>4, <2>1, DividedLess
  <2>3. Total \div n \in Nat /\ Total \div m \in Nat
    BY <1>2, <1>4, Divided
  <2> QED
    BY <2>2, <2>3
<1>6. long(n) \in Nat /\ long(m) \in Nat /\ long(n) <= long(m)
    BY <1>3, <1>5 DEF Least
<1>7. Per(n) = (long(n) \div Pad) * Pad /\ Per(m) = (long(m) \div Pad) * Pad
    BY <1>4 DEF Per
<1> HIDE DEF long
<1> DEFINE x == long(n) \div Pad
           y == long(m) \div Pad
<1>8. x \in Nat /\ y \in Nat /\ x <= y
    BY <1>1, <1>6, Divided, DividedLess
<1> HIDE DEF x, y
<1>9. x * Pad <= y * Pad
    BY <1>1, <1>8
<1> QED
    BY <1>7, <1>9 DEF x, y

\* What a layout holds whole, one with longer slots does.
LEMMA LongerHoldsMore ==
    ASSUME LayoutAssumption, NEW m \in 1 .. HomeSlots, NEW n \in 1 .. HomeSlots,
           Per(n) <= Per(m), NEW len \in Nat, Holds(n, len)
    PROVE  Holds(m, len)
<1> DEFINE x == Per(n) - Room(Per(n))
           y == Per(m) - Room(Per(m))
<1>1. Per(n) \in Nat /\ Per(m) \in Nat
    BY PerType
<1>2. x <= y
    BY <1>1, RoomGrows
<1>3. x \in Int /\ y \in Int
    BY <1>1 DEF Room
<1>4. len <= x
    BY DEF Holds
<1>5. len <= y
  <2> HIDE DEF x, y
  <2> QED
    BY <1>2, <1>3, <1>4
<1> QED
    BY <1>5 DEF Holds

\* flex.want returns a layout that holds the prompt whole if one on offer does.
LEMMA WantHolds ==
    ASSUME LayoutAssumption, NEW offers \in SUBSET (1 .. HomeSlots), NEW len,
           \E n \in offers : Holds(n, len)
    PROVE  Holds(WantAmong(offers, len), len)
<1> DEFINE whole == {n \in offers : Holds(n, len)}
<1>1. HomeSlots \in Nat
    BY DEF LayoutAssumption
<1>2. whole # {}
    OBVIOUS
<1>3. Largest(whole) \in whole
    BY <1>1, <1>2, LargestType
<1>4. WantAmong(offers, len) = Largest(whole)
    BY <1>2 DEF WantAmong
<1> QED
    BY <1>3, <1>4

\* It never returns one with slots shorter than home's.
LEMMA WantIsLong ==
    ASSUME LayoutAssumption, NEW offers \in SUBSET (1 .. HomeSlots), HomeSlots \in offers,
           NEW len \in Nat
    PROVE  HomePer <= Per(WantAmong(offers, len))
<1> DEFINE whole == {n \in offers : Holds(n, len)}
           longest == {n \in offers : \A m \in offers : Per(m) <= Per(n)}
           w == WantAmong(offers, len)
<1>1. HomeSlots \in Nat /\ HomePer \in Nat
    BY DEF LayoutAssumption
<1>2. Per(HomeSlots) = HomePer
    BY DEF Per
<1>3. w \in offers /\ Per(w) \in Nat
    BY WantType, PerType
<1>4. CASE \E n \in offers : Holds(n, len)
  <2>1. Holds(w, len)
    BY <1>4, WantHolds
  <2>2. CASE Per(HomeSlots) <= Per(w)
    BY <1>2, <2>2
  <2>3. CASE ~(Per(HomeSlots) <= Per(w))
    <3>1. Per(w) <= Per(HomeSlots)
        BY <1>1, <1>2, <1>3, <2>3
    <3>2. Holds(HomeSlots, len)
        BY <1>3, <2>1, <3>1, LongerHoldsMore
    <3>3. HomeSlots \in whole
        BY <3>2
    <3>4. \A m \in whole : m <= Largest(whole)
        BY <1>1, <3>3, LargestType
    <3>5. w = Largest(whole)
        BY <1>4 DEF WantAmong
    <3>6. HomeSlots <= w /\ w \in 1 .. HomeSlots
        BY <1>3, <3>3, <3>4, <3>5
    <3>7. w = HomeSlots
      <4> HIDE DEF w
      <4> QED
        BY <1>1, <3>6
    <3> QED
        BY <1>1, <1>2, <3>7
  <2> QED
    BY <2>2, <2>3
<1>5. CASE \A n \in offers : ~Holds(n, len)
  <2>1. w = Largest(longest)
    BY <1>5 DEF WantAmong
  <2>2. longest # {}
    BY LongestThere
  <2>3. w \in longest
    BY <1>1, <2>1, <2>2, LargestType
  <2> QED
    BY <1>2, <2>3
<1> QED
    BY <1>4, <1>5

----------------------------------------------------------------------------
(* The queue.                                                              *)

LEMMA AppendPlaces ==
    ASSUME NEW q \in Seq(Jobs), Distinct(q), NEW j \in Jobs, ~In(q, j)
    PROVE  /\ Append(q, j) \in Seq(Jobs) /\ Distinct(Append(q, j))
           /\ \A k : In(Append(q, j), k) <=> In(q, k) \/ k = j
    BY DEF Distinct, In

\* Taking the head of a queue without duplicates leaves the others in it, once.
LEMMA TailPlaces ==
    ASSUME NEW q \in Seq(Jobs), Distinct(q), q # <<>>
    PROVE  /\ Head(q) \in Jobs /\ In(q, Head(q))
           /\ Tail(q) \in Seq(Jobs) /\ Distinct(Tail(q))
           /\ \A k : In(Tail(q), k) <=> In(q, k) /\ k # Head(q)
<1>1. Len(q) \in Nat \ {0} /\ Len(Tail(q)) = Len(q) - 1 /\ Head(q) = q[1]
    OBVIOUS
<1>2. \A i \in 1 .. Len(q) - 1 : Tail(q)[i] = q[i + 1]
    BY <1>1
<1>3. Head(q) \in Jobs /\ In(q, Head(q)) /\ Tail(q) \in Seq(Jobs)
    BY <1>1 DEF In
<1>4. Distinct(Tail(q))
    BY <1>1, <1>2 DEF Distinct
<1>5. ASSUME NEW k PROVE In(Tail(q), k) <=> In(q, k) /\ k # Head(q)
  <2>1. In(Tail(q), k) => In(q, k) /\ k # Head(q)
    BY <1>1, <1>2 DEF In, Distinct
  <2>2. ASSUME In(q, k), k # Head(q) PROVE In(Tail(q), k)
    <3>1. PICK i \in 1 .. Len(q) : q[i] = k
        BY <2>2 DEF In
    <3>2. i - 1 \in 1 .. Len(q) - 1 /\ Tail(q)[i - 1] = k
        BY <1>1, <1>2, <2>2, <3>1
    <3> QED
        BY <1>1, <3>2 DEF In
  <2> QED
    BY <2>1, <2>2
<1> QED
    BY <1>3, <1>4, <1>5
----------------------------------------------------------------------------
(* The inductive invariant.                                                *)

\* Where a request stands tells what it was told and whether it ran, and where
\* run() stands tells what it holds: it blocks only with nothing to do, so that
\* what wakes it finds the head free.
Stages ==
    /\ \A j \in Jobs : pc[j] # "answered" => finished[j] = 0 /\ answer[j] = "none"
    /\ \A j \in Jobs :
        pc[j] \in {"new", "checked"} \/ In(queue, j) \/ held = j => fit[j] = "none"
    /\ at = "idle" => held = NoJob /\ running = {}
    /\ at \in {"admit", "idle", "step"} => context

IInv == TypeOK /\ OnePlace /\ SlotForEach /\ Stages /\ NotStartedNeverRan

\* The invariant holds before anything is submitted.
LEMMA InitHolds == Init => IInv
<1> SUFFICES ASSUME Init PROVE IInv
    OBVIOUS
<1> USE LayoutAssumption DEF Init
<1>1. TypeOK
  <2>1. (CHOOSE p \in Prompts : TRUE) \in Prompts
    BY PromptsAssumption
  <2>2. prompt \in [Jobs -> Prompts]
    BY <2>1
  <2> HIDE DEF Init
  <2>3. Init
    OBVIOUS
  <2>4. pc \in [Jobs -> {"new", "checked", "waiting", "answered"}]
        /\ answer \in [Jobs -> Answers] /\ finished \in [Jobs -> {0, 1}]
    BY <2>3 DEF Init, Answers
  <2>5. queue \in Seq(Jobs) /\ held \in Jobs \cup {NoJob} /\ nSlots \in 1 .. HomeSlots
        /\ want \in [Jobs -> 1 .. HomeSlots]
    BY <2>3, LayoutAssumption DEF Init, LayoutAssumption
  <2>6. fit \in [Jobs -> {"none", "whole", "cut", "tooLong"}] /\ at \in Points
    BY <2>3 DEF Init, Points
  <2> QED
    BY <2>2, <2>3, <2>4, <2>5, <2>6 DEF TypeOK, Init
<1>2. \A j : ~In(queue, j)
    BY DEF In
<1>3. OnePlace
    BY <1>2, NoJobAssumption DEF OnePlace, Distinct
<1>4. SlotForEach
    BY FS_EmptySet DEF SlotForEach
<1>5. Stages /\ NotStartedNeverRan
    BY DEF Stages, NotStartedNeverRan
<1> QED
    BY <1>1, <1>3, <1>4, <1>5 DEF IInv

\* submit reading what the layouts hold, in its caller, disturbs nothing.
LEMMA SubmitLooksKeeps ==
    ASSUME IInv, NEW j \in Jobs, SubmitLooks(j)
    PROVE  IInv'
<1>a. prompt' \in [Jobs -> Prompts]
    BY DEF IInv, SubmitLooks, TypeOK
<1>1. TypeOK'
    BY <1>a DEF IInv, SubmitLooks, layouts, TypeOK, Answers
<1>2. OnePlace'
    BY DEF IInv, SubmitLooks, layouts, OnePlace, TypeOK
<1>3. SlotForEach'
    BY DEF IInv, SubmitLooks, layouts, SlotForEach
<1>4. Stages'
    BY DEF IInv, SubmitLooks, layouts, Stages, OnePlace, TypeOK
<1>5. NotStartedNeverRan'
    BY DEF IInv, SubmitLooks, layouts, NotStartedNeverRan, Stages, OnePlace, TypeOK
<1> QED
    BY <1>1, <1>2, <1>3, <1>4, <1>5 DEF IInv

\* A client may go away at any moment: nothing is decided before it is looked at.
LEMMA GoesAwayKeeps ==
    ASSUME IInv, NEW j \in Jobs, GoesAway(j)
    PROVE  IInv'
<1>1. TypeOK'
    BY DEF IInv, GoesAway, layouts, TypeOK, Answers, Points
<1>2. OnePlace'
    BY DEF IInv, GoesAway, layouts, OnePlace, TypeOK
<1>3. SlotForEach'
    BY DEF IInv, GoesAway, layouts, SlotForEach
<1>4. Stages'
    BY DEF IInv, GoesAway, layouts, Stages, OnePlace, TypeOK
<1>5. NotStartedNeverRan'
    BY DEF IInv, GoesAway, layouts, NotStartedNeverRan, Stages, OnePlace, TypeOK
<1> QED
    BY <1>1, <1>2, <1>3, <1>4, <1>5 DEF IInv

\* A deadline may pass at any moment.
LEMMA RunsLateKeeps ==
    ASSUME IInv, NEW j \in Jobs, RunsLate(j)
    PROVE  IInv'
<1>1. TypeOK'
    BY DEF IInv, RunsLate, layouts, TypeOK, Answers, Points
<1>2. OnePlace'
    BY DEF IInv, RunsLate, layouts, OnePlace, TypeOK
<1>3. SlotForEach'
    BY DEF IInv, RunsLate, layouts, SlotForEach
<1>4. Stages'
    BY DEF IInv, RunsLate, layouts, Stages, OnePlace, TypeOK
<1>5. NotStartedNeverRan'
    BY DEF IInv, RunsLate, layouts, NotStartedNeverRan, Stages, OnePlace, TypeOK
<1> QED
    BY <1>1, <1>2, <1>3, <1>4, <1>5 DEF IInv

\* Close may ask the scheduler to stop at any moment.
LEMMA CloseKeeps ==
    ASSUME IInv, Close
    PROVE  IInv'
<1>1. TypeOK'
    BY DEF IInv, Close, callers, layouts, TypeOK, Answers, Points
<1>2. OnePlace'
    BY DEF IInv, Close, callers, layouts, OnePlace, TypeOK
<1>3. SlotForEach'
    BY DEF IInv, Close, callers, layouts, SlotForEach
<1>4. Stages'
    BY DEF IInv, Close, callers, layouts, Stages, OnePlace, TypeOK
<1>5. NotStartedNeverRan'
    BY DEF IInv, Close, callers, layouts, NotStartedNeverRan, Stages, OnePlace, TypeOK
<1> QED
    BY <1>1, <1>2, <1>3, <1>4, <1>5 DEF IInv

\* The backend may report that it is beyond use at any moment.
LEMMA OnFatalKeeps ==
    ASSUME IInv, OnFatal
    PROVE  IInv'
<1>1. TypeOK'
    BY DEF IInv, OnFatal, callers, layouts, TypeOK, Answers, Points
<1>2. OnePlace'
    BY DEF IInv, OnFatal, callers, layouts, OnePlace, TypeOK
<1>3. SlotForEach'
    BY DEF IInv, OnFatal, callers, layouts, SlotForEach
<1>4. Stages'
    BY DEF IInv, OnFatal, callers, layouts, Stages, OnePlace, TypeOK
<1>5. NotStartedNeverRan'
    BY DEF IInv, OnFatal, callers, layouts, NotStartedNeverRan, Stages, OnePlace, TypeOK
<1> QED
    BY <1>1, <1>2, <1>3, <1>4, <1>5 DEF IInv

\* Seeing the stop only moves the loop to its drain.
LEMMA SeesStopKeeps ==
    ASSUME IInv, SeesStop
    PROVE  IInv'
<1>1. TypeOK'
    BY DEF IInv, SeesStop, callers, layouts, TypeOK, Answers, Points
<1>2. OnePlace'
    BY DEF IInv, SeesStop, callers, layouts, OnePlace, TypeOK
<1>3. SlotForEach'
    BY DEF IInv, SeesStop, callers, layouts, SlotForEach
<1>4. Stages'
    BY DEF IInv, SeesStop, callers, layouts, Stages, OnePlace, TypeOK
<1>5. NotStartedNeverRan'
    BY DEF IInv, SeesStop, callers, layouts, NotStartedNeverRan, Stages, OnePlace, TypeOK
<1> QED
    BY <1>1, <1>2, <1>3, <1>4, <1>5 DEF IInv

\* A request that enters the queue is in no other place.
LEMMA SubmitSendsKeeps ==
    ASSUME IInv, NEW j \in Jobs, SubmitSends(j)
    PROVE  IInv'
<1>a. pc[j] = "checked" => /\ Append(queue, j) \in Seq(Jobs) /\ Distinct(Append(queue, j))
                        /\ \A k : In(Append(queue, j), k) <=> In(queue, k) \/ k = j
  <2>1. queue \in Seq(Jobs) /\ Distinct(queue)
    BY DEF IInv, TypeOK, OnePlace
  <2>2. pc[j] = "checked" => ~In(queue, j)
    BY DEF IInv, OnePlace
  <2> QED
    BY <2>1, <2>2, AppendPlaces
<1>b. /\ pc[j] = "checked" /\ pc'[j] \in {"waiting", "answered"}
      /\ pc'[j] = "waiting" => answer' = answer
      /\ \A k \in Jobs \ {j} : pc'[k] = pc[k] /\ answer'[k] = answer[k]
      /\ UNCHANGED <<finished, at, held, running, fit, context>>
    BY DEF IInv, TypeOK, SubmitSends, layouts
<1>c. /\ Distinct(queue')
      /\ \A k : In(queue', k) <=> In(queue, k) \/ (k = j /\ pc'[j] = "waiting")
  <2>1. CASE queue' = Append(queue, j) /\ pc'[j] = "waiting"
    BY <1>a, <1>b, <2>1
  <2>2. CASE queue' = queue /\ pc'[j] = "answered"
    BY <2>2 DEF IInv, OnePlace
  <2> QED
    BY <2>1, <2>2 DEF SubmitSends, IInv, TypeOK
<1>1. TypeOK'
  <2>1. pc' \in [Jobs -> {"new", "checked", "waiting", "answered"}] /\ answer' \in [Jobs -> Answers]
    BY <1>a DEF IInv, SubmitSends, layouts, TypeOK, Answers
  <2>2. finished' \in [Jobs -> {0, 1}]
    BY <1>a DEF IInv, SubmitSends, layouts, TypeOK, Stages, OnePlace
  <2>3. queue' \in Seq(Jobs) /\ held' \in Jobs \cup {NoJob}
    BY <1>a DEF IInv, SubmitSends, layouts, TypeOK
  <2>4. want' \in [Jobs -> 1 .. HomeSlots] /\ nSlots' \in 1 .. HomeSlots /\ refused' \subseteq 1 .. HomeSlots
    BY <1>a DEF IInv, SubmitSends, layouts, TypeOK
  <2>5. fit' \in [Jobs -> {"none", "whole", "cut", "tooLong"}]
    BY <1>a DEF IInv, SubmitSends, layouts, TypeOK
  <2>6. running' \subseteq Jobs /\ writing' \subseteq running'
    BY <1>a DEF IInv, SubmitSends, layouts, TypeOK
  <2>7. context' \in BOOLEAN /\ fatal' \in BOOLEAN
    BY <1>a DEF IInv, SubmitSends, layouts, TypeOK
  <2>8. UNCHANGED <<prompt, gone, late, stop, broken>> /\ at' \in Points
    BY <1>a DEF IInv, SubmitSends, layouts, TypeOK, Points
  <2> QED
    BY <2>1, <2>2, <2>3, <2>4, <2>5, <2>6, <2>7, <2>8 DEF IInv, TypeOK
<1>2. OnePlace'
    BY <1>b, <1>c DEF IInv, OnePlace, TypeOK
<1>3. SlotForEach'
    BY <1>a DEF IInv, SubmitSends, layouts, SlotForEach, TypeOK
<1>4. Stages'
    BY <1>b, <1>c DEF IInv, Stages, OnePlace, TypeOK
<1>5. NotStartedNeverRan'
    BY <1>b DEF IInv, NotStartedNeverRan, Stages
<1> QED
    BY <1>1, <1>2, <1>3, <1>4, <1>5 DEF IInv

\* A request that leaves the queue is held, or answered: never both, never neither.
LEMMA ReceiveKeeps ==
    ASSUME IInv, Receive, held = NoJob, at \in {"admit", "idle"}, at' = "admit"
    PROVE  IInv'
<1>a. /\ Head(queue) \in Jobs /\ In(queue, Head(queue))
      /\ Tail(queue) \in Seq(Jobs) /\ Distinct(Tail(queue))
      /\ \A k : In(Tail(queue), k) <=> In(queue, k) /\ k # Head(queue)
  <2>1. queue \in Seq(Jobs) /\ Distinct(queue) /\ queue # <<>>
    BY DEF IInv, TypeOK, OnePlace, Receive
  <2> QED
    BY <2>1, TailPlaces
<1>b. \A len : WantAmong(Offers, len) \in 1 .. HomeSlots
  <2>1. HomeSlots \in Offers /\ Offers \subseteq 1 .. HomeSlots
    BY LayoutAssumption DEF LayoutAssumption, Offers
  <2> QED
    BY <2>1, LayoutAssumption, WantType
<1>c. pc[Head(queue)] = "waiting" /\ finished[Head(queue)] = 0
      /\ finished[Head(queue)] + 1 = 1
    BY <1>a DEF IInv, OnePlace, Stages
<1>d. \/ /\ \E a \in {"cancelled", "expired", "refused"} :
                answer' = [j \in Jobs |-> IF j \in {Head(queue)} THEN a ELSE answer[j]]
         /\ pc' = [j \in Jobs |-> IF j \in {Head(queue)} THEN "answered" ELSE pc[j]]
         /\ finished' = [j \in Jobs |-> IF j \in {Head(queue)} THEN finished[j] + 1
                                                            ELSE finished[j]]
         /\ UNCHANGED <<held, want>>
      \/ /\ held' = Head(queue) /\ UNCHANGED <<pc, answer, finished>>
         /\ \E n \in 1 .. HomeSlots : want' = [want EXCEPT ![Head(queue)] = n]
  <2>1. nSlots \in 1 .. HomeSlots
    BY DEF IInv, TypeOK
  <2>2. CASE Finish({Head(queue)}, WhyNot) /\ UNCHANGED <<held, want>>
    BY <2>2 DEF Finish, WhyNot
  <2>3. CASE Finish({Head(queue)}, [k \in Jobs |-> "refused"]) /\ UNCHANGED <<held, want>>
    BY <2>3 DEF Finish
  <2>4. CASE /\ held' = Head(queue) /\ UNCHANGED <<pc, answer, finished>>
             /\ want' = [want EXCEPT ![Head(queue)] =
                            IF Flexible THEN WantAmong(Offers, Need(Head(queue))) ELSE nSlots]
    BY <1>b, <2>1, <2>4
  <2> QED
    BY <2>2, <2>3, <2>4 DEF Receive
<1>e. /\ finished \in [Jobs -> {0, 1}]
      /\ finished' = finished \/ finished' = [j \in Jobs |-> IF j \in {Head(queue)} THEN finished[j] + 1
                                                                          ELSE finished[j]]
    BY <1>d DEF IInv, TypeOK
<1>1. TypeOK'
  <2>1. pc' \in [Jobs -> {"new", "checked", "waiting", "answered"}] /\ answer' \in [Jobs -> Answers]
    BY <1>a, <1>d DEF IInv, TypeOK, Answers
  <2>2. finished' \in [Jobs -> {0, 1}]
    BY <1>c, <1>e
  <2>3. queue' \in Seq(Jobs) /\ held' \in Jobs \cup {NoJob}
    BY <1>a, <1>b, NoJobAssumption DEF IInv, Receive, Finish, StillWanted, WhyNot, layouts, TypeOK
  <2>4. want' \in [Jobs -> 1 .. HomeSlots] /\ nSlots' \in 1 .. HomeSlots /\ refused' \subseteq 1 .. HomeSlots
    BY ZenonT(30), <1>a, <1>d DEF IInv, TypeOK, Receive, layouts
  <2>5. fit' \in [Jobs -> {"none", "whole", "cut", "tooLong"}]
    BY <1>a, <1>b, NoJobAssumption DEF IInv, Receive, Finish, StillWanted, WhyNot, layouts, TypeOK
  <2>6. running' \subseteq Jobs /\ writing' \subseteq running'
    BY <1>a, <1>b, NoJobAssumption DEF IInv, Receive, Finish, StillWanted, WhyNot, layouts, TypeOK
  <2>7. context' \in BOOLEAN /\ fatal' \in BOOLEAN
    BY <1>a, <1>b, NoJobAssumption DEF IInv, Receive, Finish, StillWanted, WhyNot, layouts, TypeOK
  <2>8. UNCHANGED <<prompt, gone, late, stop, broken>> /\ at' \in Points
    BY <1>a, <1>b, NoJobAssumption DEF IInv, Receive, Finish, StillWanted, WhyNot, layouts, TypeOK, Points
  <2> QED
    BY <2>1, <2>2, <2>3, <2>4, <2>5, <2>6, <2>7, <2>8 DEF IInv, TypeOK
<1>2. OnePlace'
    BY <1>a, <1>b, NoJobAssumption DEF IInv, Receive, Finish, StillWanted, WhyNot, layouts, OnePlace, TypeOK
<1>3. SlotForEach'
    BY <1>a, <1>b, NoJobAssumption DEF IInv, Receive, Finish, StillWanted, WhyNot, layouts, SlotForEach, TypeOK
<1>4. Stages'
    BY <1>a, <1>b, NoJobAssumption DEF IInv, Receive, Finish, StillWanted, WhyNot, layouts, Stages, OnePlace, TypeOK
<1>5. NotStartedNeverRan'
    BY <1>a, <1>b, NoJobAssumption DEF IInv, Receive, Finish, StillWanted, WhyNot, layouts, NotStartedNeverRan, Stages, OnePlace, TypeOK
<1> QED
    BY <1>1, <1>2, <1>3, <1>4, <1>5 DEF IInv

\* A held request nobody wants any more is answered and held no longer.
LEMMA DropHeldKeeps ==
    ASSUME IInv, DropHeld
    PROVE  IInv'
<1>1. TypeOK'
    BY NoJobAssumption DEF IInv, DropHeld, Finish, StillWanted, WhyNot, layouts, TypeOK, Answers, Points, Stages, OnePlace
<1>2. OnePlace'
    BY NoJobAssumption DEF IInv, DropHeld, Finish, StillWanted, WhyNot, layouts, OnePlace, TypeOK
<1>3. SlotForEach'
    BY NoJobAssumption DEF IInv, DropHeld, Finish, StillWanted, WhyNot, layouts, SlotForEach, TypeOK
<1>4. Stages'
    BY NoJobAssumption DEF IInv, DropHeld, Finish, StillWanted, WhyNot, layouts, Stages, OnePlace, TypeOK
<1>5. NotStartedNeverRan'
    BY NoJobAssumption DEF IInv, DropHeld, Finish, StillWanted, WhyNot, layouts, NotStartedNeverRan, Stages, OnePlace, TypeOK
<1> QED
    BY <1>1, <1>2, <1>3, <1>4, <1>5 DEF IInv

\* A batch that fails answers every request in a slot and frees the slots.
LEMMA StepFailsKeeps ==
    ASSUME IInv, StepFails
    PROVE  IInv'
<1>1. TypeOK'
    BY FS_EmptySet DEF IInv, StepFails, Finish, Dropped, Verdict, layouts, TypeOK, Answers, Points, Stages, OnePlace
<1>2. OnePlace'
    BY FS_EmptySet DEF IInv, StepFails, Finish, Dropped, Verdict, layouts, OnePlace, TypeOK
<1>3. SlotForEach'
    BY FS_EmptySet DEF IInv, StepFails, Finish, Dropped, Verdict, layouts, SlotForEach, TypeOK
<1>4. Stages'
    BY FS_EmptySet DEF IInv, StepFails, Finish, Dropped, Verdict, layouts, Stages, OnePlace, TypeOK
<1>5. NotStartedNeverRan'
    BY FS_EmptySet DEF IInv, StepFails, Finish, Dropped, Verdict, layouts, NotStartedNeverRan, Stages, OnePlace, TypeOK
<1> QED
    BY <1>1, <1>2, <1>3, <1>4, <1>5 DEF IInv

\* A backend that dies in a batch answers every request in a slot.
LEMMA StepDiesKeeps ==
    ASSUME IInv, StepDies
    PROVE  IInv'
<1>1. TypeOK'
  <2>1. pc' \in [Jobs -> {"new", "checked", "waiting", "answered"}] /\ answer' \in [Jobs -> Answers]
    BY FS_EmptySet DEF IInv, StepDies, Finish, Dropped, Verdict, layouts, TypeOK, Answers
  <2>2. finished' \in [Jobs -> {0, 1}]
    BY FS_EmptySet DEF IInv, StepDies, Finish, Dropped, Verdict, layouts, TypeOK, Stages, OnePlace
  <2>3. queue' \in Seq(Jobs) /\ held' \in Jobs \cup {NoJob}
    BY FS_EmptySet DEF IInv, StepDies, Finish, Dropped, Verdict, layouts, TypeOK
  <2>4. want' \in [Jobs -> 1 .. HomeSlots] /\ nSlots' \in 1 .. HomeSlots /\ refused' \subseteq 1 .. HomeSlots
    BY FS_EmptySet DEF IInv, StepDies, Finish, Dropped, Verdict, layouts, TypeOK
  <2>5. fit' \in [Jobs -> {"none", "whole", "cut", "tooLong"}]
    BY FS_EmptySet DEF IInv, StepDies, Finish, Dropped, Verdict, layouts, TypeOK
  <2>6. running' \subseteq Jobs /\ writing' \subseteq running'
    BY FS_EmptySet DEF IInv, StepDies, Finish, Dropped, Verdict, layouts, TypeOK
  <2>7. context' \in BOOLEAN /\ fatal' \in BOOLEAN
    BY FS_EmptySet DEF IInv, StepDies, Finish, Dropped, Verdict, layouts, TypeOK
  <2>8. UNCHANGED <<prompt, gone, late, stop, broken>> /\ at' \in Points
    BY FS_EmptySet DEF IInv, StepDies, Finish, Dropped, Verdict, layouts, TypeOK, Points
  <2> QED
    BY <2>1, <2>2, <2>3, <2>4, <2>5, <2>6, <2>7, <2>8 DEF IInv, TypeOK
<1>2. OnePlace'
    BY FS_EmptySet DEF IInv, StepDies, Finish, Dropped, Verdict, layouts, OnePlace, TypeOK
<1>3. SlotForEach'
    BY FS_EmptySet DEF IInv, StepDies, Finish, Dropped, Verdict, layouts, SlotForEach, TypeOK
<1>4. Stages'
    BY FS_EmptySet DEF IInv, StepDies, Finish, Dropped, Verdict, layouts, Stages, OnePlace, TypeOK
<1>5. NotStartedNeverRan'
    BY FS_EmptySet DEF IInv, StepDies, Finish, Dropped, Verdict, layouts, NotStartedNeverRan, Stages, OnePlace, TypeOK
<1> QED
    BY <1>1, <1>2, <1>3, <1>4, <1>5 DEF IInv

\* The drain answers what runs and what is held.
LEMMA DrainKeeps ==
    ASSUME IInv, Drain
    PROVE  IInv'
<1>1. TypeOK'
    BY NoJobAssumption, FS_EmptySet DEF IInv, Drain, Finish, layouts, TypeOK, Answers, Points, Stages, OnePlace
<1>2. OnePlace'
    BY NoJobAssumption, FS_EmptySet DEF IInv, Drain, Finish, layouts, OnePlace, TypeOK
<1>3. SlotForEach'
    BY NoJobAssumption, FS_EmptySet DEF IInv, Drain, Finish, layouts, SlotForEach, TypeOK
<1>4. Stages'
    BY NoJobAssumption, FS_EmptySet DEF IInv, Drain, Finish, layouts, Stages, OnePlace, TypeOK
<1>5. NotStartedNeverRan'
    BY NoJobAssumption, FS_EmptySet DEF IInv, Drain, Finish, layouts, NotStartedNeverRan, Stages, OnePlace, TypeOK
<1> QED
    BY <1>1, <1>2, <1>3, <1>4, <1>5 DEF IInv

\* Another layout is built, or failed to be, while no slot is occupied.
LEMMA ReshapeKeeps ==
    ASSUME IInv, Reshape
    PROVE  IInv'
<1>c. UNCHANGED <<pc, answer, finished, queue, held, fit>> /\ (at' = "broken" \/ (at' = at /\ context' = context))
    /\ at = "admit"
    BY DEF Reshape, callers
<1>a. held \in Jobs /\ running = {} /\ want[held] \in 1 .. HomeSlots
    BY DEF IInv, TypeOK, Reshape, Reshaped
<1>b. /\ HomeSlots \in 1 .. HomeSlots
      /\ want[held] # HomeSlots =>
            WantAmong(Offers \ {want[held]}, Remembered(held)) \in 1 .. HomeSlots
  <2>1. HomeSlots \in Offers /\ Offers \subseteq 1 .. HomeSlots
    BY LayoutAssumption DEF LayoutAssumption, Offers
  <2>2. want[held] # HomeSlots =>
            Offers \ {want[held]} # {} /\ Offers \ {want[held]} \subseteq 1 .. HomeSlots
    BY <2>1
  <2> QED
    BY <2>1, <2>2, LayoutAssumption, WantType
<1>1. TypeOK'
  <2>1. pc' \in [Jobs -> {"new", "checked", "waiting", "answered"}] /\ answer' \in [Jobs -> Answers]
    BY <1>a, <1>b, FS_EmptySet DEF IInv, Reshape, Reshaped, callers, TypeOK, Answers
  <2>2. finished' \in [Jobs -> {0, 1}]
    BY <1>a, <1>b, FS_EmptySet DEF IInv, Reshape, Reshaped, callers, TypeOK, Stages, OnePlace
  <2>3. queue' \in Seq(Jobs) /\ held' \in Jobs \cup {NoJob}
    BY <1>a, <1>b, FS_EmptySet DEF IInv, Reshape, Reshaped, callers, TypeOK
  <2>4. want' \in [Jobs -> 1 .. HomeSlots] /\ nSlots' \in 1 .. HomeSlots /\ refused' \subseteq 1 .. HomeSlots
    BY <1>a, <1>b, FS_EmptySet DEF IInv, Reshape, Reshaped, callers, TypeOK
  <2>5. fit' \in [Jobs -> {"none", "whole", "cut", "tooLong"}]
    BY <1>a, <1>b, FS_EmptySet DEF IInv, Reshape, Reshaped, callers, TypeOK
  <2>6. running' \subseteq Jobs /\ writing' \subseteq running'
    BY <1>a, <1>b, FS_EmptySet DEF IInv, Reshape, Reshaped, callers, TypeOK
  <2>7. context' \in BOOLEAN /\ fatal' \in BOOLEAN
    BY <1>a, <1>b, FS_EmptySet DEF IInv, Reshape, Reshaped, callers, TypeOK
  <2>8. UNCHANGED <<prompt, gone, late, stop, broken>> /\ at' \in Points
    BY <1>a, <1>b, FS_EmptySet DEF IInv, Reshape, Reshaped, callers, TypeOK, Points
  <2> QED
    BY <2>1, <2>2, <2>3, <2>4, <2>5, <2>6, <2>7, <2>8 DEF IInv, TypeOK
<1>2. OnePlace'
    BY <1>a, <1>b, FS_EmptySet DEF IInv, Reshape, Reshaped, callers, OnePlace, TypeOK
<1>3. SlotForEach'
    BY <1>a, <1>b, FS_EmptySet DEF IInv, Reshape, Reshaped, callers, SlotForEach, TypeOK
<1>4. Stages'
    BY <1>c DEF IInv, Stages
<1>5. NotStartedNeverRan'
    BY <1>a, <1>b, FS_EmptySet DEF IInv, Reshape, Reshaped, callers, NotStartedNeverRan, Stages, OnePlace, TypeOK
<1> QED
    BY <1>1, <1>2, <1>3, <1>4, <1>5 DEF IInv

\* Leaving the admission loop for a batch disturbs nothing.
LEMMA AdmittedKeeps ==
    ASSUME IInv, Admitted
    PROVE  IInv'
<1>a. running = {} => held = NoJob
  <2>1. SUFFICES ASSUME running = {}, held # NoJob PROVE FALSE
    OBVIOUS
  <2>2. ~PlacedNow(held) /\ ~Reshaped(held)
    BY <2>1 DEF Admitted
  <2>3. FreeSlot
    BY <2>1, FS_EmptySet DEF FreeSlot, IInv, TypeOK
  <2> QED
    BY <2>1, <2>2, <2>3 DEF PlacedNow, Reshaped
<1>1. TypeOK'
    BY <1>a DEF IInv, Admitted, callers, layouts, TypeOK, Answers, Points, Stages, OnePlace
<1>2. OnePlace'
    BY <1>a DEF IInv, Admitted, callers, layouts, OnePlace, TypeOK
<1>3. SlotForEach'
    BY <1>a DEF IInv, Admitted, callers, layouts, SlotForEach, TypeOK
<1>4. Stages'
    BY <1>a DEF IInv, Admitted, callers, layouts, Stages, OnePlace, TypeOK
<1>5. NotStartedNeverRan'
    BY <1>a DEF IInv, Admitted, callers, layouts, NotStartedNeverRan, Stages, OnePlace, TypeOK
<1> QED
    BY <1>1, <1>2, <1>3, <1>4, <1>5 DEF IInv

\* The drain answers what is queued, one by one.
LEMMA DrainQueueKeeps ==
    ASSUME IInv, DrainQueue
    PROVE  IInv'
<1>a. queue # <<>> =>
        /\ Head(queue) \in Jobs /\ In(queue, Head(queue))
        /\ Tail(queue) \in Seq(Jobs) /\ Distinct(Tail(queue))
        /\ \A k : In(Tail(queue), k) <=> In(queue, k) /\ k # Head(queue)
  <2>1. queue \in Seq(Jobs) /\ Distinct(queue)
    BY DEF IInv, TypeOK, OnePlace
  <2> QED
    BY <2>1, TailPlaces
<1>b. /\ \A k \in Jobs : pc'[k] = IF queue # <<>> /\ k = Head(queue) THEN "answered" ELSE pc[k]
      /\ \A k \in Jobs : pc'[k] # "answered" =>
            finished'[k] = finished[k] /\ answer'[k] = answer[k]
      /\ UNCHANGED <<held, running, fit, context>>
      /\ at' \in {"drainQueue", "stopped"}
    BY <1>a DEF IInv, DrainQueue, Finish, TypeOK, layouts
<1>c. /\ Distinct(queue')
      /\ \A k : In(queue', k) <=> In(queue, k) /\ ~(queue # <<>> /\ k = Head(queue))
  <2>1. CASE queue # <<>> /\ queue' = Tail(queue)
    BY <1>a, <2>1
  <2>2. CASE queue = <<>> /\ queue' = queue
    BY <2>2 DEF IInv, OnePlace
  <2> QED
    BY <2>1, <2>2 DEF DrainQueue
<1>1. TypeOK'
  <2>1. pc' \in [Jobs -> {"new", "checked", "waiting", "answered"}] /\ answer' \in [Jobs -> Answers]
    BY <1>a, NoJobAssumption DEF IInv, DrainQueue, Finish, layouts, TypeOK, Answers
  <2>2. finished' \in [Jobs -> {0, 1}]
    BY <1>a, NoJobAssumption DEF IInv, DrainQueue, Finish, layouts, TypeOK, Stages, OnePlace
  <2>3. queue' \in Seq(Jobs) /\ held' \in Jobs \cup {NoJob}
    BY <1>a, NoJobAssumption DEF IInv, DrainQueue, Finish, layouts, TypeOK
  <2>4. want' \in [Jobs -> 1 .. HomeSlots] /\ nSlots' \in 1 .. HomeSlots /\ refused' \subseteq 1 .. HomeSlots
    BY <1>a, NoJobAssumption DEF IInv, DrainQueue, Finish, layouts, TypeOK
  <2>5. fit' \in [Jobs -> {"none", "whole", "cut", "tooLong"}]
    BY <1>a, NoJobAssumption DEF IInv, DrainQueue, Finish, layouts, TypeOK
  <2>6. running' \subseteq Jobs /\ writing' \subseteq running'
    BY <1>a, NoJobAssumption DEF IInv, DrainQueue, Finish, layouts, TypeOK
  <2>7. context' \in BOOLEAN /\ fatal' \in BOOLEAN
    BY <1>a, NoJobAssumption DEF IInv, DrainQueue, Finish, layouts, TypeOK
  <2>8. UNCHANGED <<prompt, gone, late, stop, broken>> /\ at' \in Points
    BY <1>a, NoJobAssumption DEF IInv, DrainQueue, Finish, layouts, TypeOK, Points
  <2> QED
    BY <2>1, <2>2, <2>3, <2>4, <2>5, <2>6, <2>7, <2>8 DEF IInv, TypeOK
<1>2. OnePlace'
    BY <1>a, <1>b, <1>c DEF IInv, OnePlace, TypeOK
<1>3. SlotForEach'
    BY <1>a, NoJobAssumption DEF IInv, DrainQueue, Finish, layouts, SlotForEach, TypeOK
<1>4. Stages'
    BY <1>b, <1>c DEF IInv, Stages, OnePlace, TypeOK
<1>5. NotStartedNeverRan'
    BY <1>a, NoJobAssumption DEF IInv, DrainQueue, Finish, layouts, NotStartedNeverRan, Stages, OnePlace, TypeOK
<1> QED
    BY <1>1, <1>2, <1>3, <1>4, <1>5 DEF IInv

\* A batch ends some requests and frees their slots, and no others.
LEMMA StepKeeps ==
    ASSUME IInv, Step
    PROVE  IInv'
<1>b. UNCHANGED layouts
    BY DEF Step
<1>a. /\ running' \subseteq running
      /\ Cardinality(running') \in Nat /\ Cardinality(running) \in Nat
      /\ Cardinality(running') <= Cardinality(running)
  <2>1. running' \subseteq running
    BY DEF Step, Dropped, IInv, TypeOK
  <2>2. IsFiniteSet(running)
    BY JobsFinite, FS_Subset DEF JobsFinite, IInv, TypeOK
  <2> QED
    BY <2>1, <2>2, FS_Subset, FS_CardinalityType
<1>1. TypeOK'
    BY <1>a DEF IInv, Step, Finish, Dropped, Verdict, layouts, TypeOK, Answers, Points, Stages, OnePlace
<1>2. OnePlace'
    BY <1>a DEF IInv, Step, Finish, Dropped, Verdict, layouts, OnePlace, TypeOK
<1>3. SlotForEach'
    BY <1>a, <1>b DEF IInv, SlotForEach, TypeOK, layouts
<1>4. Stages'
    BY <1>a DEF IInv, Step, Finish, Dropped, Verdict, layouts, Stages, OnePlace, TypeOK
<1>5. NotStartedNeverRan'
    BY <1>a DEF IInv, Step, Finish, Dropped, Verdict, layouts, NotStartedNeverRan, Stages, OnePlace, TypeOK
<1> QED
    BY <1>1, <1>2, <1>3, <1>4, <1>5 DEF IInv

\* A held request takes a free slot, is refused, or waits.
LEMMA StartKeeps ==
    ASSUME IInv, Start
    PROVE  IInv'
<1>a. held \in Jobs
    BY DEF Start, IInv, TypeOK
<1>d. pc[held] = "waiting" /\ finished[held] = 0 /\ finished[held] + 1 = 1
    BY <1>a DEF IInv, OnePlace, Stages
<1>e. /\ finished \in [Jobs -> {0, 1}]
      /\ finished' = finished \/ finished' = [j \in Jobs |-> IF j \in {held} THEN finished[j] + 1
                                                              ELSE finished[j]]
    BY DEF IInv, TypeOK, Start, StartText, StartPictures, Finish
<1>b. running' = running \/ running' = running \cup {held}
    BY DEF Start, StartText, StartPictures
<1>c. Cardinality(running \cup {held}) <= nSlots
  <2>1. IsFiniteSet(running)
    BY JobsFinite, FS_Subset DEF JobsFinite, IInv, TypeOK
  <2>2. held \notin running
    BY <1>a DEF IInv, OnePlace
  <2>3. Cardinality(running \cup {held}) = Cardinality(running) + 1
    BY <2>1, <2>2, FS_AddElement
  <2>4. Cardinality(running) \in Nat /\ Cardinality(running) < nSlots
    BY <2>1, FS_CardinalityType DEF Start, PlacedNow, FreeSlot
  <2> QED
    BY <2>3, <2>4 DEF IInv, TypeOK
<1>1. TypeOK'
  <2>1. pc' \in [Jobs -> {"new", "checked", "waiting", "answered"}] /\ answer' \in [Jobs -> Answers]
    BY <1>a, NoJobAssumption DEF IInv, Start, StartText, StartPictures, Fits, Finish, layouts, TypeOK, Answers
  <2>2. finished' \in [Jobs -> {0, 1}]
    BY <1>d, <1>e
  <2>3. queue' \in Seq(Jobs) /\ held' \in Jobs \cup {NoJob}
    BY <1>a, NoJobAssumption DEF IInv, Start, StartText, StartPictures, Fits, Finish, layouts, TypeOK
  <2>4. want' \in [Jobs -> 1 .. HomeSlots] /\ nSlots' \in 1 .. HomeSlots /\ refused' \subseteq 1 .. HomeSlots
    BY <1>a, NoJobAssumption DEF IInv, Start, StartText, StartPictures, Fits, Finish, layouts, TypeOK
  <2>5. fit' \in [Jobs -> {"none", "whole", "cut", "tooLong"}]
    BY <1>a, NoJobAssumption DEF IInv, Start, StartText, StartPictures, Fits, Finish, layouts, TypeOK
  <2>6. running' \subseteq Jobs /\ writing' \subseteq running'
    BY <1>a, NoJobAssumption DEF IInv, Start, StartText, StartPictures, Fits, Finish, layouts, TypeOK
  <2>7. context' \in BOOLEAN /\ fatal' \in BOOLEAN
    BY <1>a, NoJobAssumption DEF IInv, Start, StartText, StartPictures, Fits, Finish, layouts, TypeOK
  <2>8. UNCHANGED <<prompt, gone, late, stop, broken>> /\ at' \in Points
    BY <1>a, NoJobAssumption DEF IInv, Start, StartText, StartPictures, Fits, Finish, layouts, TypeOK, Points
  <2> QED
    BY <2>1, <2>2, <2>3, <2>4, <2>5, <2>6, <2>7, <2>8 DEF IInv, TypeOK
<1>2. OnePlace'
    BY <1>a, NoJobAssumption DEF IInv, Start, StartText, StartPictures, Fits, Finish, layouts, OnePlace, TypeOK
<1>3. SlotForEach'
    BY <1>b, <1>c DEF IInv, SlotForEach, Stages, TypeOK, Start, layouts
<1>4. Stages'
    BY <1>a, NoJobAssumption DEF IInv, Start, StartText, StartPictures, Fits, Finish, layouts, Stages, OnePlace, TypeOK
<1>5. NotStartedNeverRan'
    BY SMTT(30), <1>a, NoJobAssumption DEF IInv, Start, StartText, StartPictures, Fits, Finish, layouts, NotStartedNeverRan, Stages, OnePlace, TypeOK
<1> QED
    BY <1>1, <1>2, <1>3, <1>4, <1>5 DEF IInv

\* Receiving a request keeps the invariant, from the admission loop or from idling.
LEMMA TakeKeeps ==
    ASSUME IInv, Take \/ Wake
    PROVE  IInv'
<1>1. CASE Take
  <2>1. Receive /\ held = NoJob /\ at = "admit" /\ at' = "admit"
    BY <1>1 DEF Take
  <2> QED
    BY <2>1, ReceiveKeeps
<1>2. CASE Wake
  <2>1. Receive /\ at = "idle" /\ at' = "admit"
    BY <1>2 DEF Wake
  <2>2. held = NoJob
    BY <2>1 DEF IInv, Stages
  <2> QED
    BY <2>1, <2>2, ReceiveKeeps
<1> QED
    BY <1>1, <1>2

\* The invariant is inductive.
LEMMA NextKeeps == IInv /\ [Next]_vars => IInv'
<1> SUFFICES ASSUME IInv, [Next]_vars PROVE IInv'
    OBVIOUS
<1>1. CASE UNCHANGED vars
    BY <1>1 DEF vars, IInv, TypeOK, OnePlace, SlotForEach, Stages, NotStartedNeverRan, In,
                Distinct
<1>2. ASSUME NEW j \in Jobs, SubmitLooks(j) \/ SubmitSends(j) \/ GoesAway(j) \/ RunsLate(j)
      PROVE  IInv'
    BY <1>2, SubmitLooksKeeps, SubmitSendsKeeps, GoesAwayKeeps, RunsLateKeeps
<1>3. CASE Close
    BY <1>3, CloseKeeps
<1>4. CASE Run
    BY <1>4, TakeKeeps, DropHeldKeeps, StartKeeps, ReshapeKeeps, AdmittedKeeps, SeesStopKeeps,
       StepKeeps, StepFailsKeeps, StepDiesKeeps, OnFatalKeeps, DrainKeeps, DrainQueueKeeps
       DEF Run
<1> QED
    BY <1>1, <1>2, <1>3, <1>4 DEF Next

\* Every reachable state satisfies the invariant.
THEOREM InvariantHolds == Spec => []IInv
    BY InitHolds, NextKeeps, PTL DEF Spec

\* Every variable keeps its type; in particular no job is finished twice, which
\* would close a closed channel.
THEOREM TypeCorrect == Spec => []TypeOK
<1>1. IInv => TypeOK
    BY DEF IInv
<1> QED
    BY <1>1, InvariantHolds, PTL

\* An accepted request is in exactly one of the queue, the head and the slots
\* until it is answered, and in none after (submit, run, admit, release, drain).
THEOREM OneOfThePlaces == Spec => []OnePlace
<1>1. IInv => OnePlace
    BY DEF IInv
<1> QED
    BY <1>1, InvariantHolds, PTL

\* No more replies are under way than there are slots, and never without a
\* context (place, reshape, startIn).
THEOREM EnoughSlots == Spec => []SlotForEach
<1>1. IInv => SlotForEach
    BY DEF IInv
<1> QED
    BY <1>1, InvariantHolds, PTL

\* A request told ErrNotStarted had none of it run (submit, drain), so that its
\* caller may run it again from the start.
THEOREM NotStartedIsTrue == Spec => []NotStartedNeverRan
<1>1. IInv => NotStartedNeverRan
    BY DEF IInv
<1> QED
    BY <1>1, InvariantHolds, PTL

----------------------------------------------------------------------------
(* What a step may do.                                                     *)

\* The request at the head asks for a layout that is still on offer.
Sized == Flexible /\ held # NoJob => want[held] \in Offers

\* No step withdraws the layout the held request waits for.
LEMMA SizedKeeps ==
    ASSUME IInv, Sized, [Next]_vars
    PROVE  Sized'
<1> USE DEF Sized
<1>1. HomeSlots \in Offers /\ Offers \subseteq 1 .. HomeSlots
    BY LayoutAssumption DEF LayoutAssumption, Offers
<1>2. UNCHANGED refused => Offers' = Offers
    BY DEF Offers
<1>3. CASE UNCHANGED <<held, want, refused>> \/ (held' = NoJob /\ UNCHANGED refused)
    BY <1>2, <1>3
<1>4. CASE Take \/ Wake
  <2>1. Receive /\ queue # <<>>
    BY <1>4 DEF Take, Wake, Receive
  <2>2. CASE UNCHANGED <<held, want>>
    BY <1>2, <2>1, <2>2 DEF Receive, layouts
  <2>3. CASE /\ held' = Head(queue)
             /\ want' = [want EXCEPT ![Head(queue)] =
                            IF Flexible THEN WantAmong(Offers, Need(Head(queue))) ELSE nSlots]
    <3>1. Head(queue) \in Jobs
        BY <2>1, TailPlaces DEF IInv, TypeOK, OnePlace
    <3>2. WantAmong(Offers, Need(Head(queue))) \in Offers
        BY <1>1, WantType, LayoutAssumption
    <3>3. Flexible => want'[held'] \in Offers
        BY <2>3, <3>1, <3>2 DEF IInv, TypeOK
    <3> QED
        BY <1>2, <2>1, <3>3 DEF Receive, layouts
  <2> QED
    BY <2>1, <2>2, <2>3 DEF Receive
<1>5. CASE Reshape
  <2>1. held \in Jobs /\ Flexible /\ held' = held
    BY <1>5 DEF Reshape, Reshaped, IInv, TypeOK
  <2>2. CASE UNCHANGED <<want, refused>>
    BY <1>2, <2>1, <2>2
  <2>3. CASE /\ want[held] # HomeSlots /\ refused' = refused \cup {want[held]}
             /\ want' = [want EXCEPT ![held] =
                            WantAmong(Offers \ {want[held]}, Remembered(held))]
    <3>1. Offers' = Offers \ {want[held]}
        BY <2>3 DEF Offers
    <3>2. HomeSlots \in Offers \ {want[held]}
        BY <1>1, <2>3
    <3>3. WantAmong(Offers \ {want[held]}, Remembered(held)) \in Offers \ {want[held]}
        BY <1>1, <3>2, WantType, LayoutAssumption
    <3>4. want'[held'] \in Offers'
        BY <2>1, <2>3, <3>1, <3>3 DEF IInv, TypeOK
    <3> QED
        BY <3>4
  <2> QED
    BY <1>5, <2>2, <2>3 DEF Reshape
<1>6. Next => \/ UNCHANGED <<held, want, refused>> \/ (held' = NoJob /\ UNCHANGED refused)
              \/ Take \/ Wake \/ Reshape
    BY DEF Next, Run, SubmitLooks, SubmitSends, GoesAway, RunsLate, Close, DropHeld, Start,
           Admitted, SeesStop, Step, StepFails, StepDies, OnFatal, Drain, DrainQueue, layouts
<1> QED
    BY <1>3, <1>4, <1>5, <1>6 DEF vars

\* A step that changes the layout does so between replies, and not to one that
\* could not be built before (place, reshape, flex.want).
THEOREM ReshapesBetweenReplies == Spec => ReshapesIdle
<1>1. Init => Sized
    BY DEF Init, Sized
<1>2. ASSUME IInv, Sized, [Next]_vars
      PROVE  nSlots' # nSlots =>
                /\ running = {} /\ running' = {}
                /\ nSlots' = HomeSlots \/ nSlots' \notin refused
  <2>1. SUFFICES ASSUME nSlots' # nSlots
                 PROVE  /\ running = {} /\ running' = {}
                        /\ nSlots' = HomeSlots \/ nSlots' \notin refused
    OBVIOUS
  <2>2. Reshape
    BY <1>2, <2>1 DEF Next, Run, SubmitLooks, SubmitSends, GoesAway, RunsLate, Close, Take,
        Wake, Receive, DropHeld, Start, Admitted, SeesStop, Step, StepFails, StepDies, OnFatal,
        Drain, DrainQueue, layouts, vars
  <2>3. running = {} /\ running' = {} /\ Flexible /\ held # NoJob
    BY <2>2 DEF Reshape, Reshaped
  <2>4. nSlots' = HomeSlots \/ nSlots' = want[held]
    BY <2>1, <2>2 DEF Reshape
  <2>5. want[held] = HomeSlots \/ want[held] \notin refused
    BY <1>2, <2>3 DEF Sized, Offers
  <2> QED
    BY <2>3, <2>4, <2>5
<1>3. IInv /\ Sized /\ [Next]_vars => Sized'
    BY SizedKeeps
<1> QED
    BY <1>1, <1>2, <1>3, InvariantHolds, PTL DEF Spec, ReshapesIdle

\* A request gets its slot only as the oldest of those that wait (head, admit).
THEOREM OldestGoesFirst == Spec => OldestFirst
<1>1. ASSUME IInv, [Next]_vars, NEW j \in running' \ running
      PROVE  Head((IF held = NoJob THEN <<>> ELSE <<held>>) \o queue) = j
  <2>1. running' \subseteq running \/ Start
    BY <1>1 DEF Next, Run, SubmitLooks, SubmitSends, GoesAway, RunsLate, Close, Take, Wake,
        Receive, DropHeld, Reshape, Admitted, SeesStop, Step, StepFails, StepDies, OnFatal,
        Drain, DrainQueue, callers, vars
  <2>2. held # NoJob /\ j = held
    BY <1>1, <2>1 DEF Start, StartText, StartPictures
  <2>3. queue \in Seq(Jobs) /\ j \in Jobs
    BY <1>1, <2>2 DEF IInv, TypeOK
  <2>4. Head(<<held>> \o queue) = held
    BY <2>2, <2>3
  <2> QED
    BY <2>2, <2>4
<1>2. IInv /\ [Next]_vars =>
        [\A j \in running' \ running :
            Head((IF held = NoJob THEN <<>> ELSE <<held>>) \o queue) = j]_vars
    BY <1>1
<1> QED
    BY <1>2, InvariantHolds, PTL DEF Spec, OldestFirst

----------------------------------------------------------------------------
(* Nothing is cut that a layout holds.                                     *)

\* No layout the engine goes to, or a request asks for, has slots shorter than
\* home's; and an engine that may not change its layout is at home.
LongEnough ==
    IF Flexible THEN HomePer <= Per(nSlots) /\ \A j \in Jobs : HomePer <= Per(want[j])
                ELSE nSlots = HomeSlots

\* A prompt that loses nothing of its size when it is sized anew.
Plain(j) == ~prompt[j].pictures /\ prompt[j].resume = 0

\* The request at the head asks for a layout that holds it whole, if one on
\* offer does.
AsksForWhole ==
    Flexible /\ held # NoJob /\ Plain(held) /\ (\E n \in Offers : Holds(n, Need(held)))
        => Holds(want[held], Need(held))

\* Sizes are numbers.
LEMMA NeedType ==
    ASSUME TypeOK, NEW j \in Jobs
    PROVE  /\ Need(j) \in Nat /\ Remembered(j) \in Nat
           /\ Plain(j) => Remembered(j) = Need(j)
<1>1. prompt[j] \in [full : Nat, resume : Nat, pictures : BOOLEAN]
    BY PromptsAssumption DEF PromptsAssumption, TypeOK
<1> QED
    BY <1>1 DEF Need, Remembered, Plain

\* What is not flexible has no layout with slots longer than home's.
LEMMA HomeIsLongest ==
    ASSUME ~Flexible, NEW n \in 1 .. HomeSlots
    PROVE  Per(n) <= Per(HomeSlots)
<1>1. HomeSlots \in Nat \ {0} /\ HomePer \in Nat
    BY LayoutAssumption DEF LayoutAssumption
<1>2. Per(HomeSlots) = HomePer
    BY DEF Per
<1>3. CASE n = HomeSlots
    BY <1>1, <1>2, <1>3
<1>4. CASE n # HomeSlots
  <2>1. 1 \in 1 .. HomeSlots /\ 1 <= n /\ HomeSlots > 1
    BY <1>1, <1>4
  <2>2. Per(n) <= Per(1)
    BY <1>4, <2>1, FewerAreLonger, LayoutAssumption
  <2>3. Per(1) \in Nat /\ Per(n) \in Nat
    BY <2>1, PerType, LayoutAssumption
  <2>4. Per(1) <= HomePer
    BY <1>1, <2>1, <2>3 DEF Flexible
  <2> QED
    BY <1>1, <1>2, <2>2, <2>3, <2>4
<1> QED
    BY <1>3, <1>4

\* Layouts stay as long as home.
LEMMA LongEnoughKeeps ==
    ASSUME IInv, LongEnough, [Next]_vars
    PROVE  LongEnough'
<1> USE DEF LongEnough
<1>1. HomeSlots \in Offers /\ Offers \subseteq 1 .. HomeSlots
    BY LayoutAssumption DEF LayoutAssumption, Offers
<1>2. Per(HomeSlots) = HomePer /\ HomePer <= HomePer
    BY LayoutAssumption DEF LayoutAssumption, Per
<1>3. CASE UNCHANGED <<nSlots, want>>
    BY <1>3
<1>4. CASE Take \/ Wake
  <2>1. Receive /\ queue # <<>> /\ UNCHANGED nSlots
    BY <1>4 DEF Take, Wake, Receive, layouts
  <2>2. CASE UNCHANGED want
    BY <1>3, <2>1, <2>2
  <2>3. CASE want' = [want EXCEPT ![Head(queue)] =
                        IF Flexible THEN WantAmong(Offers, Need(Head(queue))) ELSE nSlots]
    <3>1. Head(queue) \in Jobs
        BY <2>1, TailPlaces DEF IInv, TypeOK, OnePlace
    <3>2. Need(Head(queue)) \in Nat
        BY <3>1, NeedType DEF IInv
    <3>3. HomePer <= Per(WantAmong(Offers, Need(Head(queue))))
        BY <1>1, <3>2, WantIsLong, LayoutAssumption
    <3>4. Flexible => \A j \in Jobs : HomePer <= Per(want'[j])
        BY <2>3, <3>3 DEF IInv, TypeOK
    <3> QED
        BY <2>1, <3>4
  <2> QED
    BY <2>1, <2>2, <2>3 DEF Receive
<1>5. CASE Reshape
  <2>1. held \in Jobs /\ Flexible
    BY <1>5 DEF Reshape, Reshaped, IInv, TypeOK
  <2>2. nSlots' \in {want[held], HomeSlots, nSlots}
    BY <1>5 DEF Reshape
  <2>3. HomePer <= Per(nSlots')
    BY <1>2, <2>1, <2>2
  <2>4. CASE UNCHANGED want
    BY <2>1, <2>3, <2>4
  <2>5. CASE /\ want[held] # HomeSlots
             /\ want' = [want EXCEPT ![held] =
                            WantAmong(Offers \ {want[held]}, Remembered(held))]
    <3>1. HomeSlots \in Offers \ {want[held]} /\ Offers \ {want[held]} \in SUBSET (1 .. HomeSlots)
        BY <1>1, <2>5
    <3>2. Remembered(held) \in Nat
        BY <2>1, NeedType DEF IInv
    <3>3. HomePer <= Per(WantAmong(Offers \ {want[held]}, Remembered(held)))
        BY <3>1, <3>2, WantIsLong, LayoutAssumption
    <3>4. \A j \in Jobs : HomePer <= Per(want'[j])
        BY <2>1, <2>5, <3>3 DEF IInv, TypeOK
    <3> QED
        BY <2>1, <2>3, <3>4
  <2> QED
    BY <1>5, <2>4, <2>5 DEF Reshape
<1>6. Next => UNCHANGED <<nSlots, want>> \/ Take \/ Wake \/ Reshape
    BY DEF Next, Run, SubmitLooks, SubmitSends, GoesAway, RunsLate, Close, DropHeld, Start,
           Admitted, SeesStop, Step, StepFails, StepDies, OnFatal, Drain, DrainQueue, layouts
<1> QED
    BY <1>3, <1>4, <1>5, <1>6 DEF vars

\* No step makes the held request ask for a layout that cuts it needlessly.
LEMMA AsksForWholeKeeps ==
    ASSUME IInv, AsksForWhole, [Next]_vars
    PROVE  AsksForWhole'
<1>1. HomeSlots \in Offers /\ Offers \subseteq 1 .. HomeSlots
    BY LayoutAssumption DEF LayoutAssumption, Offers
<1>2. UNCHANGED refused => Offers' = Offers
    BY DEF Offers
<1>3. CASE held' = NoJob
    BY <1>3 DEF AsksForWhole
<1>4. ASSUME held # NoJob, UNCHANGED <<held, want, refused>>, prompt'[held] = prompt[held]
      PROVE  AsksForWhole'
    BY <1>2, <1>4 DEF AsksForWhole, Plain, Need
<1>5. CASE UNCHANGED <<held, want, refused, prompt>>
    BY <1>3, <1>4, <1>5
<1>6. CASE \E j \in Jobs : SubmitLooks(j)
  <2>1. PICK j \in Jobs : SubmitLooks(j)
    BY <1>6
  <2>2. UNCHANGED <<held, want, refused>> /\ pc[j] = "new"
    BY <2>1 DEF SubmitLooks, layouts
  <2>3. CASE held = NoJob
    BY <1>3, <2>2, <2>3
  <2>4. CASE held # NoJob
    <3>1. held \in Jobs /\ pc[held] = "waiting"
        BY <2>4 DEF IInv, TypeOK, OnePlace
    <3>2. held # j
        BY <2>2, <3>1
    <3>3. prompt'[held] = prompt[held]
        BY <2>1, <3>1, <3>2 DEF SubmitLooks, IInv, TypeOK
    <3> QED
        BY <1>4, <2>2, <2>4, <3>3
  <2> QED
    BY <2>3, <2>4
<1>7. CASE Take \/ Wake
  <2>1. Receive /\ queue # <<>> /\ UNCHANGED <<prompt, refused>>
    BY <1>7 DEF Take, Wake, Receive, layouts
  <2>2. CASE UNCHANGED <<held, want>>
    BY <1>5, <2>1, <2>2
  <2>3. CASE /\ held' = Head(queue)
             /\ want' = [want EXCEPT ![Head(queue)] =
                            IF Flexible THEN WantAmong(Offers, Need(Head(queue))) ELSE nSlots]
    <3>1. Head(queue) \in Jobs
        BY <2>1, TailPlaces DEF IInv, TypeOK, OnePlace
    <3>2. Offers' = Offers /\ Need(held') = Need(Head(queue)) /\ Need(held)' = Need(held')
        BY <1>2, <2>1, <2>3 DEF Need
    <3>3. Flexible => want'[held'] = WantAmong(Offers, Need(held'))
        BY <2>3, <3>1, <3>2 DEF IInv, TypeOK
    <3>4. (\E n \in Offers : Holds(n, Need(held')))
            => Holds(WantAmong(Offers, Need(held')), Need(held'))
        BY <1>1, WantHolds, LayoutAssumption
    <3> QED
        BY <3>2, <3>3, <3>4 DEF AsksForWhole
  <2> QED
    BY <2>1, <2>2, <2>3 DEF Receive
<1>8. CASE Reshape
  <2>1. held \in Jobs /\ Flexible /\ UNCHANGED <<held, prompt>>
    BY <1>8 DEF Reshape, Reshaped, IInv, TypeOK, callers
  <2>2. CASE UNCHANGED <<want, refused>>
    BY <1>5, <2>1, <2>2
  <2>3. CASE /\ want[held] # HomeSlots /\ refused' = refused \cup {want[held]}
             /\ want' = [want EXCEPT ![held] =
                            WantAmong(Offers \ {want[held]}, Remembered(held))]
    <3> DEFINE left == Offers \ {want[held]}
    <3>1. Offers' = left /\ Need(held)' = Need(held) /\ (Plain(held)' <=> Plain(held))
        BY <2>1, <2>3 DEF Offers, Need, Plain
    <3>2. Plain(held) => want'[held] = WantAmong(left, Need(held))
        BY <2>1, <2>3, NeedType DEF IInv, TypeOK
    <3>3. (\E n \in left : Holds(n, Need(held)))
            => Holds(WantAmong(left, Need(held)), Need(held))
        BY <1>1, WantHolds, LayoutAssumption
    <3> HIDE DEF left
    <3> QED
        BY <2>1, <3>1, <3>2, <3>3 DEF AsksForWhole
  <2> QED
    BY <1>8, <2>2, <2>3 DEF Reshape
<1>9. Next => \/ held' = NoJob \/ UNCHANGED <<held, want, refused, prompt>>
              \/ Take \/ Wake \/ Reshape \/ \E j \in Jobs : SubmitLooks(j)
    BY DEF Next, Run, SubmitSends, GoesAway, RunsLate, Close, DropHeld, Start, Admitted,
           SeesStop, Step, StepFails, StepDies, OnFatal, Drain, DrainQueue, layouts, callers
<1> QED
    BY <1>3, <1>5, <1>6, <1>7, <1>8, <1>9 DEF vars

\* Where the held request is placed holds it whole, if a layout on offer does:
\* it asked for that layout, or one with more, shorter slots (place).
LEMMA PlacedWhole ==
    ASSUME IInv, Sized, LongEnough, AsksForWhole, held # NoJob, Plain(held), PlacedNow(held),
           NEW n \in Offers, Holds(n, Need(held))
    PROVE  Holds(nSlots, Need(held))
<1>1. /\ HomeSlots \in Nat \ {0} /\ HomePer \in Nat /\ Per(HomeSlots) = HomePer
      /\ HomeSlots \in 1 .. HomeSlots
    BY LayoutAssumption DEF LayoutAssumption, Per
<1>2. held \in Jobs /\ nSlots \in 1 .. HomeSlots /\ n \in 1 .. HomeSlots
    BY DEF IInv, TypeOK, Offers
<1>3. Need(held) \in Nat /\ want[held] \in 1 .. HomeSlots
    BY <1>2, NeedType DEF IInv, TypeOK
<1>4. CASE ~Flexible
  <2>1. nSlots = HomeSlots
    BY <1>4 DEF LongEnough
  <2>2. Per(n) <= Per(HomeSlots)
    BY <1>2, <1>4, HomeIsLongest
  <2>3. Holds(HomeSlots, Need(held))
    BY <1>1, <1>2, <1>3, <2>2, LongerHoldsMore, LayoutAssumption
  <2> QED
    BY <2>1, <2>3
<1>5. CASE Flexible
  <2>1. Holds(want[held], Need(held))
    BY <1>5 DEF AsksForWhole
  <2>2. CASE want[held] = nSlots
    BY <2>1, <2>2
  <2>3. CASE want[held] > nSlots
    <3>1. Per(want[held]) <= Per(nSlots)
      <4>1. CASE want[held] = HomeSlots
          BY <1>1, <1>5, <4>1 DEF LongEnough
      <4>2. CASE want[held] # HomeSlots
          BY <1>2, <1>3, <2>3, <4>2, FewerAreLonger, LayoutAssumption
      <4> QED
          BY <4>1, <4>2
    <3> QED
        BY <1>2, <1>3, <2>1, <3>1, LongerHoldsMore, LayoutAssumption
  <2> QED
    BY <1>5, <2>2, <2>3 DEF PlacedNow
<1> QED
    BY <1>4, <1>5

\* A text prompt loses turns, or is refused as too long, only if no layout the
\* engine can still be in holds it whole, whatever was refused before and
\* whoever runs meanwhile (flex.want, place, reshape, startIn).
THEOREM NothingCutNeedlessly == Spec => RunsWhole
<1>1. Init => LongEnough /\ AsksForWhole /\ Sized
  <2>1. Per(HomeSlots) = HomePer /\ HomePer <= HomePer
    BY LayoutAssumption DEF LayoutAssumption, Per
  <2> QED
    BY <2>1 DEF Init, LongEnough, AsksForWhole, Sized
<1>2. ASSUME IInv, Sized, LongEnough, AsksForWhole, [Next]_vars, NEW j \in Jobs,
             fit[j] = "none", fit'[j] \in {"cut", "tooLong"}, ~prompt[j].pictures,
             prompt[j].resume = 0, NEW n \in Offers, Holds(n, Need(j))
      PROVE  FALSE
  <2>1. fit' # fit
    BY <1>2
  <2>2. Start
    BY <1>2, <2>1 DEF Next, Run, SubmitLooks, SubmitSends, GoesAway, RunsLate, Close, Take,
        Wake, Receive, DropHeld, Reshape, Admitted, SeesStop, Step, StepFails, StepDies,
        OnFatal, Drain, DrainQueue, vars
  <2>3. held \in Jobs /\ held # NoJob /\ PlacedNow(held) /\ fit \in [Jobs -> {"none", "whole", "cut", "tooLong"}]
    BY <1>2, <2>2 DEF Start, IInv, TypeOK
  <2>4. \E f \in {"whole", "cut", "tooLong"} : fit' = [fit EXCEPT ![held] = f]
    BY <2>2 DEF Start, StartText, StartPictures, Fits
  <2>5. j = held
    BY <1>2, <2>3, <2>4
  <2>6. StartText(held) /\ Plain(held)
    BY <1>2, <2>2, <2>5 DEF Start, StartPictures, Plain
  <2>7. Holds(nSlots, Need(held))
    BY <1>2, <2>3, <2>5, <2>6, PlacedWhole
  <2>8. fit' = [fit EXCEPT ![held] = "whole"]
    BY <2>6, <2>7 DEF StartText, Fits
  <2> QED
    BY <1>2, <2>3, <2>5, <2>8
<1>3. IInv /\ Sized /\ LongEnough /\ AsksForWhole /\ [Next]_vars
        => Sized' /\ LongEnough' /\ AsksForWhole'
    BY SizedKeeps, LongEnoughKeeps, AsksForWholeKeeps
<1>4. IInv /\ Sized /\ LongEnough /\ AsksForWhole /\ [Next]_vars =>
        [\A j \in Jobs :
            fit[j] = "none" /\ fit'[j] \in {"cut", "tooLong"} /\ ~prompt[j].pictures
                /\ prompt[j].resume = 0
                => \A n \in Offers : ~Holds(n, Need(j))]_vars
    BY <1>2
<1> QED
    BY <1>1, <1>3, <1>4, InvariantHolds, PTL DEF Spec, RunsWhole

\* However requests, failures, layouts and Close interleave, each request is in
\* its one place until it is answered, each reply under way has a slot, and who
\* is told that nothing of its request ran may run it again (run, drain).
THEOREM JobsAreKept == Spec => []JobsKept
<1>1. IInv => JobsKept
    BY DEF IInv, JobsKept
<1> QED
    BY <1>1, InvariantHolds, PTL

\* Requests are started in the order they came and no layout changes under one
\* (admit, place, reshape).
THEOREM PlacedInOrder == Spec => PlacedInTurn
    BY OldestGoesFirst, ReshapesBetweenReplies DEF PlacedInTurn
============================================================================
