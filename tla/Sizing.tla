----------------------------- MODULE Sizing -----------------------------
(***************************************************************************)
(* Where a model's weights go and how much context it is served with       *)
(* (internal/engine: autosize.go, place.go, peers.go, experts.go;          *)
(* internal/store: gguf.go's Shape), as functions of its shape, the memory *)
(* that is free and the numbers the operator gave.                         *)
(*                                                                         *)
(* Memory is in MiB, and a context in tokens, a multiple of Block.  What a *)
(* header says is kept only as far as sizing reads it: the attention cache *)
(* as KiB for a block of tokens of one layer, a recurrent layer's state,   *)
(* and a token of a pass, in KiB.                                          *)
(***************************************************************************)
EXTENDS Integers, Sequences, FiniteSets, SequencesExt, FiniteSetsExt

Block == 256

CtxFloor == 32768
DefaultSlots == 8
DefaultContextSize == 4096
DefaultPrefixSlots == 4
ThinHeadroom == 2048
ReshapeSlack == 256
FitReserve == 1024
MinSlotCtx == 4096
UbatchDefault == 512
UbatchMedium == 1024
UbatchLarge == 2048
UbatchHost == 4096
MaxBatch == 8192
CacheSlack == 512
PlaceCacheShare == 3
MaxDraft == 8
MoeDraft == 1
DefaultDraft == 4

AtMost(a, b) == IF a < b THEN a ELSE b
AtLeast(a, b) == IF a > b THEN a ELSE b
Sub(a, b) == AtLeast(a - b, 0)
Given(n, otherwise) == IF n > 0 THEN n ELSE otherwise
\* The sum of s from place i to place j.
Sum(s, i, j) == LET sum[k \in (i - 1)..j] == IF k < i THEN 0 ELSE s[k] + sum[k - 1] IN sum[j]
Total(s) == Sum(s, 1, Len(s))
Powers == {1, 2, 4, 8, 16, 32, 64, 128, 256, 512, 1024, 2048, 4096}
Halvings(n) == {m \in {n \div d : d \in Powers} : m > 0}

-----------------------------------------------------------------------------
(* The shape of a model: [layers, nextn, interval, perLayer, state, q8,    *)
(* mtp, draft, trained, moe, logits, activations, layerSizes, expertSizes, *)
(* apart].                                                                 *)

Trunk(sh) == sh.layers - sh.nextn
AttnLayers(sh) == IF sh.interval > 1 THEN Trunk(sh) \div sh.interval ELSE Trunk(sh)

\* The attention cache of so many tokens, the drafting head's with it; 0 when
\* the header lacks the attention's geometry.
CacheBytes(sh, tokens) ==
    LET layers == AttnLayers(sh) + IF sh.draft > 0 THEN sh.nextn ELSE 0
        kib == layers * sh.perLayer
    IN IF AttnLayers(sh) = 0 THEN 0
       ELSE ((tokens \div Block) * (IF sh.q8 THEN (kib * 17) \div 32 ELSE kib)) \div 1024
RecurrentBytesPerSeq(sh) ==
    IF sh.interval <= 1 THEN 0 ELSE ((Trunk(sh) - AttnLayers(sh)) * sh.state) \div 1024
CacheBytesFor(sh, tokens, seqs) ==
    LET attn == CacheBytes(sh, tokens)
    IN IF attn = 0 THEN 0 ELSE attn + seqs * (1 + sh.draft) * RecurrentBytesPerSeq(sh)

WeightBytes(sh) == Total(sh.layerSizes) + sh.apart
Known(sh, free) == CacheBytes(sh, 1024) # 0 /\ free # 0

\* How many tokens a step drafts, asked for want.
Drafts(sh, want, can) ==
    IF want < 0 \/ ~sh.mtp \/ sh.nextn # 1 \/ ~can THEN 0
    ELSE IF want > 0 THEN AtMost(want, MaxDraft)
    ELSE IF sh.moe THEN MoeDraft ELSE DefaultDraft

-----------------------------------------------------------------------------
(* Sizing the context.                                                     *)

NoPlan == [slots |-> 0, prefix |-> 0, perSeq |-> 0, shared |-> FALSE, estimated |-> 0]
Cells(slots, prefix, shared) == IF shared THEN slots ELSE slots + prefix
Seqs(p) == p.slots + p.prefix
Plan(sh, slots, prefix, perSeq, shared) ==
    [slots |-> slots, prefix |-> prefix, perSeq |-> perSeq, shared |-> shared,
     estimated |-> CacheBytesFor(sh, perSeq * Cells(slots, prefix, shared), slots + prefix)]
Widest(plans) == CHOOSE p \in plans : \A q \in plans : Seqs(q) <= Seqs(p)

SpendableOf(free) == AtMost(free \div 2, Sub(free, ThinHeadroom))
\* Wrong: a pool even where none was wanted.
PoolAnyway(s, prefix) == AtLeast(s \div 2, 1)
PoolFor(s, prefix) == AtMost(prefix, AtLeast(s \div 2, 1))

\* The biggest context whose cache fits, a power of two.
Contexts == {256 * d : d \in Powers \ {1}}
LargestCtx(sh, spendable, cells, seqs) ==
    LET fits(ctx) == spendable > 0 /\ CacheBytesFor(sh, ctx * cells, seqs) <= spendable
    IN CHOOSE ctx \in {0} \cup Contexts :
          (ctx = 0 \/ fits(ctx)) /\ \A longer \in Contexts : longer > ctx => ~fits(longer)

\* The largest context s slots and p entries fit in, if any.
SizedPlan(sh, spendable, capCtx, s, p, shared) ==
    CHOOSE plan \in {IF ctx = 0 THEN NoPlan ELSE Plan(sh, s, p, AtMost(ctx, capCtx), shared) :
                        ctx \in {LargestCtx(sh, spendable, Cells(s, p, shared), s + p)}} : TRUE

\* An automatic pool around the conversations the operator fixed: cells of its
\* own if they fit, the slots' if only that does, or none.
PoolAround(sh, free, slots, want, perSeq) ==
    LET spendable == SpendableOf(free)
        base == CacheBytesFor(sh, perSeq * slots, slots)
        room == AtLeast(spendable, Sub(free, FitReserve)) - base
        pools(shared) == {Plan(sh, slots, p, perSeq, shared) : p \in 1..PoolFor(slots, want)}
        own == {p \in pools(FALSE) : p.estimated <= spendable}
        borrowed == {p \in pools(TRUE) : p.estimated - base <= room}
    IN CASE own # {} -> Widest(own)
         [] own = {} /\ borrowed # {} -> Widest(borrowed)
         [] OTHER -> Plan(sh, slots, 0, perSeq, FALSE)

\* A context the operator fixed: the most slots that carry it.
FixedContext(sh, free, prefix, prefixAuto, perSeq) ==
    LET spendable == SpendableOf(free)
        plans == {Plan(sh, s, PoolFor(s, prefix), perSeq, FALSE) : s \in Halvings(DefaultSlots)}
        carry == {p \in plans : p.estimated <= spendable}
        one == Plan(sh, 1, 1, perSeq, TRUE)
    IN IF carry # {} THEN Widest(carry)
       ELSE IF prefixAuto /\ prefix > 0 /\ one.estimated <= spendable THEN one
       ELSE NoPlan

\* The operator's slots, or the default: the largest context that fits them,
\* and fewer slots while it is too small to be useful.
Floor(sh) == IF sh.trained > 0 THEN AtMost(CtxFloor, sh.trained) ELSE CtxFloor
FixedSlots(sh, free, slots, prefix, prefixAuto) ==
    LET spendable == SpendableOf(free)
        capCtx == Given(sh.trained, 32768)
        sized(s, shared) == SizedPlan(sh, spendable, capCtx, s, PoolFor(s, prefix), shared)
        \* The last conversation left, or the operator's own count: a pool that
        \* borrows its cells, if that makes the context longer.
        lends(s, own) == own.perSeq < Floor(sh) /\ prefix > 0 /\ prefixAuto /\ (s = 1 \/ slots > 0)
        both == {<<s, sized(s, FALSE), sized(s, TRUE)>> : s \in Halvings(Given(slots, DefaultSlots))}
        best(s, own, lent) == IF lends(s, own) /\ lent.perSeq > own.perSeq THEN lent ELSE own
        plans == {best(b[1], b[2], b[3]) : b \in both} \ {NoPlan}
        useful(p) == p.perSeq >= Floor(sh) \/ slots > 0
    IN IF plans = {} THEN NoPlan
       ELSE CHOOSE p \in plans : \A q \in plans :
               IF useful(p) THEN useful(q) => q.slots <= p.slots ELSE ~useful(q) /\ p.slots <= q.slots

\* What the operator left at zero, derived; a negative prefix is no pool.
AutoSize(sh, free, slots, prefixAsked, perSeq) ==
    LET prefixAuto == prefixAsked = 0
        prefix == IF prefixAuto THEN DefaultPrefixSlots ELSE AtLeast(prefixAsked, 0)
    IN IF slots > 0 /\ perSeq > 0
       THEN IF prefixAuto /\ Known(sh, free) THEN PoolAround(sh, free, slots, prefix, perSeq)
            ELSE Plan(sh, slots, prefix, perSeq, FALSE)
       ELSE IF ~Known(sh, free)
       THEN [Plan(sh, Given(slots, DefaultSlots), prefix, Given(perSeq, DefaultContextSize), FALSE) EXCEPT !.estimated = 0]
       ELSE IF perSeq > 0 THEN FixedContext(sh, free, prefix, prefixAuto, perSeq)
       ELSE FixedSlots(sh, free, slots, prefix, prefixAuto)

\* The total a number of slots share, the way Ollama sizes one request's: what
\* each then has.
OllamaDefaultCtx(budget) ==
    IF budget >= 47 * 1024 THEN 262144 ELSE IF budget >= 23 * 1024 THEN 32768 ELSE 4096
SizeTotal(sh, budget, free, slots) ==
    LET trained(n, most) == IF sh.trained > 0 THEN AtMost(n, most) ELSE n
        default == trained(OllamaDefaultCtx(budget), sh.trained)
        total == trained(AtLeast(default, slots * MinSlotCtx), slots * sh.trained)
        share(t) == ((t \div slots) \div Block) * Block
        fit == {t \in Halvings(total) :
                   share(t) >= 1024 /\ CacheBytesFor(sh, share(t) * slots, slots) <= Sub(free, FitReserve)}
    IN IF ~Known(sh, free) THEN share(total) ELSE IF fit # {} THEN share(Max(fit)) ELSE 0

LowerUbatch(b) == AtLeast(b \div 2, UbatchDefault)
UbatchFits(b, predicted, available) ==
    LET within == (available * 80) \div 100
    IN \/ predicted = 0 \/ available = 0
       \/ /\ predicted <= within
          /\ b >= UbatchLarge => predicted <= (available * 60) \div 100 /\ 2048 <= within - predicted
          /\ b \in UbatchMedium..(UbatchLarge - 1) => predicted <= (available * 75) \div 100 /\ 768 <= within - predicted
AutoUbatch(longest, predicted, available) ==
    LET start == IF longest > 32768 THEN UbatchLarge ELSE IF longest > 4096 THEN UbatchMedium ELSE UbatchDefault
    IN Max({UbatchDefault} \cup {b \in Halvings(start) : b > UbatchDefault /\ UbatchFits(b, predicted, available)})

CacheCut(enough, left) == Sub(enough, left) + CacheSlack

-----------------------------------------------------------------------------
(* Placing the weights.                                                    *)

ComputeBytes(sh, ubatch) == (ubatch * (sh.logits + sh.activations)) \div 1024
PlaceReserve(sh, tokens, slots, ubatch) ==
    CacheBytesFor(sh, tokens * (slots + 1), slots + 1) + ComputeBytes(sh, ubatch) + ThinHeadroom

\* The room placement keeps: for the conversations, context and pass asked
\* for, or what sizing aims at.
PlaceRoom(sh, slots, ctx, batch) ==
    LET s == AtLeast(slots, 1)
        t == Given(ctx, Floor(sh))
        b == Given(batch, UbatchHost)
    IN [slots |-> s, tokens |-> t, ubatch |-> b, reserve |-> PlaceReserve(sh, t, s, b)]

Whole == [hostExperts |-> 0, firstHost |-> 0, moeCache |-> 0, host |-> 0, short |-> 0]

\* Wrong: what is short is freed, but no room for a cache of them.
ExpertsOutBare(sums, short) ==
    LET freed == {k \in 1..Len(sums) : sums[k] >= short}
    IN IF freed # {} THEN Min(freed) ELSE 0
\* The fewest layers whose experts, sums[k] the first k of them, free what is
\* short and a cache of a third of them; all of them when none do, and none
\* when all are not enough.
ExpertsOut(sums, short) ==
    LET freed == {k \in 1..Len(sums) : sums[k] - sums[k] \div PlaceCacheShare >= short}
    IN CASE freed # {} -> Min(freed)
         [] freed = {} /\ sums # <<>> /\ Last(sums) >= short -> Len(sums)
         [] OTHER -> 0
Out(k, first, host, short) ==
    [hostExperts |-> k, firstHost |-> first, moeCache |-> host - short, host |-> host, short |-> short]
Place(sh, free, reserve) ==
    LET need == WeightBytes(sh) + reserve
        sums == [k \in 1..Len(sh.expertSizes) |-> Sum(sh.expertSizes, 1, k)]
        out == ExpertsOut(sums, need - free)
    IN IF WeightBytes(sh) = 0 \/ free = 0 \/ need <= free \/ out = 0 THEN Whole
       ELSE Out(out, 0, sums[out], need - free)

\* What placement keeps free of a peer: a pass's activations, and the headroom.
PeerReserve(sh, ubatch) == (ubatch * sh.activations) \div 1024 + ThinHeadroom

\* Across machines: each peer in turn takes the next layers while the rest
\* would not fit here and the layer fits there; of what is still too much,
\* this machine's last layers' experts stay in host memory.
NextLayers(sh, next, here, room) ==
    LET n == Len(sh.layerSizes)
    IN Cardinality({k \in next..n : Sum(sh.layerSizes, k, n) > here /\ Sum(sh.layerSizes, next, k) <= room})
PlaceDevices(sh, free, reserve, peerReserve) ==
    LET n == Len(sh.layerSizes)
        here == Sub(Last(free), reserve + sh.apart)
        first[d \in 1..Len(free)] ==
            IF d = 1 THEN 1
            ELSE CHOOSE f \in {q + NextLayers(sh, q, here, Sub(free[d - 1], peerReserve)) : q \in {first[d - 1]}} : TRUE
        layers == [d \in 1..Len(free) |-> (IF d = Len(free) THEN n + 1 ELSE first[d + 1]) - first[d]]
        last == first[Len(free)]
        short == Sum(sh.layerSizes, last, n) - here
        sums == [k \in 1..(n - last + 1) |-> Sum(sh.expertSizes, n - k + 1, n)]
        out == ExpertsOut(sums, short)
    IN IF short <= 0 THEN [layers |-> layers, placement |-> Whole]
       ELSE IF out = 0 THEN [layers |-> <<>>, placement |-> Whole]
       ELSE [layers |-> layers, placement |-> Out(out, n - out, sums[out], short)]

\* llama.cpp puts a layer on the first device whose cumulative share exceeds
\* the layer's place among all and the output; a share is in halves of a layer.
Edges(layers) ==
    [d \in 1..Len(layers) |->
        LET took == Sum(layers, 1, d)
            taking == {e \in 1..d : layers[e] > 0}
        IN IF d = Len(layers) THEN 2 * Total(layers) + 2
           ELSE IF taking = {} THEN 0 ELSE 2 * took - 1]
DeviceOf(il, layers) == Min({d \in 1..Len(layers) : Edges(layers)[d] > 2 * il})

=============================================================================
