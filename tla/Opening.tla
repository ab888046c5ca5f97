----------------------------- MODULE Opening -----------------------------
(***************************************************************************)
(* Loading a model (internal/engine: engine.go's Open and Close,           *)
(* budget.go, warm.go): workers are borrowed, the weights placed and       *)
(* loaded, a context sized to what they leave, and then made, measured,    *)
(* and made again - smaller while the GPU has too little left, with larger *)
(* passes while it has plenty.  While it serves, a longer prompt has the   *)
(* context made again in fewer and longer slots (flex.go).                 *)
(*                                                                         *)
(* What the GPU has left is read, never known: other processes take of it  *)
(* and give back at any time, and a cache can cost more than its estimate. *)
(* Every reading is one of Readings.                                       *)
(***************************************************************************)
EXTENDS Sizing

CONSTANTS
    Models,    \* the shapes of models
    Options,   \* what the operator asks for
    GPUs,      \* this machine's: records [total, free, known]
    Workers,   \* what borrowed devices have free: sequences, of one a worker
    Readings,  \* of the memory left, in MiB
    Wants      \* the slots that prompts ask for, besides home's: a bound

\* What a header, the operator and the machines can say.
Shaped == [layers : Nat, nextn : Nat, interval : Nat, perLayer : Nat, state : Nat, q8 : BOOLEAN, mtp : BOOLEAN,
           draft : Nat, trained : Nat, moe : BOOLEAN, logits : Nat, activations : Nat,
           layerSizes : Seq(Nat), expertSizes : Seq(Nat), apart : Nat]
Asking == [slots : Nat, ctx : Nat, prefix : Int, batch : Nat, hostExperts : Int, moeCache : Nat, fixedLayout : BOOLEAN,
           place : BOOLEAN, peers : {"none", "named", "find"}, split : BOOLEAN, projector : BOOLEAN, draft : Int,
           template : {"own", "unknown"}]

ASSUME OpeningAssumption ==
    /\ Models \subseteq Shaped /\ \A m \in Models : Len(m.expertSizes) = Len(m.layerSizes)
    /\ Options \subseteq Asking
    /\ GPUs \subseteq [total : Nat, free : Nat, known : BOOLEAN] /\ \A g \in GPUs : g.free <= g.total
    /\ Workers \subseteq Seq(Nat) /\ Readings \subseteq Nat /\ Wants \subseteq Nat \ {0}

VARIABLES
    opts, shape, gpu,  \* what is loaded, and on what
    phase,             \* where Open is
    workers,           \* what the borrowed devices have free
    layers,            \* how many layers each device has; empty is llama.cpp's choice
    placed,            \* where the weights go, and the room kept for them
    afterModel,        \* what the weights left
    planned,           \* the sizes the arithmetic gave
    now,               \* those of the context there is: with ubatch, and the expert cache moe
    left,              \* what that context left
    held,              \* what is allocated
    home,              \* the context it was loaded with, and the least another may leave
    refused            \* the slots of layouts that could not be built

vars == <<opts, shape, gpu, phase, workers, layers, placed, afterModel, planned, now, left, held, home, refused>>
afterwards == <<home, refused>>

Resources == {"model", "projector", "context", "head"}
Nothing == [r \in Resources |-> 0]
Nowhere == [hostExperts |-> 0, firstHost |-> 0, moeCache |-> 0, host |-> 0, short |-> 0,
            slots |-> 0, tokens |-> 0, ubatch |-> 0, reserve |-> 0]
NoContext == [slots |-> 0, prefix |-> 0, perSeq |-> 0, shared |-> FALSE, ubatch |-> 0, moe |-> 0]

Init ==
    /\ opts \in Options /\ gpu \in GPUs
    /\ \E m \in Models : shape = [m EXCEPT !.draft = Drafts(m, opts.draft, TRUE)]
    /\ phase = "start" /\ workers = <<>> /\ layers = <<>> /\ placed = Nowhere
    /\ afterModel = 0 /\ planned = NoPlan /\ now = NoContext /\ left = 0 /\ held = Nothing
    /\ home = [layout |-> NoContext, least |-> 0] /\ refused = {}

Fails == phase' = "failed" /\ held' = Nothing

-----------------------------------------------------------------------------
(* The weights.                                                            *)

Room == PlaceRoom(shape, opts.slots, opts.ctx, opts.batch)
Unplaced == opts.hostExperts = 0 /\ opts.moeCache = 0 /\ opts.place

\* Workers are looked for only for a model that does not fit here.
Finding == /\ opts.peers = "find" /\ Unplaced /\ ~opts.split
           /\ gpu.known /\ WeightBytes(shape) > 0 /\ WeightBytes(shape) + Room.reserve > gpu.free
Borrowed(w) == /\ workers' = w /\ phase' = "weights"
               /\ shape' = IF w = <<>> THEN shape ELSE [shape EXCEPT !.draft = 0]
Borrow ==
    /\ phase = "start"
    /\ \/ opts.peers # "named" /\ ~Finding /\ Borrowed(<<>>)
       \* Those named must answer; those found may be lent to another by now.
       \/ opts.peers = "named" /\ \E w \in Workers : Borrowed(w)
       \/ Finding /\ \E w \in Workers \cup {<<>>} : Borrowed(w)
    /\ UNCHANGED <<opts, gpu, layers, placed, afterModel, planned, now, left, held, afterwards>>
PeersFail ==
    /\ phase = "start" /\ opts.peers = "named" /\ Fails
    /\ UNCHANGED <<opts, shape, gpu, workers, layers, placed, afterModel, planned, now, left, afterwards>>

In(placement, room) ==
    [hostExperts |-> placement.hostExperts, firstHost |-> placement.firstHost, moeCache |-> placement.moeCache,
     host |-> placement.host, short |-> placement.short,
     slots |-> room.slots, tokens |-> room.tokens, ubatch |-> room.ubatch, reserve |-> room.reserve]
PlaceFor == LET p == Place(shape, gpu.free, Room.reserve)
            IN IF p.hostExperts = 0 THEN Nowhere ELSE In(p, Room)
\* Where there are workers; none of the layers may have needed them.
PlaceAcross ==
    LET d == PlaceDevices(shape, Append(workers, gpu.free), Room.reserve, PeerReserve(shape, Room.ubatch))
    IN IF d.layers = <<>> \/ Last(d.layers) = Len(shape.layerSizes) THEN [d EXCEPT !.placement = Nowhere]
       ELSE [d EXCEPT !.placement = In(d.placement, Room)]

\* What the operator did not say is decided here; a draft is not worth reading
\* experts from host memory for, unless it was asked for.
Weights ==
    /\ phase = "weights" /\ phase' = "load"
    /\ \E where \in {CASE ~(Unplaced /\ gpu.known) ->
                            [layers |-> <<>>, placement |-> [Nowhere EXCEPT !.hostExperts = opts.hostExperts,
                                                                            !.moeCache = opts.moeCache]]
                       [] Unplaced /\ gpu.known /\ workers = <<>> -> [layers |-> <<>>, placement |-> PlaceFor]
                       [] OTHER -> IF opts.split \/ shape.layerSizes = <<>>
                                   THEN [layers |-> <<>>, placement |-> Nowhere] ELSE PlaceAcross} :
          /\ placed' = where.placement /\ layers' = where.layers
          /\ shape' = IF where.placement.hostExperts # 0 /\ opts.draft = 0 THEN [shape EXCEPT !.draft = 0] ELSE shape
    /\ UNCHANGED <<opts, gpu, workers, afterModel, planned, now, left, held, afterwards>>

\* The model is loaded, or is not; its projector too, which it can do without.
Load ==
    /\ phase = "load"
    /\ \/ /\ phase' = "size"
          /\ \E p \in 0..(IF opts.projector THEN 1 ELSE 0) :
                held' = [Nothing EXCEPT !["model"] = 1, !["projector"] = p]
          /\ afterModel' \in IF gpu.known THEN Readings ELSE {0}
       \/ Fails /\ UNCHANGED afterModel
    /\ UNCHANGED <<opts, shape, gpu, workers, layers, placed, planned, now, left, afterwards>>

-----------------------------------------------------------------------------
(* The context.                                                            *)

SlotsAuto == opts.slots = 0
CtxAuto == opts.ctx = 0
PrefixAuto == opts.prefix = 0
UbAuto == opts.batch = 0
Reserved == placed.reserve # 0

\* A model without experts has no expert cache; the cache is made with the context.
MoeCache == IF shape.moe THEN placed.moeCache ELSE 0
Left == Sub(afterModel, MoeCache)

Ctx == IF Reserved THEN Given(opts.ctx, placed.tokens) ELSE opts.ctx
SlotsWant == IF Reserved THEN placed.slots ELSE opts.slots
ByTotal == opts.slots > 0 /\ Ctx = 0 /\ ~opts.fixedLayout
Sizes == {IF ctx = 0 /\ ByTotal THEN NoPlan ELSE AutoSize(shape, Left, SlotsWant, opts.prefix, ctx) :
             ctx \in {IF ByTotal THEN SizeTotal(shape, gpu.total, Left, opts.slots) ELSE Ctx}}

Longest(p) == LET all == p.perSeq * p.slots
              IN IF opts.fixedLayout \/ p.slots = 1 THEN p.perSeq
                 ELSE IF shape.trained > 0 THEN AtMost(all, shape.trained) ELSE all
Ubatch(p) ==
    IF ~UbAuto THEN AtMost(opts.batch, MaxBatch)
    ELSE Max({AutoUbatch(Longest(p), Sub(gpu.free, Left) + p.estimated, gpu.free)}
             \cup (IF placed.hostExperts # 0 THEN {UbatchHost} ELSE {})
             \cup (IF Reserved THEN {placed.ubatch} ELSE {}))

Size ==
    /\ phase = "size"
    /\ \E p \in Sizes :
          IF p.perSeq = 0 THEN Fails /\ UNCHANGED <<planned, now>>
          ELSE /\ phase' = "context" /\ planned' = p /\ UNCHANGED held
               /\ now' = [slots |-> p.slots, prefix |-> p.prefix, perSeq |-> p.perSeq,
                          shared |-> p.shared, ubatch |-> Ubatch(p), moe |-> MoeCache]
    /\ UNCHANGED <<opts, shape, gpu, workers, layers, placed, afterModel, left, afterwards>>

\* A context, and a drafting head's beside it, which it can do without.
OpenLayout(h) == {[h EXCEPT !["context"] = @ + 1, !["head"] = @ + d] : d \in 0..(IF shape.draft > 0 THEN 1 ELSE 0)}
\* Wrong: the drafting head's context is left behind.
FreeContextOnly(h) == [h EXCEPT !["context"] = 0]
FreeLayout(h) == [h EXCEPT !["context"] = 0, !["head"] = 0]
Sample == IF gpu.known THEN Readings ELSE {0}

Create ==
    /\ phase = "context"
    /\ \/ phase' = "fit" /\ held' \in OpenLayout(held) /\ left' \in Sample
       \/ Fails /\ UNCHANGED left
    /\ UNCHANGED <<opts, shape, gpu, workers, layers, placed, afterModel, planned, now, afterwards>>

Spare == IF ByTotal THEN FitReserve ELSE ThinHeadroom
Ours == SlotsAuto \/ CtxAuto \/ PrefixAuto \/ (UbAuto /\ now.ubatch > UbatchDefault)
\* Wrong: the smaller headroom, of slots that share a total, for all.
ShortOfFit == Ours /\ gpu.known /\ left < FitReserve
Short == Ours /\ gpu.known /\ left < Spare

\* What can be given up, in the order it is: a wider pass, conversations before
\* their context, the pool's cells, the expert cache's, the pool, the context.
Step(can, to) == {layout \in {to} : can}
Steps ==
    LET tight == now.perSeq \div 2 < Floor(shape)
        pool == (tight \/ ~CtxAuto) /\ PrefixAuto /\ now.prefix > 0
        narrower == UbAuto /\ now.ubatch > UbatchDefault
        cut == CacheCut(Spare, left)
        cacheAuto == placed.hostExperts # 0 /\ opts.moeCache = 0 /\ MoeCache > 0
    IN <<Step(narrower /\ placed.hostExperts = 0, [now EXCEPT !.ubatch = LowerUbatch(@)]),
         Step(tight /\ SlotsAuto /\ now.slots > 1,
              [now EXCEPT !.slots = @ \div 2, !.prefix = PoolFor(now.slots \div 2, @)]),
         Step(pool /\ ~now.shared, [now EXCEPT !.shared = TRUE]),
         Step(pool /\ cacheAuto /\ now.moe - cut >= MoeCache \div 2, [now EXCEPT !.moe = @ - cut]),
         Step(pool, [now EXCEPT !.prefix = @ - 1]),
         Step(CtxAuto /\ now.perSeq \div 2 >= 2048, [now EXCEPT !.perSeq = @ \div 2]),
         Step(narrower, [now EXCEPT !.ubatch = LowerUbatch(@)])>>
\* The first of them that can be: a set of at most one.
Smaller ==
    LET steps == Steps
        can == {i \in DOMAIN steps : steps[i] # {}}
    IN UNION {steps[i] : i \in {k \in can : \A j \in can : k <= j}}

Shrink ==
    /\ phase = "fit" /\ Short
    /\ now' \in Smaller /\ held' = FreeLayout(held) /\ phase' = "context"
    /\ UNCHANGED <<opts, shape, gpu, workers, layers, placed, afterModel, planned, left, afterwards>>
Settle ==
    /\ phase = "fit" /\ (~Short \/ Smaller = {}) /\ phase' = "grow"
    /\ UNCHANGED <<opts, shape, gpu, workers, layers, placed, afterModel, planned, now, left, held, afterwards>>

\* With twice the headroom a pass twice as wide is tried, and kept if it leaves
\* the headroom; if not, the one before is made again.
\* Wrong: no pass is the widest.
GrowingOn == UbAuto /\ placed.hostExperts = 0 /\ workers = <<>> /\ gpu.known /\ left >= 2 * ThinHeadroom
Growing == /\ UbAuto /\ placed.hostExperts = 0 /\ workers = <<>> /\ gpu.known
           /\ now.ubatch < UbatchLarge /\ left >= 2 * ThinHeadroom
Grow ==
    /\ phase = "grow" /\ Growing
    /\ \/ /\ held' \in OpenLayout(FreeLayout(held))
          /\ left' \in {r \in Sample : r >= ThinHeadroom}
          /\ now' = [now EXCEPT !.ubatch = AtMost(2 * @, UbatchLarge)] /\ UNCHANGED phase
       \/ /\ held' \in OpenLayout(FreeLayout(held)) /\ left' \in Sample
          /\ phase' = "finish" /\ UNCHANGED now
       \/ Fails /\ UNCHANGED <<now, left>>
    /\ UNCHANGED <<opts, shape, gpu, workers, layers, placed, afterModel, planned, afterwards>>

\* A template nobody knows, or a context smaller than asked for, ends it; what
\* only Open worked with is gone.
Finish ==
    /\ (phase = "grow" /\ ~Growing) \/ phase = "finish"
    /\ \/ Fails /\ UNCHANGED <<afterModel, planned, afterwards>>
       \/ /\ opts.template # "unknown" /\ phase' = "serving"
          /\ home' = [layout |-> now, least |-> Sub(AtMost(left, ThinHeadroom), ReshapeSlack)]
          /\ afterModel' = 0 /\ planned' = NoPlan /\ UNCHANGED <<held, refused>>
    /\ UNCHANGED <<opts, shape, gpu, workers, layers, placed, now, left>>

-----------------------------------------------------------------------------
(* Serving: the context divided otherwise.                                 *)

HomeTokens == home.layout.slots * home.layout.perSeq
Most == IF shape.trained > 0 THEN AtMost(HomeTokens, shape.trained) ELSE HomeTokens
Per(n) == IF n = home.layout.slots THEN home.layout.perSeq
          ELSE (AtMost(HomeTokens \div n, Most) \div 256) * 256
LayoutOf(n) == IF n = home.layout.slots THEN home.layout
               ELSE [home.layout EXCEPT !.slots = n, !.prefix = 0, !.perSeq = Per(n), !.shared = FALSE]
Flexible == ~opts.fixedLayout /\ home.layout.slots > 1 /\ Per(1) > home.layout.perSeq

\* Some prompt wants n slots: those of more slots are shorter, or were refused.
Wanted(n) == n # now.slots /\ n \notin refused
             /\ \A m \in (n + 1)..home.layout.slots : m \in refused \/ Per(m) < Per(n)

\* The context is let go of before another is made.  One that leaves too little
\* is refused for good and home is made again; without even that the scheduler
\* stops, and the model serves no more.
Reshape ==
    /\ phase = "serving" /\ Flexible
    /\ \E n \in (1..home.layout.slots) \cap (Wants \cup {home.layout.slots}) :
          /\ Wanted(n)
          /\ \/ /\ now' = LayoutOf(n) /\ held' \in OpenLayout(FreeLayout(held))
                /\ left' \in {r \in Sample : gpu.known /\ n # home.layout.slots => r >= home.least}
                /\ UNCHANGED <<phase, refused>>
             \/ /\ n # home.layout.slots /\ refused' = refused \cup {n}
                /\ now' = home.layout /\ held' \in OpenLayout(FreeLayout(held)) /\ left' \in Sample
                /\ UNCHANGED phase
             \/ phase' = "retired" /\ held' = FreeLayout(held) /\ UNCHANGED <<now, left, refused>>
    /\ UNCHANGED <<opts, shape, gpu, workers, layers, placed, afterModel, planned, home>>

Close ==
    /\ phase \in {"serving", "retired"} /\ phase' = "closed" /\ held' = Nothing
    /\ UNCHANGED <<opts, shape, gpu, workers, layers, placed, afterModel, planned, now, left, afterwards>>

Open == Borrow \/ PeersFail \/ Weights \/ Load \/ Size \/ Create \/ Shrink \/ Settle \/ Grow \/ Finish
Next == Open \/ Reshape \/ Close
\* Open runs to its end: what it calls returns.
Spec == Init /\ [][Next]_vars /\ WF_vars(Open)

-----------------------------------------------------------------------------
(* Properties.                                                             *)

TypeOK ==
    /\ phase \in {"start", "weights", "load", "size", "context", "fit", "grow", "finish",
                  "serving", "failed", "retired", "closed"}
    /\ held \in [Resources -> Nat]
    /\ now.perSeq >= 0 /\ now.prefix >= 0 /\ now.moe >= 0
    /\ left \in Readings \cup {0} /\ afterModel \in Readings \cup {0}

\* What is allocated is there once, a context only with its model and a
\* drafting head only with a context, and an Open that fails, at whatever step,
\* or a Close leaves nothing (Open's error paths).
NothingLeaks ==
    /\ held \in [Resources -> 0..1]
    /\ held["head"] <= held["context"] /\ held["context"] <= held["model"]
    /\ phase \in {"failed", "closed"} => held = Nothing
    /\ phase = "serving" => held["context"] = 1
    /\ phase = "retired" => held["context"] = 0 /\ held["model"] = 1

\* The numbers the operator gave are the ones it is served with (engine.go:566)
\* - except a pool longer than half the slots are many, where the slots were
\* ours to choose, and slots of which not one context would fit, where the
\* layout is fixed and the context was ours.
NumbersStand ==
    phase = "serving" => LET h == home.layout IN
        /\ opts.ctx > 0 => h.perSeq = opts.ctx
        /\ opts.slots > 0 /\ (opts.ctx > 0 \/ Reserved \/ ~opts.fixedLayout) => h.slots = opts.slots
        /\ opts.prefix < 0 => h.prefix = 0
        /\ opts.prefix > 0 => h.prefix <= opts.prefix /\ ~h.shared
        /\ opts.prefix > 0 /\ opts.slots > 0 /\ (opts.ctx > 0 \/ Reserved \/ ~opts.fixedLayout)
              => h.prefix = opts.prefix
        /\ opts.batch > 0 => now.ubatch = AtMost(opts.batch, MaxBatch)
        /\ opts.moeCache > 0 /\ shape.moe => now.moe = opts.moeCache
        /\ opts.hostExperts # 0 => placed.hostExperts = opts.hostExperts
OperatorsNumbersStand == TypeOK /\ NumbersStand

\* Whatever was read, a context that leaves too little is served only when
\* every number that was ours to choose is as small as it gets - except that a
\* context whose half would do keeps its slots, and the pool too of a model
\* trained for less than the shortest context - and a pass grown wider left the
\* headroom (Open's sizing loop, and the one that tries larger passes).
Spent ==
    LET enough == now.perSeq \div 2 >= Floor(shape) IN
    /\ UbAuto => now.ubatch = UbatchDefault
    /\ PrefixAuto => now.prefix = 0 \/ (CtxAuto /\ enough)
    /\ CtxAuto => now.perSeq \div 2 < 2048
    /\ SlotsAuto => now.slots = 1 \/ enough
Roomy == phase = "grow" /\ gpu.known => left >= Spare \/ Spent

\* A context that is divided otherwise holds no more than home's conversations
\* do, gives each of them more than home did and no more than the model was
\* trained for, and leaves nearly what home did (contextBuilder).
Divided ==
    phase = "serving" /\ now # home.layout =>
        /\ now.slots * now.perSeq <= HomeTokens /\ now.slots < home.layout.slots
        /\ now.perSeq > home.layout.perSeq /\ (shape.trained > 0 => now.perSeq <= shape.trained)
        /\ gpu.known => left >= home.least

RoomLeft == Roomy /\ Divided

\* A model is placed so that it fits: what stays on each device, the room kept
\* and a cache of a third of the experts out on the host, or all of those there
\* are; no more leaves the GPU than must, peers have only what this machine
\* cannot hold, and llama.cpp's reading of the split gives the layers meant.
Mine == LET n == Len(shape.layerSizes) IN
        IF layers = <<>> THEN 1..n ELSE (n - Last(layers) + 1)..n
SizeOf(is) == FoldSet(LAMBDA i, n : n + shape.layerSizes[i], 0, is)
PlacementFits ==
    phase = "load" /\ Unplaced /\ gpu.known =>
        /\ Reserved =>
              SizeOf(Mine) + shape.apart - placed.host + placed.moeCache + placed.reserve <= gpu.free
        /\ placed.hostExperts > 0 =>
              /\ WeightBytes(shape) + placed.reserve > gpu.free
              /\ 3 * placed.moeCache >= placed.host \/ placed.hostExperts = Cardinality(Mine)
        /\ layers # <<>> =>
              /\ Total(layers) = Len(shape.layerSizes)
              /\ \A il \in 1..Len(shape.layerSizes) :
                    LET before(d) == Sum(layers, 1, d - 1)
                    IN DeviceOf(il - 1, layers) = CHOOSE d \in 1..Len(layers) : before(d) < il /\ il <= before(d) + layers[d]
              /\ (Last(layers) < Len(shape.layerSizes)) =>
                    SizeOf(1..Len(shape.layerSizes)) + shape.apart + Room.reserve > gpu.free
              /\ \A d \in 1..Len(workers) :
                    SizeOf({il \in 1..Len(shape.layerSizes) : DeviceOf(il - 1, layers) = d})
                        <= Sub(workers[d], PeerReserve(shape, Room.ubatch))

\* A plan nobody named a number of is the best there is: it fits half of what
\* is left, a context below the floor is served to one conversation only, twice
\* the context would not fit, and twice the slots would not fit at the floor.
PlanIsBest ==
    phase = "context" /\ SlotsAuto /\ CtxAuto /\ ~Reserved /\ Known(shape, Left) =>
        LET p == planned
            spendable == SpendableOf(Left)
            pool == IF PrefixAuto THEN DefaultPrefixSlots ELSE AtLeast(opts.prefix, 0)
            longer == Plan(shape, p.slots, p.prefix, 2 * p.perSeq, p.shared)
            more == Plan(shape, 2 * p.slots, PoolFor(2 * p.slots, pool), Floor(shape), FALSE)
        IN /\ p.estimated <= spendable
           /\ p.perSeq < Floor(shape) => p.slots = 1
           /\ p.perSeq = Given(shape.trained, 32768) \/ longer.estimated > spendable
           /\ p.slots < DefaultSlots => more.estimated > spendable
SizedRight == PlacementFits /\ PlanIsBest

\* Whatever is read, Open comes to an end: no two ways of making it smaller, or
\* wider, undo each other.
Opens == <>(phase \in {"serving", "failed"})

=============================================================================
