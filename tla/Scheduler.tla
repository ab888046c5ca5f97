----------------------------- MODULE Scheduler -----------------------------
(***************************************************************************)
(* One engine's scheduler (internal/engine: scheduler.go, flex.go,         *)
(* media.go): requests enter a bounded queue, the one goroutine that owns  *)
(* the llama.cpp context takes them in order, gives each a slot - first    *)
(* rebuilding the context in fewer, longer slots when its prompt needs     *)
(* them - and answers every one exactly once, however it ends.             *)
(*                                                                         *)
(* Slots are interchangeable here: what a slot holds is `running`, and     *)
(* which cells and sequence ids it has is the matter of KVCache.  Tokens   *)
(* are not counted; a prompt has a length, and a reply ends when it ends.  *)
(***************************************************************************)
EXTENDS Naturals, Sequences, FiniteSets

CONSTANTS
    Jobs,       \* requests, each submitted by a goroutine of its own
    NoJob,      \* a nil job
    QueueCap,   \* room in `incoming`
    HomeSlots,  \* slots of the layout the engine loaded with
    HomePer,    \* tokens each of them holds
    Trained,    \* the longest conversation the model was trained for
    Pad,        \* llama.cpp pads a context to a multiple of this
    Prompts,    \* what requests bring: records [full, resume, pictures]
    MayFail,    \* decodes and context builds may fail
    MayClose    \* Engine.Close may be called

ASSUME JobsFinite == IsFiniteSet(Jobs)
ASSUME NoJobAssumption == NoJob \notin Jobs
ASSUME LayoutAssumption ==
    /\ QueueCap \in Nat \ {0}
    /\ HomeSlots \in Nat \ {0}
    /\ HomePer \in Nat \ {0} /\ Trained \in Nat \ {0} /\ Pad \in Nat \ {0}
ASSUME PromptsAssumption ==
    /\ Prompts # {}
    /\ Prompts \subseteq [full : Nat, resume : Nat, pictures : BOOLEAN]
    /\ MayFail \in BOOLEAN /\ MayClose \in BOOLEAN

VARIABLES
    \* the submitting goroutines
    pc,        \* new, checked (past submit's look at stop), waiting, answered
    prompt,    \* what the request brings
    gone,      \* requests whose context is done
    late,      \* requests past the deadline of the stage they are in
    answer,    \* what the caller was told
    finished,  \* how often job.finish ran: twice closes a closed channel
    \* shared with them
    queue,     \* the channel `incoming`
    stop,      \* Close was called
    broken,    \* Engine.Broken: onFatal ran
    \* the scheduler goroutine's own
    at,        \* where run() stands
    held,      \* the request at the head, taken off the queue and sized
    want,      \* the slot count each request runs whole in
    running,   \* requests in a slot
    writing,   \* those of them past their first token
    fit,       \* how the prompt went into its slot: whole, cut or tooLong
    nSlots,    \* slots of the present layout
    context,   \* there is a context (lctx is not 0)
    refused,   \* layouts that could not be built
    fatal      \* reading pictures ended the context; the next step says so

callers == <<pc, prompt, gone, late, answer, finished>>
layouts == <<nSlots, context, refused>>
vars == <<pc, prompt, gone, late, answer, finished, queue, stop, broken, at, held, want,
          running, writing, fit, nSlots, context, refused, fatal>>

Points == {"admit", "idle", "step", "broken", "drain", "drainQueue", "stopped"}
Answers == {"none", "ok", "busy", "cancelled", "expired", "refused", "failed",
            "interrupted", "notStarted", "closing"}

Init ==
    /\ pc = [j \in Jobs |-> "new"]
    /\ prompt \in [Jobs -> {CHOOSE p \in Prompts : TRUE}]
    /\ gone = {} /\ late = {}
    /\ answer = [j \in Jobs |-> "none"]
    /\ finished = [j \in Jobs |-> 0]
    /\ queue = <<>> /\ stop = FALSE /\ broken = FALSE
    /\ at = "admit" /\ held = NoJob
    /\ want = [j \in Jobs |-> HomeSlots]
    /\ running = {} /\ writing = {}
    /\ fit = [j \in Jobs |-> "none"]
    /\ nSlots = HomeSlots /\ context = TRUE /\ refused = {}
    /\ fatal = FALSE

----------------------------------------------------------------------------
(* Layouts (flex.go).                                                      *)

Least(a, b) == IF a <= b THEN a ELSE b

Total == HomeSlots * HomePer
Most == Least(Total, Trained)

\* The context each of n slots gets.
Per(n) == IF n = HomeSlots THEN HomePer ELSE (Least(Total \div n, Most) \div Pad) * Pad

\* newFlex: the layout may change at all.
Flexible == HomeSlots > 1 /\ Per(1) > HomePer

\* replyRoom, for a caller that names no budget smaller than this.
Room(per) == per \div 8

Holds(n, len) == len <= Per(n) - Room(Per(n))

Offers == {n \in 1 .. HomeSlots : n = HomeSlots \/ n \notin refused}

Largest(S) == CHOOSE n \in S : \A m \in S : m <= n

\* Wrong: a prompt that leaves no room for its reply is sized as whole.
WantTight(offers, len) ==
    LET whole == {n \in offers : len <= Per(n)}
    IN  Largest(IF whole # {} THEN whole
                ELSE {n \in offers : \A m \in offers : Per(m) <= Per(n)})

\* flex.want, among the layouts on offer: the most slots that hold len whole,
\* or the most among those that hold the longest conversations.
WantAmong(offers, len) ==
    LET whole == {n \in offers : Holds(n, len)}
    IN  Largest(IF whole # {} THEN whole
                ELSE {n \in offers : \A m \in offers : Per(m) <= Per(n)})

\* What a prompt takes of a slot, the reply it carries over included.
Need(j) == prompt[j].full + prompt[j].resume

\* What reshape has of it when it asks again: len(j.full), which is nil for a
\* prompt with pictures and leaves the carried reply out.
Remembered(j) == IF prompt[j].pictures THEN 0 ELSE prompt[j].full

----------------------------------------------------------------------------
(* Answering.                                                              *)

\* job.finish for each of S, told what `told` says.
Finish(S, told) ==
    /\ pc' = [j \in Jobs |-> IF j \in S THEN "answered" ELSE pc[j]]
    /\ answer' = [j \in Jobs |-> IF j \in S THEN told[j] ELSE answer[j]]
    /\ finished' = [j \in Jobs |-> IF j \in S THEN finished[j] + 1 ELSE finished[j]]

StillWanted(j) == j \notin gone /\ j \notin late
WhyNot == [j \in Jobs |-> IF j \in gone THEN "cancelled" ELSE "expired"]

----------------------------------------------------------------------------
(* The callers: submit, and what happens to a request meanwhile.           *)

\* submit's first look at stop.
SubmitLooks(j) ==
    /\ pc[j] = "new"
    /\ \E p \in Prompts : prompt' = [prompt EXCEPT ![j] = p]
    /\ IF stop THEN /\ pc' = [pc EXCEPT ![j] = "answered"]
                    /\ answer' = [answer EXCEPT ![j] = "notStarted"]
               ELSE pc' = [pc EXCEPT ![j] = "checked"] /\ UNCHANGED answer
    /\ UNCHANGED <<gone, late, finished, queue, stop, broken, at, held, want, running,
                   writing, fit, layouts, fatal>>

\* Its select: either ready case may be taken, and neither is a refusal.
SubmitSends(j) ==
    /\ pc[j] = "checked"
    /\ \/ /\ Len(queue) < QueueCap
          /\ queue' = Append(queue, j)
          /\ pc' = [pc EXCEPT ![j] = "waiting"] /\ UNCHANGED answer
       \/ /\ stop
          /\ pc' = [pc EXCEPT ![j] = "answered"]
          /\ answer' = [answer EXCEPT ![j] = "notStarted"] /\ UNCHANGED queue
       \/ /\ Len(queue) >= QueueCap /\ ~stop
          /\ pc' = [pc EXCEPT ![j] = "answered"]
          /\ answer' = [answer EXCEPT ![j] = "busy"] /\ UNCHANGED queue
    /\ UNCHANGED <<prompt, gone, late, finished, stop, broken, at, held, want, running,
                   writing, fit, layouts, fatal>>

\* The client goes away.
GoesAway(j) ==
    /\ pc[j] = "waiting" /\ j \notin gone
    /\ gone' = gone \cup {j}
    /\ UNCHANGED <<pc, prompt, late, answer, finished, queue, stop, broken, at, held, want,
                   running, writing, fit, layouts, fatal>>

\* limits.wait or limits.generate passes; nothing limits reading the prompt.
RunsLate(j) ==
    /\ pc[j] = "waiting" /\ j \notin late
    /\ j \in running => j \in writing
    /\ late' = late \cup {j}
    /\ UNCHANGED <<pc, prompt, gone, answer, finished, queue, stop, broken, at, held, want,
                   running, writing, fit, layouts, fatal>>

Close ==
    /\ MayClose /\ ~stop
    /\ stop' = TRUE
    /\ UNCHANGED <<callers, queue, broken, at, held, want, running, writing, fit, layouts,
                   fatal>>

----------------------------------------------------------------------------
(* run(): admission.                                                       *)

\* Take the oldest request off the queue and size it; prepare answers one that
\* nobody waits for or that cannot be rendered.
Receive ==
    /\ queue # <<>>
    /\ queue' = Tail(queue)
    /\ LET j == Head(queue)
       IN  \/ /\ ~StillWanted(j)
              /\ Finish({j}, WhyNot)
              /\ UNCHANGED <<held, want>>
           \/ /\ StillWanted(j)
              /\ Finish({j}, [k \in Jobs |-> "refused"])
              /\ UNCHANGED <<held, want>>
           \/ /\ StillWanted(j)
              /\ held' = j
              /\ want' = [want EXCEPT ![j] = IF Flexible THEN WantAmong(Offers, Need(j))
                                                         ELSE nSlots]
              /\ UNCHANGED <<pc, answer, finished>>
    /\ UNCHANGED <<prompt, gone, late, stop, broken, running, writing, fit, layouts, fatal>>

\* Wrong: the next request is taken while one is held.
TakeAnyway ==
    /\ at = "admit"
    /\ Receive
    /\ UNCHANGED at

Take ==
    /\ at = "admit" /\ held = NoJob
    /\ Receive
    /\ UNCHANGED at

\* Wrong: a request that was answered stays at the head.
DropHeldStays ==
    /\ at = "admit" /\ held # NoJob /\ ~StillWanted(held)
    /\ Finish({held}, WhyNot)
    /\ UNCHANGED <<prompt, gone, late, queue, stop, broken, at, held, want, running, writing,
                   fit, layouts, fatal>>

\* head: nobody waits for the held request any more.
DropHeld ==
    /\ at = "admit" /\ held # NoJob /\ ~StillWanted(held)
    /\ Finish({held}, WhyNot)
    /\ held' = NoJob
    /\ UNCHANGED <<prompt, gone, late, queue, stop, broken, at, want, running, writing, fit,
                   layouts, fatal>>

FreeSlot == Cardinality(running) < nSlots

\* layoutNeeded: something running would not run whole in more slots.
LayoutNeeded == \E j \in running : want[j] <= nSlots

\* Wrong: it does not matter whether a slot is free.
PlacedAnywhere(j) ==
    \/ ~Flexible \/ want[j] = nSlots
    \/ want[j] > nSlots /\ LayoutNeeded

\* place: what to do with the request at the head; neither of these is to wait.
PlacedNow(j) ==
    /\ FreeSlot
    /\ \/ ~Flexible \/ want[j] = nSlots
       \/ running # {} /\ want[j] > nSlots /\ LayoutNeeded

\* Wrong: the context is rebuilt under the replies that still use it.
ReshapedAlways(j) == Flexible /\ want[j] # nSlots

Reshaped(j) == Flexible /\ want[j] # nSlots /\ running = {}

\* What fitting makes of a text prompt in a slot of this length (fit.go).
Fits(j) ==
    IF Holds(nSlots, Need(j)) THEN {"whole"}
    ELSE IF Need(j) < Per(nSlots) THEN {"whole", "cut"} ELSE {"cut", "tooLong"}

\* startIn for a text prompt.
StartText(j) ==
    /\ ~prompt[j].pictures
    /\ \E f \in Fits(j) :
        /\ fit' = [fit EXCEPT ![j] = f]
        /\ IF f = "tooLong"
           THEN Finish({j}, [k \in Jobs |-> "refused"]) /\ UNCHANGED running
           ELSE running' = running \cup {j} /\ UNCHANGED <<pc, answer, finished>>
    /\ UNCHANGED <<writing, fatal>>

\* startMedia: the pictures are read on the spot, and the first token taken.
StartPictures(j) ==
    /\ prompt[j].pictures
    /\ IF ~Holds(nSlots, Need(j))
       THEN /\ fit' = [fit EXCEPT ![j] = "tooLong"]
            /\ Finish({j}, [k \in Jobs |-> "refused"])
            /\ UNCHANGED <<running, writing, fatal>>
       ELSE /\ fit' = [fit EXCEPT ![j] = "whole"]
            /\ \/ /\ running' = running \cup {j} /\ writing' = writing \cup {j}
                  /\ UNCHANGED <<pc, answer, finished, fatal>>
               \/ /\ Finish({j}, [k \in Jobs |-> "ok"])
                  /\ UNCHANGED <<running, writing, fatal>>
               \/ /\ MayFail
                  /\ Finish({j}, [k \in Jobs |-> "failed"])
                  /\ UNCHANGED <<running, writing, fatal>>
               \/ /\ MayFail
                  /\ Finish({j}, [k \in Jobs |-> "interrupted"])
                  /\ fatal' = TRUE
                  /\ UNCHANGED <<running, writing>>

Start ==
    /\ at = "admit" /\ held # NoJob /\ StillWanted(held) /\ PlacedNow(held)
    /\ StartText(held) \/ StartPictures(held)
    /\ held' = NoJob
    /\ UNCHANGED <<prompt, gone, late, queue, stop, broken, at, want, layouts>>

\* reshape: the context is freed and built as the layout the request wants, or
\* else as home, or not at all.
Reshape ==
    /\ at = "admit" /\ held # NoJob /\ StillWanted(held) /\ Reshaped(held)
    /\ \/ /\ nSlots' = want[held]
          /\ UNCHANGED <<at, want, context, refused>>
       \/ /\ MayFail /\ want[held] # HomeSlots
          /\ nSlots' = HomeSlots
          /\ refused' = refused \cup {want[held]}
          /\ want' = [want EXCEPT ![held] =
                        WantAmong(Offers \ {want[held]}, Remembered(held))]
          /\ UNCHANGED <<at, context>>
       \/ /\ MayFail
          /\ refused' = IF want[held] # HomeSlots THEN refused \cup {want[held]} ELSE refused
          /\ want' = IF want[held] # HomeSlots
                     THEN [want EXCEPT ![held] =
                             WantAmong(Offers \ {want[held]}, Remembered(held))]
                     ELSE want
          /\ context' = FALSE /\ at' = "broken"
          /\ UNCHANGED nSlots
    /\ UNCHANGED <<callers, queue, stop, broken, held, running, writing, fit, fatal>>

\* Nothing more can be placed: run on with what there is.
Admitted ==
    /\ at = "admit"
    /\ \/ held = NoJob /\ queue = <<>>
       \/ /\ held # NoJob /\ StillWanted(held)
          /\ ~PlacedNow(held) /\ ~Reshaped(held)
    /\ at' = IF running = {} /\ ~fatal THEN "idle" ELSE "step"
    /\ UNCHANGED <<callers, queue, stop, broken, held, want, running, writing, fit, layouts,
                   fatal>>

\* Nothing to do: block until a request comes.
Wake ==
    /\ at = "idle"
    /\ Receive
    /\ at' = "admit"

SeesStop ==
    /\ at \in {"idle", "step"} /\ stop
    /\ at' = "drain"
    /\ UNCHANGED <<callers, queue, stop, broken, held, want, running, writing, fit, layouts,
                   fatal>>

----------------------------------------------------------------------------
(* run(): a step.                                                          *)

Dropped == {j \in running : j \in gone \/ (j \in writing /\ j \in late)}

\* A reply past the clock is not a failure: it ends with what there is.
Verdict(j) == IF j \in gone THEN "cancelled" ELSE "ok"

\* One batch for all: prompts are read, some to their end, and some replies
\* end, well or for want of going back over rejected drafts.
Step ==
    /\ at = "step" /\ ~stop /\ ~fatal
    /\ \E read \in SUBSET ((running \ Dropped) \ writing) :
       LET now == (writing \ Dropped) \cup read
       IN  \E ended \in SUBSET now : \E failing \in SUBSET (IF MayFail THEN ended ELSE {}) :
            /\ running' = (running \ Dropped) \ ended
            /\ writing' = now \ ended
            /\ Finish(Dropped \cup ended,
                      [j \in Jobs |-> IF j \in Dropped THEN Verdict(j)
                                      ELSE IF j \in failing THEN "failed" ELSE "ok"])
    /\ at' = "admit"
    /\ UNCHANGED <<prompt, gone, late, queue, stop, broken, held, want, fit, layouts, fatal>>

\* The decode fails, for every reply in the batch; the context lives.
StepFails ==
    /\ MayFail /\ at = "step" /\ ~stop /\ ~fatal /\ running \ Dropped # {}
    /\ running' = {} /\ writing' = {}
    /\ Finish(running, [j \in Jobs |-> IF j \in Dropped THEN Verdict(j) ELSE "failed"])
    /\ at' = "admit"
    /\ UNCHANGED <<prompt, gone, late, queue, stop, broken, held, want, fit, layouts, fatal>>

\* Wrong: the engine is not marked, so nobody replaces it.
StepDiesUnmarked ==
    /\ at = "step" /\ ~stop
    /\ \/ fatal
       \/ MayFail /\ ~fatal /\ running \ Dropped # {}
    /\ running' = {} /\ writing' = {} /\ fatal' = FALSE
    /\ Finish(running, [j \in Jobs |-> IF j \in Dropped /\ ~fatal THEN Verdict(j)
                                        ELSE "interrupted"])
    /\ at' = "drain"
    /\ UNCHANGED <<prompt, gone, late, queue, stop, broken, held, want, fit, layouts>>

\* The context ends, in this step or while pictures were read before it.
StepDies ==
    /\ at = "step" /\ ~stop
    /\ \/ fatal
       \/ MayFail /\ ~fatal /\ running \ Dropped # {}
    /\ running' = {} /\ writing' = {} /\ fatal' = FALSE
    /\ Finish(running, [j \in Jobs |-> IF j \in Dropped /\ ~fatal THEN Verdict(j)
                                        ELSE "interrupted"])
    /\ at' = "broken"
    /\ UNCHANGED <<prompt, gone, late, queue, stop, broken, held, want, fit, layouts>>

OnFatal ==
    /\ at = "broken"
    /\ broken' = TRUE /\ at' = "drain"
    /\ UNCHANGED <<callers, queue, stop, held, want, running, writing, fit, layouts, fatal>>

----------------------------------------------------------------------------
(* drain, and after it nobody reads the queue.                             *)

\* Wrong: the held request is forgotten.
DrainSlotsOnly ==
    /\ at = "drain"
    /\ Finish(running, [j \in Jobs |-> "closing"])
    /\ running' = {} /\ writing' = {}
    /\ at' = "drainQueue"
    /\ UNCHANGED <<prompt, gone, late, queue, stop, broken, held, want, fit, layouts, fatal>>

\* Wrong: those cut short are told that nothing of them ran.
DrainAlike ==
    /\ at = "drain"
    /\ LET waiting == IF held = NoJob THEN {} ELSE {held}
       IN  Finish(running \cup waiting, [j \in Jobs |-> "notStarted"])
    /\ running' = {} /\ writing' = {} /\ held' = NoJob
    /\ at' = "drainQueue"
    /\ UNCHANGED <<prompt, gone, late, queue, stop, broken, want, fit, layouts, fatal>>

Drain ==
    /\ at = "drain"
    /\ LET waiting == IF held = NoJob THEN {} ELSE {held}
       IN  Finish(running \cup waiting,
                  [j \in Jobs |-> IF j \in running THEN "closing" ELSE "notStarted"])
    /\ running' = {} /\ writing' = {} /\ held' = NoJob
    /\ at' = "drainQueue"
    /\ UNCHANGED <<prompt, gone, late, queue, stop, broken, want, fit, layouts, fatal>>

DrainQueue ==
    /\ at = "drainQueue"
    /\ IF queue # <<>>
       THEN /\ Finish({Head(queue)}, [j \in Jobs |-> "notStarted"])
            /\ queue' = Tail(queue) /\ UNCHANGED at
       ELSE /\ at' = "stopped"
            /\ UNCHANGED <<pc, answer, finished, queue>>
    /\ UNCHANGED <<prompt, gone, late, stop, broken, held, want, running, writing, fit,
                   layouts, fatal>>

----------------------------------------------------------------------------
Run ==
    \/ Take \/ DropHeld \/ Start \/ Reshape \/ Admitted \/ Wake \/ SeesStop
    \/ Step \/ StepFails \/ StepDies \/ OnFatal \/ Drain \/ DrainQueue

Next ==
    \/ \E j \in Jobs : SubmitLooks(j) \/ SubmitSends(j) \/ GoesAway(j) \/ RunsLate(j)
    \/ Close \/ Run

Spec == Init /\ [][Next]_vars

(***************************************************************************)
(* The goroutine runs on; a caller past its first look at stop sends.  A   *)
(* prompt is read to its end (deadline.go: "a prompt always does"): every  *)
(* step reads some of the oldest one.  And a reply ends, at the latest     *)
(* when it runs past limits.generate.  A request that waits is not assumed *)
(* to run late, so that its turn has to come.                              *)
(***************************************************************************)
Fairness ==
    /\ WF_vars(Run)
    /\ \A j \in Jobs :
        /\ WF_vars(SubmitSends(j))
        /\ WF_vars(RunsLate(j) /\ j \in writing)
        /\ SF_vars(Step /\ (j \in writing' \/ pc'[j] = "answered"))

FairSpec == Spec /\ Fairness

----------------------------------------------------------------------------
(* Properties.                                                             *)

TypeOK ==
    /\ pc \in [Jobs -> {"new", "checked", "waiting", "answered"}]
    /\ prompt \in [Jobs -> Prompts]
    /\ gone \subseteq Jobs /\ late \subseteq Jobs
    /\ answer \in [Jobs -> Answers]
    /\ finished \in [Jobs -> {0, 1}]
    /\ queue \in Seq(Jobs)
    /\ stop \in BOOLEAN /\ broken \in BOOLEAN
    /\ at \in Points
    /\ held \in Jobs \cup {NoJob}
    /\ want \in [Jobs -> 1 .. HomeSlots]
    /\ running \subseteq Jobs /\ writing \subseteq running
    /\ fit \in [Jobs -> {"none", "whole", "cut", "tooLong"}]
    /\ nSlots \in 1 .. HomeSlots
    /\ context \in BOOLEAN /\ fatal \in BOOLEAN
    /\ refused \subseteq 1 .. HomeSlots

In(q, j) == \E i \in 1 .. Len(q) : q[i] = j
Distinct(q) == \A i, k \in 1 .. Len(q) : q[i] = q[k] => i = k

\* A request that was accepted and not answered is in exactly one place - the
\* queue, the head, a slot - and one that was answered is in none, so that no
\* job is lost, run twice or finished twice (which would close a closed
\* channel and take the process down).
OnePlace ==
    /\ \A j \in Jobs :
        /\ pc[j] = "waiting" <=> In(queue, j) \/ held = j \/ j \in running
        /\ In(queue, j) => held # j /\ j \notin running
        /\ held = j => j \notin running
    /\ Distinct(queue)

\* There is a slot, and a context, for every reply under way.
SlotForEach == Cardinality(running) <= nSlots /\ (running # {} => context)

\* A caller that is told ErrNotStarted runs its request again from the start:
\* nothing of it may have run.
NotStartedNeverRan ==
    \A j \in Jobs : answer[j] = "notStarted" => fit[j] = "none"

\* The context is never rebuilt under a reply that uses it, nor as a layout
\* that could not be built before.
ReshapesIdle ==
    [][nSlots' # nSlots =>
        /\ running = {} /\ running' = {}
        /\ nSlots' = HomeSlots \/ nSlots' \notin refused]_vars

\* Oldest first: a request gets its slot with none that came before it waiting.
OldestFirst ==
    [][\A j \in running' \ running :
        Head((IF held = NoJob THEN <<>> ELSE <<held>>) \o queue) = j]_vars

\* A conversation loses turns, or is refused as too long, only if no layout on
\* offer holds it whole (flex.go: a prompt gets "the most slots in which [it]
\* runs whole", and after a refusal "is placed again among what is left") -
\* unless it has pictures or carries a reply over, which are forgotten when its
\* layout is refused: reshape sizes it anew by its text alone.
RunsWhole ==
    [][\A j \in Jobs :
        fit[j] = "none" /\ fit'[j] \in {"cut", "tooLong"} /\ ~prompt[j].pictures /\ prompt[j].resume = 0
            => \A n \in Offers : ~Holds(n, Need(j))]_vars

\* A request is somewhere until it is answered, truly; a reply has its slot.
JobsKept == OnePlace /\ SlotForEach /\ NotStartedNeverRan

\* Requests get their slots in turn, and slots change when nobody is in one.
PlacedInTurn == OldestFirst /\ ReshapesIdle

\* Whatever a scheduler that still reads its queue has accepted is answered:
\* no request waits for slots that never drain, for a layout that never comes,
\* or at the head of a scheduler that has stopped.
AcceptedAnswered ==
    \A j \in Jobs : pc[j] = "waiting" /\ at # "stopped" ~> pc[j] = "answered"

\* A backend that cut replies short is reported, so that it is replaced.
InterruptedReported ==
    (\E j \in Jobs : answer[j] = "interrupted") ~> broken \/ stop

\* What is accepted comes to an end, and a broken backend to light.
Settles == AcceptedAnswered /\ InterruptedReported

\* Every request is answered: "Everything waiting is told so and can run again
\* on a reloaded model" (scheduler.go, run).  It is not: a request that has
\* looked at stop may send once nobody reads the queue (README, Disagreements).
EveryJobAnswered == \A j \in Jobs : pc[j] = "waiting" ~> pc[j] = "answered"
=============================================================================
