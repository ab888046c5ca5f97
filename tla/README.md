# kinfer, specified

TLA+ modules for kinfer, a local LLM server in Go: what its moving parts promise each
other, model-checked with TLC on small instances and, for the parts that hold the server
together, proved with TLAPS for every instance. `PROJECT.json` lists every run, theorem,
hazard and the source lines each definition stands for.

Run a model: `tlc -workers 2 -config MCScheduler.cfg MCScheduler.tla`; the longest takes
between two and three minutes. Check a proof: `tlapm SchedulerProofs.tla`.

## The system

One daemon serves HTTP. A request names a model; the server loads it if another is
resident, and hands the conversation to the engine. An engine owns one llama.cpp (or MLX)
context and one goroutine that runs it; requests reach it by a channel. Models are files
in a store, pulled from Hugging Face by the command line or the daemon.

```
 handlers (4 dialects) --acquire/release--> Server: the resident model, its lease, its clock
        |  Chat                                   | Open / Close
        v                                         v
  retrying (reloads a dead model)          Engine: scheduler goroutine <- incoming (channel)
                                             |        |         |
                                           flex    prefixPool  drafter  --> llama.cpp context
 kinfer pull --> download: name.part, name.part.json, name       store: directory of models
```

| component | state | operations | what is hard | what makes it correct |
| --- | --- | --- | --- | --- |
| residency: `server/server.go`, `keepalive.go`, `retry.go` | `cur`, `swapping`, per copy `refs`, `keepAlive`, the idle timer, one condition variable | acquire, release, swap, unload, close, idle callback, note of keep_alive, reload after a failure | `cond.Wait` in the middle of critical sections; a timer that fired already; one Broadcast for all | nothing is freed in use, all is freed in the end; one load at a time; one model in memory; nobody sleeps for ever; a wish of keep_alive is kept |
| scheduler: `engine/scheduler.go`, `queue.go`, `deadline.go` | `incoming`, the head held aside, slots, `stop`, `broken` | submit, take, start, step, fail, drain, close | callers that go away at any moment; a backend that dies under running, held and queued requests | every accepted request is answered once, oldest first, and told the truth about whether it ran |
| flexible layouts: `engine/flex.go` | slots of the layout, refused layouts | want, reshape | building fails after the old context is gone | rebuilt only when idle; no conversation is cut that a layout would hold |
| pictures: `engine/media.go` | as a slot's prompt | prepareMedia, startMedia | ends the context outside a batch | as the scheduler |
| prefix pool: `engine/prefix.go` | entries: tokens, shared, clock | match, publish, victim, clear | cells shared between sequences; recurrent states that cannot be cut | an entry's cells are its prompt; system prompts are not evicted by conversations |
| drafting: `engine/draft.go` | per sequence what the head has read, pending drafts | follow, propose, accept, settle, move | cells of rejected drafts; two caches kept level | the head holds what the model holds |
| download: `hub/download.go`, `disk_unix.go` | `name.part`, `name.part.json`, `name`; pieces | open and lock, prepare, connections, check, save, stream, finish | several processes, kills, power cuts, a push in the middle | a file with its name is whole; a pull has `name.part` to itself; the record is behind the file |
| embedding model: `server/embed.go`, `engine/embed.go` | its own lease, timer and loading flag; the context, one request at a time | acquire, release, idle callback, unload, passes | as residency, without a queue; texts of many lengths through one context | open exactly while held; every answer is of its own texts; an idle model goes |
| MLX engine: `mlxengine/*`, `mlxmodel/batch.go` | jobs, rows, a step in flight, checkpoints, pool | admit, step, settle, compact, solo | a step recorded before the previous one is read; quit against a buffered send | every job ends; a row's cache is its text |
| opening a model: `engine/engine.go`, `autosize.go`, `place.go`, `peers.go`, `budget.go` | handles held, the numbers chosen, readings of free memory | Open, AutoSize, SizeTotal, Place, PlaceDevices, Split, Close | eight steps that fail, a loop that measures and sizes again, unsigned memory, other programs | nothing leaks; a number the operator gave stands; what is chosen is the largest that fits |
| fitting: `engine/fit.go` | none | fitMessages, dropOrder, cutPoints | which messages may be left out, the same ones next turn | what is kept makes sense, and its beginning stays put |
| HTTP dialects: `server/server.go`, `anthropic.go`, `responses.go`, `generate.go`, `busy.go` | a stream, the block it has open | one per endpoint | errors before and after the first byte; one turn in several items | nothing said is lost; frames well formed; one end, and a true one |
| reply text: `chat/thinking.go`, `tools/stream.go`, `server/retry.go` | held-back text, what a reload carries over | Next, Flush, ChatFull | tags split over fragments, and reloads in the middle | same text as splitting the whole reply |
| templates, tools, sampling, tokenizer | none | render, parse, encode | formatting | conversions |
| store: `store/*`; hub listing: `hub/hub.go` | directories | Pick, List, Resolve, Remove, Unfinished | models of several files, half arrived, alike in name | the file meant is the file found; rm takes one model, whole |
| caches: `nativelib`, `mlxengine/libs.go`, `store/ollama.go` | directories made for itself | extract, fetch and unpack, link | two processes, or two requests of one, kills in the middle | what is loaded is a whole set |
| command line: `cmd/kinfer/*` | a daemon and its address, launchd's job and its file, a conversation | ensureDaemon, stop, install, uninstall, repl, pull, rm | two commands at once; launchd; Ctrl-C | stop stops; an installed server stays; a conversation holds whole answers |
| bindings, hardware, link, grade, `cmd/kinlab`, `cmd/probe` | none of their own | foreign calls, probes | - | - |

## Modules

| module | models | checked by | proved in |
| --- | --- | --- | --- |
| `ModelLeases` | what counting promises: a copy is freed by its last user once it is not resident, at once, and by nobody else | as the property `ImplementsLeases` of `Residency` | `ResidencyProofs` |
| `Residency` | server.go, keepalive.go, retry.go | `MCResidency`, two runs | `ResidencyProofs` |
| `Scheduler` | scheduler.go, flex.go, media.go, queue.go, deadline.go | `MCScheduler` | `SchedulerProofs` |
| `KVCache` | prefix.go, draft.go and the cache side of scheduler.go | `MCKVCache` | `KVCacheProofs` |
| `Sizing`, `Opening` | engine.go, autosize.go, place.go, peers.go, budget.go, the shapes of gguf.go; reshape of flex.go | `MCOpening` | `OpeningProofs` |
| `Conversation` | the dialects' requests into messages, fit.go | `MCConversation` | - |
| `ReplyText`, `Reply` | thinking.go, stream.go, tools.go and dsml.go as operators; the four streaming handlers, retry.go, generate.go, busy.go | `MCReply` | - |
| `Embedding` | server/embed.go, engine/embed.go, unload of keepalive.go | `MCEmbedding` | `EmbeddingProofs` |
| `MLXBatch` | qwen35.go, batch.go of mlxmodel: what caches and the batch hold, as operators | through `MLXEngine` | with `MLXEngine` |
| `MLXEngine` | engine.go, prefix.go of mlxengine | `MCMLXEngine` | `MLXEngineProofs` |
| `Download` | download.go, disk_unix.go: one file | `MCDownload` | `DownloadProofs` |
| `Store` | store.go, hub.go, pull.go: whole models; the server's lists of them | `MCStore` | - |
| `Caches` | nativelib.go, libs.go, ollama.go's links | `MCStore` | `ResidencyProofs` |
| `Daemon` | daemon.go, stop.go, launch.go, install.go, serve of main.go | `MCDaemon` | `DaemonProofs` |

`Scheduler` and `KVCache` are two views of one goroutine. `Scheduler` says which request is
where and what it is told, with interchangeable slots and no tokens; `KVCache` says what
each sequence's cells hold, with no queue and no clients. `Residency` sees an engine as a
thing that answers, breaks and is closed: its `health` goes through the same
`failing -> broken -> drained` that `Scheduler`'s `StepDies -> OnFatal -> Drain` goes through.
`MLXEngine` is the other backend behind the same interface; it has its own loop and shares
nothing with `Scheduler`.

### Residency

A critical section of `Server.mu` is one action. `cond.Wait` gives the mutex up, so a
section that waits is two actions; every Broadcast empties `asleep`. `pc[t]` is where the
goroutine of request `t` stands: `RetireBroken`, `AcquireHit`, `AcquireWait`, `AcquireSwap`,
`SwapRetired`, `OpenDone` and `OpenFailed` are the ways through `acquire`; `Submit`,
`ChatReturns`, `Reload` and `GiveUp` are `retrying.Chat`; `Unload*` is `unload`, which waits
twice: for the chat model's users, and then, having let go of it, for a swap of the embedding
model (`UnloadEmb`); `Close*` is `Server.Close`. Of the embedding model there is here what
`acquireEmbedder` shares with the rest, the condition variable and the flag of its swap
(`Embed*`); its lease is `Embedding`'s. An idle timer is `idle`; when it fires, `fired`
keeps the callback that is waiting for the mutex, which nothing can call back.

Copies' identities are reused once nothing refers to them, so that the state space is
finite; a reload budget of two is the code's own `maxReloads`.

### Scheduler

Requests are goroutines (`SubmitLooks`, `SubmitSends`: submit reads `stop` before it
sends, which is the gap a lost request falls through). The scheduler's own goroutine is
`Run`, its place in the loop `at`. `prompt` has a length, `want` the layout it runs whole
in; `fit` records how it went in. `Step` is one batch and what it ends; `StepFails` a
batch that fails and can be tried again on a cleared context, `StepDies` one that ends the
context. Clients go away (`GoesAway`) and deadlines pass (`RunsLate`) at any moment.

### KVCache

A cache is, per sequence, the text in its cells (`cells`), the text in the MTP head's
(`head`), how far the head has read (`upTo`) and whether it still follows (`tracked`). A
step is three phases - admit, compact, step - and the step builds its batch in the order
`addPrefill`, `addDrafts` do, decodes, and then accepts, settles, publishes and releases in
the code's order. What the model samples, whether a draft is accepted, how much prompt a
batch takes and when requests come are left open. `exact` is a pool of a recurrent model:
states are whole or nothing, and can only be saved at checkpoints.

### Download

One action is one system call or one step of a connection, and a kill or a power cut can
follow each. A file is a sequence of bytes, a byte the version it was served from, or a
hole. `bytes` is what the machine shows, `disk` what a power cut leaves: any subset of what
was not flushed is lost. The lock is `flock`: with the open file, gone with the process.
Time, retries and patience are a choice (`Fails`); a request's address may expire at any
byte (`Refresh`). What a request is answered with is `Served`: the version its address
names, where the server redirected to one, or what `main` is at when it is asked, where it
answered itself (`moving`). Names and renames are taken as durable in order, as a journalled file
system does; what it may reorder there is outside the model.

### MLXBatch and MLXEngine

An action is what the goroutine does between two looks at its channels: `Take`,
`SettleFirst`, `Prefill`, `SoloPass`, `Join` are one round of the admit loop, `Compact`,
`CompactSettled` and `Step` the rest of a round. `pending` is the step in flight: its tokens
are decided when it is recorded, and read at the next step, or by `Settle` before the batch
changes. Arrays are values. A key buffer is a row of columns with the padding, the stale
tail and the zeros the code leaves in it; a DeltaNet state is the text it has read. `Model`
stands for the weights: a hash of the keys a row attends to and of its state, so a column
too many, one shifted, or a state of another length gives another token. `RepliesAsAlone`
compares each reply with the one the prompt alone would have had.

Cut and growing buffers, free rows and which of the head's handles a cache still owns are
modelled as the code has them; the conv window, values and every layer but one of each sort
are written alike and left out. `if active() == 0` after the admit loop can not be reached
(the loop is only left with a row in use), so an idle engine keeps its batch, as here. A
request that enters the channel after the goroutine has returned is read by nobody; in the
server a lease keeps an engine open while a request may still submit to it, which is why
`EveryRequestEnds` is stated up to the return.

### Sizing and Opening

`Sizing` is arithmetic: memory in MiB, contexts in tokens and multiples of 256, which is
what the code rounds them to. `Opening` is `Open`, a phase for each part of it that can fail
or reads the memory: borrowing workers, placing weights, loading, sizing, making the
context, the loop that measures and sizes again (`Shrink`, `Settle`), the batch that grows
(`Grow`), the layout that is left (`Finish`), then `Reshape` and `Close`. `held` counts
handles of each sort. What the memory reads after a step is open, for other programs use it
too; `home` keeps the layout that `Reshape` returns to and its least context.

### Conversation

A client's history grows by an exchange at a time; each request is the history converted
by its dialect into messages (turns that are merged, results that stand alone, calls
without text), and started in a window (`Started`): fitted into it by `FitMessages`, or,
with a picture in it, read whole by the projector or refused (`StartMedia`). `NothingLost`
compares the messages with what was said, `KeptWell` looks at each prompt, `CutsStayPut`
at two prompts of one conversation. The order of a history is one that a client of the API
writes: a result follows its call.

### ReplyText and Reply

A reply is a sequence of symbols: letters, blanks, half characters, and the pieces that
tags are made of, so that a tag can be broken anywhere. The splitters are translated with
their held-back text, `SplitThinking` and `Parse` as what they do to a whole reply, and
`StreamShowsReply` holds the one against the other. `Reply` is a request from its handler
through `retrying.ChatFull`, `Engine.ChatFull` with its bounded channel, to the slot that
writes: the engine may die, not have started, be refused or be ended by the clock at every
point. DSML's spellings of its tags are one symbol each.

### Embedding

A critical section is one action, as in `Residency`; a lease bears the name of the request
that loaded it. Callbacks that fired wait in `fired`, two at most. `Read`, `Pass` and
`Check` are the loop over the passes of one request, which has the context to itself
(`e.mu`); each pass starts with an empty memory and its vectors are the texts it read. The
four handlers differ in what they accept and are one action each way.

### Store and Caches

A disk is a set of entries, each a model's name, the sort of file and its place in a split
model. `Wanted` is what a pull of a repository fetches, by the code that picks it; a pull
then takes one file after another in the steps `Download` has in detail, and can be
stopped or killed between any two. `List`, `Unfinished`, `Resolve` and `Removes` are
functions of the disk. `Caches` has the three directories kinfer makes for itself:
libraries written file by file, MLX's in a directory that is renamed, links to Ollama's
files stamped with the manifest they are of. Who makes them is a request in one of the
kinfers that run; what a kinfer builds links in is `tmp`, one directory for all its
requests, made, filled link by link, stamped, renamed and emptied in steps of its own. The
two modules are two systems, checked in one run from initial states of their own.

### Daemon

Processes that serve one address, by pid; launchd with its job and the file it is described
in; the commands `run`, `launch`, `stop`, `install` and `uninstall`, as many steps as they
have waits; and the conversation of `run`, whose key for Ctrl-C is a channel of one. `Crash`
and `Restart` of the machine are the two events, bounded by `MaxEvents`. A health check is
answered within its 700 ms.

## Runs

Twelve, and all hold.

| run | question | properties |
| --- | --- | --- |
| `residency_faults` | three requests, two models, unloads, failing backends, Close: is the count right, is anything freed in use, do two goroutines load, do requests that reload wait for each other | `CountedRight`, `SomeoneMoves` |
| `residency_steady` | no failures, with keep_alive: one model in memory, its clock running exactly while it is idle; an unload waits until its chat model is free; requests end, those for embeddings beside them; an idle model goes; the counting implements `ModelLeases` | `OneModelOnTheClock`, `UnloadFrees`, `EveryRequestEnds`, `IdleModelUnloads`, `ImplementsLeases` |
| `scheduler` | two requests of six kinds, cancelled, late, with failing batches, layouts that cannot be built, and Close: is each answered once and told the truth, are slots given in turn, is anything cut that a layout holds | `JobsKept`, `PlacedInTurn`, `RunsWhole`, `Settles` |
| `kvcache` | three ways a model is loaded: are cells text and entries prompts, does the head follow, do system prompts outlast conversations | `CachesAreText`, `DraftsFollow`, `SystemPromptsStay` |
| `opening` | four shapes of models on three machines, alone or with borrowed workers: does anything leak, do given numbers stand, does what is chosen fit and is it the most that fits, is all given up before too little is left, does Open end | `NothingLeaks`, `OperatorsNumbersStand`, `SizedRight`, `RoomLeft`, `Opens` |
| `conversation` | up to four requests of a conversation in each dialect, with text and pictures, in four windows: is anything said lost, does a cut keep what makes sense, does it move, are pictures read whole | `NothingLost`, `KeptWell`, `CutsStayPut` |
| `reply` | one request in four dialects, its text broken anywhere, its engine failing in every way: is what streams the reply, does it go on where it was, does it end once and truly | `StreamShowsReply`, `GoesOn`, `EndsTruly` |
| `embedding` | three requests of ten kinds for two models: open exactly while held, own vectors, answered, idle models gone | `OpenWhileHeld`, `AnswersMatch`, `Settles` |
| `mlx` | three requests, with a pool, or with drafts and failures: does a reply depend on who shares the batch, does every request end, Close failing what is left | `ServedAsAlone`, `EveryRequestEnds` |
| `download` | seven kinds of server, two pulls, kills, power cuts, pushes, removals: is a finished file whole, is what a pull counts there | `FinalWhole`, `PartHolds` |
| `store` | two pulls of three repositories and two removals, stopped, killed and resumed: is what is listed whole, is all that takes room shown, does rm take one model; or two requests of one kinfer or two that make its directories, with kills, a power cut and a newer manifest: is what is loaded a whole set | `ListedIsWhole`, `NothingForgotten`, `RemovesOne`, `GivenWhole` |
| `daemon` | a run with two questions, or a run and a launch, with a stop and two installs, uninstalls, crashes or restarts: does the conversation hold whole answers, does stop stop, does an installed server stay, does what is at rest serve | `ConversationTrue`, `StopEnds`, `InstalledStays`, `RestsServing` |

The types of `Residency` and `Scheduler` are theorems (`TypeCorrect`, and part of
`SchedulerProofs`' invariant); those of the others are part of one property each.

### Bounds, and why they are enough

* Residency: three requests are what the hardest cases need - one that uses a copy, one
  that retires it and waits, one that comes meanwhile. Two models make a swap; three copies
  let a dead one, its replacement and another be in memory together, the most that three
  requests can hold. Without failures a second copy is loaded only once the first is free.
* Scheduler: two jobs and a queue of two put one in a slot or at the head and one in the
  queue. Three home slots of 8 over 24 give the layouts 3, 2 and 1 with three lengths; the
  prompts need each of them, or none. The theorems are for any number of jobs.
* KVCache: two tokens tell a right cell from a wrong one; sequences of four hold a shared
  prefix, a turn of its own and a reply; two slots and two entries lend to each other and
  evict; three slots without a pool make compact move twice. MinMatch is 1 so that prefixes
  are worth sharing at this size.
* Opening: `Shapes` are a dense model, a hybrid mixture of experts with a head, one whose
  header says little, and one trained for less than a floor. `Asks` gives each number or
  leaves it. The machines have plenty, too little, and an amount not known; the five
  readings lie below, between and above the lines the code draws. `Wants` are the numbers
  of slots that prompts ask a flexible layout for.
* Conversation: `MaxRequests` is 4, of eight exchanges (a chat, a document, a picture,
  thinking, one and two calls with results, notes of the client in between), after six
  beginnings, of which two show a picture, one that cannot be read. The windows of 16, 24
  and 40 fit two, three or all of the turns; one of 16 has no projector.
* Reply: pieces of two symbols at most, so tokens break tags, characters and stop strings
  everywhere; a channel of three so that it is full; `MaxReloads` 2 is the code's own. Each
  set of requests in `MCReply` is one question: texts with reasoning, with calls, with
  everything that can fail.
* Embedding: three requests are one that holds, one that swaps and one that comes
  meanwhile; of three texts two fit a pass. `MaxCallbacks` is 2: one stale, one due.
* MLX: rows share columns, so two of different lengths are what padding needs, and a third
  comes while one of them leaves; three slots let a burst add a free row. With buffers that
  grow by two columns and five columns a sequence, every buffer grows, moves right and is
  cut at the left. The prompts are two turns of one conversation, so that one is read on
  from the other, and a short one. Drafts and the pool are apart: see Disagreements, 5.
* Download: pieces of two bytes, files of three: a whole piece and a part of one. Two pulls
  are the two that meet at `name.part`, after a kill the second resumes the first. A
  version of another size tells a changed length from a changed content. Two of the seven
  settings serve the file from `main` itself, pushed to meanwhile: with a sha256, and without
  so much as a length. The bounds on
  pulls, pushes, cuts and removals are per setting in `MCDownload`: each setting is one kind
  of server, and the events that matter to it.
* Store: the repositories are a model in two pieces beside one in one file and their
  projectors, one of safetensors, and one whose name differs from that by case. Two pulls,
  two removals. Caches: two requests at a time, in one kinfer or two, and three times that
  one needs a directory, always the same of the three, for they share nothing; one newer
  manifest, one power cut. The two halves of `MCStore` share nothing either. Two that
  build and a third that finds what they left is what a spoiled directory takes.
* Daemon: three pids are a daemon that goes, one that comes and launchd's; two users' runs,
  one stop. `MaxEvents` bounds installs, uninstalls, crashes and restarts to two.

Deadlock is not checked where the system may stop: requests done, the scheduler stopped,
pulls or commands over, a model closed. KVCache never stops, and is checked.

### Fairness

* Residency, Embedding: `WF` for each request's goroutine - Go's scheduler and mutex are
  fair enough for that - for the timer and its callback, and in Residency for an engine that
  failed to go on failing. A swap of the embedding model ends (`EmbedSwapped`): loading one
  is not waiting, and its users end, which `Embedding` shows.
* Scheduler: `WF` of the goroutine, and of a caller past its look at `stop`. A reply that
  writes may run late, and then it is ended: `limits.generate` bounds it. A prompt is read
  to its end: each batch takes some of the oldest (`SF` of the step that does). A request
  that waits is not assumed to run late, so its turn has to come by itself.
* MLX: `WF` of the goroutine. A reply has a budget, so nothing is assumed of when it ends.
* Opening: `WF` of `Open`, which is one goroutine that waits for nothing it does not get.
* Daemon: none, for people and launchd are not fair; `RestsServing` says of states in which
  nothing is left to do what one would want to come about. KVCache, Conversation, Reply,
  Download, Store and Caches claim nothing eventual.

## Proofs

All proofs are for every value of the constants under the `ASSUME`s of the modules, which
TLC evaluates on every run.

* `ResidencyProofs`: `IInv` is the types, `RefsCountHolders`, `OneSwapper` and `HeldByPC`
  (which places of a goroutine hold a lease, and which copy it waits for). The count alone
  is not inductive: that a release drops a reference somebody holds needs to know that a
  goroutine at that place holds one. From it: `TypeCorrect`, `RefsCounted`, `SwapperAlone`,
  `NeverFreed` and, together, `CountingIsRight`, which is what the run checks. The set of
  holders is finite because requests are; how a count changes is the library's facts on
  cardinality.
  The refinement of `ModelLeases` is there too: one lemma per kind of abstract step, then
  each action is one of them or a stutter. The link is `RefsCountHolders`: the code frees at
  a count of zero, the abstract module when the set of users is empty. And
  `NobodyWaitsInACircle` (`SomeoneMoves`): of the requests asleep on `cond`, each waits for
  a copy to drain or for the one that swaps.
  `WInv` says that who sleeps still has something to wait for (what ends it also wakes), that
  a copy waited for is not resident, so what keeps it is requests that use it, and that
  `swapping` is set by somebody; one that uses a copy waits for nobody.
* `SchedulerProofs`: `IInv` is the types, `OnePlace`, `SlotForEach`, `Stages` (what holds at
  each point of the loop: nothing runs when it idles, nothing is held after the drain, there
  is a context wherever a batch can run) and `NotStartedNeverRan`. One lemma per action.
  From it: each job is answered at most once and is in exactly one place, a caller told that
  its request did not start can run it again (`JobsAreKept`); a context is rebuilt only when
  idle, and slots go to the oldest (`PlacedInOrder`). That a layout which holds a request
  whole is the one it is placed in (`NothingCutNeedlessly`) is arithmetic over the layouts:
  fewer slots are longer (`FewerAreLonger`), every other is at least as long as home
  (`LongEnough`), and a request held back at the head asks for one that holds it
  (`AsksForWhole`), which is what the context is rebuilt to before it is placed.
* `OpeningProofs`: what is held follows from the phase alone - nothing before the weights
  and after a failure or Close, the model without a context while one is sized, both from
  then on - and that is inductive. From it `LeaksNothing`, for any models, machines and
  readings, whichever step fails.
  For the numbers, `Answers` says what sizing returns, whichever way it takes: the context
  asked for or none; the slots, and then the pool, asked for where both numbers are known;
  no longer pool than was asked for, and no borrowed one. `NumbersInv` says that the layout
  there is has the numbers that were given (`Kept`), and what placement reserved is what was
  asked for (`PlacedRight`); each way of giving something up is then shown to touch only
  what was ours to choose (`SmallerKeeps`). That a plan chosen as the widest, or as the
  longest useful one, is one of those there were needs greatest and least elements of sets
  of numbers, and sums and the devices' first layers, which are recursive functions, a
  lemma that such a function exists (`Recursion`). From it `NumbersServed`. `RoomIsLeft`
  goes on: the loop ends with too little left only where no step is open (`AllIsSpent`), and
  a division that is wanted is longer than home and holds no more (`DividedHolds`), because
  home itself is never refused.
* `ResidencyProofs` goes on with what holds under `Steady` - no backend
  fails and the server is not closed, which is where the claims are true (Disagreements, 3):
  `Healthy`, and `Single`, that what is open is resident or what the one swapper waits for.
  The countdown alone is not inductive: a wish noted for a copy that is not the one its
  request used could end a stay for ever and start no countdown, and `Single` makes the two
  the same copy. From it `OneModelOnTheClock`, and `UnloadsFree`: that an unload lets go of
  the chat model only when no copy of it is left. That is when it returns, unless a swap of
  the embedding model keeps it (Disagreements, 16).
* `EmbeddingProofs`: the count of a lease's users is not inductive either. A load gives its
  lease two references because nobody had that lease before (`Fresh`) and nothing else was
  loaded meanwhile (`Swapping`); a release drops one because its request is counted as a user
  (`Holding`). From it `OpenWhileHeld`, for any late callbacks. The answers need that a pass
  starts in a cleared context (`Results`), takes at least one and at most `EmbedSeqs` of the
  texts that follow those made (`PassIs`, over intervals and their cardinality), and reads
  each from a sequence of its own; and that the model of a lease in use keeps its name
  (`Named`). From it `OwnAnswers`. That nothing read is nothing counted opens a fold of the
  community modules by hand (`NoTokens`).
* `DaemonProofs`: `stop` reads a pid and signals it later, so its theorem needs that the pid
  is not given to another process while it is referred to, and is not launchd's when it is
  signalled (`Stopping`); an install knows that the old job is gone when it writes the new
  file (`Installing`); a conversation ends in its question as long as a reply is made, and in
  an answer otherwise (`Talking`). From it `StopEnds`, `InstalledStays`, `ConversationTrue`.
* `ResidencyProofs` ends with `Caches`, what a request loads (`DirsInv`): what it saw of a
  directory before its last look still has to be there. A library found whole stays whole
  while the request lives (`Compared`); a stamp vouches for all its links unless someone is
  removing them (`Stamps`); and what a request built beside the place is what it linked, and
  nothing that a kinfer with its pid left (`Built`), as long as it works there alone
  (`Alone`). From it `GivenWhole`, for links with the exceptions that Disagreements, 12 and
  18 state: until two requests of one kinfer build them at once, or one is killed removing
  them, which `spoiled` records.
* `DownloadProofs`: `IInv` has six parts. `Locks`: a file is locked by one pull at a time,
  and a pull between its second look and its name has the file that is `name.part`; this
  alone gives `PartStaysOurs`, for nobody renames or removes what he has not locked and
  looked at twice. `Pulling`: of each place in the code, what is cut, counted and fetched,
  that no piece is skipped (`NoneMissed`), and that what is counted is in the file. `Still`:
  a file no pull has open changes no more. `Recorded`: what the record, or one half written,
  says of an unlocked `name.part` is on the disk: `save` flushes before it writes, which is
  the order the power cut needs. `FinalSure`: a finished file is whole and on the disk. From
  it `PartHoldsCounted` and `FinalStaysWhole`, under `Kept`: without a sha256 the record is
  all there is to go by, and it is only right where nothing it says can outlive its file
  (Disagreements, 9 and 11), and where nothing is pushed or each request is answered with one
  version (Disagreements, 17): a commit alone is not enough, its address must have been
  pinned by a redirect. `ServedNow` is what that gives: a request is answered with the
  version the pull wants. `SevenAreKept` has TLC see that the seven settings of the run meet
  `Kept`. With a sha256 nothing is assumed, of the address either: `SummedIsWhole`.
* `KVCacheProofs`: that the cells are the text is not inductive by itself, so `IInv` says
  where every reply stands (`Stands`): how far its cells reach in each of its states, that
  its checkpoints ascend and are ahead, that the place it is pooled at is the place it was
  read to, that its drafts fit its budget. Beside it: no two slots name one sequence
  (`Apart`), an entry that holds something is among those the oldest is looked for in
  (`OnRecord`), and nothing waits to be harvested when a batch is made (`Quiet`). The
  lemmas are about beginnings of sequences: `UptoLonger` (a text that goes on), `UptoPiece`
  (a batch's piece joins what was read), `UptoOver` (drafts accepted in part), `CommonIs`
  (what two prompts share), `LendsIs`, `VictimIs`. From it all three properties of the run:
  `TextKept`, `HeadKept` and, as an action property, `SystemsKept`.

* `MLXEngineProofs`: that replies so far are right is not inductive, for the next token is
  written of what a request's row or cache has read. So the invariant names that text. A
  cache `Holds` one: its state is the text, and the columns up to its offset are its tokens,
  with whatever stale columns behind. A row of the batch `Reads` one: the same after its
  padding. Each operation has a lemma that says what it does to all texts at once: `trim`
  and `makeRoom` to none (`TrimIs`, `MakeRoomIs`), `Add` to the newcomer's row alone
  (`AddIs`), `Compact` gives each row a new index, `Step` adds one token to each (`StepIs`),
  `Keep` takes back exactly what was drafted and rejected (`KeepHolds`). `RowsRead` then
  says how far each reply's row is: all but the reply's last token when no step is in
  flight; with one, that token too, and the step's result is what the model writes next. It
  says so of the rows of requests, not of all rows in use: a join that failed leaves one the
  engine does not know of. `OnePlace` says that a request is queued once, being admitted, or
  in one row, and `PoolOK` that a pooled cache holds its entry's tokens. `PassIs` is drafting
  alone: whatever was drafted, the reply goes on as the model writes alone. Recursion
  (`Kept`, `ReadMarks`, `Writes`, the hash) is by functions on an interval of numbers, whose
  existence `AllNaturals` gives. From it `ReplyAsAlone`, and, from `OnePlace` and `Standing`,
  `CloseAnswersAll`: the half of `EveryRequestEnds` that is no liveness.

Only model-checked: liveness and `ENABLED` (`RestsServing`), which are beyond the prover;
`SizedRight` of Opening, whose cache estimates and reading of llama.cpp's split are folds
over the layers, and which is a claim about the run's shapes: the contexts tried are the
powers of two from 512 to 2^20 (engine/autosize.go), so that the best plan is found
(`PlanIsBest`) when the trained context is one of them, not for every shape; Conversation
(`NothingLost`, `KeptWell`, `CutsStayPut`), Reply (`StreamShowsReply`, `GoesOn`,
`EndsTruly`), Store (`ListedIsWhole`, `NothingForgotten`, `RemovesOne`). Reply and
Conversation are about what splitters and cuts do to sequences of symbols, by recursion
over the contents. Where an argument by induction on numbers is enough it is made from the
library's well-founded sets, by a least counterexample (`AllNaturals`).

## Disagreements

What the code does, met while modelling, that its comments or documents say otherwise. Where
a model reaches it, the definition that fails and the setting that shows it are named; the
runs leave that case out, and each says so where it does.

Requests:

1. A request that has looked at `stop` may send to the queue of a scheduler whose backend
   failed after its last drain; nobody reads it (engine/scheduler.go:341 and the drain in
   `run`; "Everything waiting is told so"). `Scheduler!EveryJobAnswered` as a property of
   the `scheduler` run. The lease of that request is never released.
2. An idle timer that fired and waits for the mutex unloads a model that was asked to stay
   for ever meanwhile (server/server.go:255; keepalive.go:32 "negative means keep the model
   forever"). `Residency!ForeverStays` as a property of `residency_steady`.
3. After a failure a replacement can be loaded while the dead copy is in memory
   (server/server.go:333; "only one model fits in memory"). `Residency!OneModelLoaded` with
   `MayBreak`, three requests, three copies and one path.
4. A request resumed after a reload, or one with pictures that was refused a layout, is
   sized by its text alone and may be cut although a layout holds it (engine/flex.go:222
   against 26-29). `Scheduler!RunsWhole` leaves such prompts out.
5. MLX: a request that adopts a prompt pooled with head arrays and does not draft frees
   handles the pool still has (mlxmodel/qwen35.go:714). `MLXEngine!HeadHandlesLive` with
   `MCMLXEngine!Together`. A step recorded ahead also samples with the penalties and the
   seed's draws of one token earlier than a reply written alone, and a cache that becomes an
   empty batch's leaves its head's arrays to nobody; sampling is outside the model. And a
   join that fails once the batch has taken the newcomer (batch.go:174, `mlx.Eval`) leaves
   it with rows that `rows` does not reach (mlxengine/engine.go:329 "rows[r] is the reply in
   batch row r"). The next join makes up for it; but when the requests queued behind it all
   end in their prefill, the batch is compacted first, `kept[nu] = rows[old]` is out of range
   (engine.go:468), and the process panics. `MLXEngine!CompactSettled` gets to "panicked"
   with four requests and four slots, no drafts, no pool and failures; what is claimed after
   it is that nobody got a wrong reply.
6. Two embedding models are open for a moment when keep_alive 0 drains one while another
   request loads (docs/serving.md:363). `OpenWhileHeld` allows for the one draining.
7. A stop string that arrives over several tokens may be sent in part; a tool call that
   parses as none is hidden from a stream and made by nobody; prose between two calls is not
   streamed; OpenAI's dialect sends the content of a fragment before its thinking. With a
   client that does not read and no budget, the tail of a reply may be dropped when the
   channel is full (engine.go, ChatFull); `EndsTruly` claims it of named budgets the channel
   holds.
8. engine.go:607 "choose smaller": the loop never gives up slots when -ctx was given and half
   of a slot's share is still at the floor. "An explicit flag is never overridden"
   (engine.go:566), but a given -prefix is lowered to half the slots when those are chosen.

Files:

9. A pull killed as it readies `name.part` of another version leaves the old record beside
   an empty file, and the next counts bytes that are gone (hub/download.go, prepare:
   `Truncate(0)`; "the record is never ahead of it"). `Download!RecordBehind` with
   `MCDownload!Pushed`, one connection and three pulls.
10. `rm X-BF16` also deletes the pull of an MLX model X-bf16 that is not finished; a
    projector's `name.mmproj.gguf.part` is not what Remove says it takes. A removal beside a
    running pull can leave a projector, or a directory, that no list shows whole; `Store`
    takes it that nobody pulls again what was removed under a running pull (`raced`).
11. `name.part.json` stays when a pull is killed between the rename and forget, or saves
    after a removal. If the finished file is then removed, and the next pull of it is
    killed between extending the new `name.part` and saving a record of its own, a third
    takes the old record for the new file's: where there is no sha256 to find it out, it
    names a file of holes ("takes its name only once every byte is there",
    download.go:98). `Download!FinalWhole` with `Loads <- Removed` of `MCDownload`.
    Quantisation "F16" is found in "BF16", and of split files the first is taken (hub.go,
    Pick). `kinfer rm` of the store's own directory passes the check for paths outside the
    store. `ps` names a model that was removed while loaded by its file.
12. A process that found a directory of links or libraries incomplete removes it without
    looking again, though another may have finished it (`Caches!Replacing`); a kill in the
    middle of removing links can leave some under the stamp of the current manifest. MLX's
    libraries are not flushed, and `complete` looks only whether its files are there.

Commands:

13. `stop` prints "stopped" when nobody answers /health, though serve closes its listener at
    once and `Close` waits without limit (docs/serving.md:26): the 20 s after which it kills
    are never reached by a daemon that drains, unless another one answers.
14. Two runs that start a daemon at once: the one that lost uses the other's without looking
    again at its peers ("refused rather than used", daemon.go, ensureDaemon).
15. `uninstall` prints that the server is stopped as bootout returns, before it has exited.

Found as the models came nearer to the code:

16. An unload that has let go of the chat model waits for a swap of the embedding model
    before it returns (server/keepalive.go:121), with the mutex given up and nothing that
    keeps another request from loading the model again: it answers with the model in memory
    ("An unload returns once the memory is free", keepalive.go:97; "answering once the
    memory is free", docs/serving.md:45). `Residency!UnloadReturnsFree` as a
    property of the `residency_steady` run.
17. A server that answers a file's first request itself, without a redirect, leaves the
    address of every later one at `resolve/main` (hub/download.go:878), though the commit
    is known; a push during the pull then mixes two versions in a file, and where there is
    no sha256 to find it out it gets its name ("a push to the repo during the pull cannot
    leave pieces of two versions in one file", download.go:124). `Download!OneVersion`
    with `Loads <- Moved` of `MCDownload`. With a sha256 the mixture is found out when the
    pull ends, and deleted.
18. Links to Ollama's files are built in a directory named after the pid
    (store/ollama.go:188), which two requests of one daemon share: the second empties it as
    it begins, under the first, which stamps and renames what is left; the stamped directory
    lacks links until the next manifest ("A stamp of the manifest says whether the directory
    is still its own", ollama.go:173). `Caches!StampVouches` as an invariant of the
    `store` run.

## Not modelled

* Numbers: token rates, sampling, tensors, floating point, time in seconds.
* Text: JSON, templates, the arguments of tool calls, what is printed.
* Of the command line: `run -local`, `ps`, `fit`, `worker`, `plan`, a prompt given as an
  argument, the completion of a line; of the daemon, a watcher of Ctrl-C that is not
  scheduled before its reply ends.
* Of Store: paths given outright, order by time, sizes. Removals are not cut short, and a
  repository does not change between two pulls (it does in `Download`).
* Of context sizing: the types of the cache, compact checkpoints, warming of pages.
* The lock of a download on systems other than macOS and Linux (there is none, and the
  comment says so), and a file system that reorders a rename with what it renames.
* llama.cpp and MLX, other than the memory operations the engine calls; taken to do what
  the code relies on.
* `cmd/kinlab` and `cmd/probe`, tools run by hand, and `hardware`, `link` and `grade`:
  sequential, without state that outlives a call. With the bindings (`llama`, `mlx`),
  `tokenizer` and `safetensors` they are most of the lines no definition is mapped to.

## Plan

1. Proofs: `ListedIsWhole` of Store, `EndsTruly` and `GoesOn` of Reply, and of `SizedRight`
   that a placement fits.
2. Composition: `Reply`'s engine replaced by `Scheduler`, and `Residency`'s health by it.
3. Which cache types and placements `kvcache.go` and `warm.go` add to `Opening`.
