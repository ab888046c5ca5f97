---------------------------- MODULE Daemon ----------------------------
(***************************************************************************)
(* The commands and the server they share (cmd/kinfer: daemon.go, stop.go, *)
(* install.go, install_darwin.go, launch.go, main.go's serve and run).     *)
(* `run` and `launch` use the serve that answers on an address and start   *)
(* one if none does; `stop` ends it; `install` has launchd keep one up.    *)
(* A run then talks: it keeps the conversation, and Ctrl-C stops a reply.  *)
(*                                                                         *)
(* One address and one user's machine.  A serve is known by its pid; a pid *)
(* is used again once nobody refers to it.  launchd and the kernel (one    *)
(* listener on an address) are external.  A health check of a serve that   *)
(* listens is answered in its 700 ms: the handler takes no lock.           *)
(***************************************************************************)
EXTENDS Integers, Sequences, FiniteSets, SequencesExt

CONSTANTS
    Runs, Stops,    \* commands, each given once
    Pids,
    Lists,          \* what a daemon's -peers can be
    Calls,          \* how run and launch are called: records [peers, asked, host]
    Scripts,        \* lines each run asks at most: a launch none, one not given less
    MaxEvents,      \* installs, uninstalls, serves that die, restarts of the machine
    Nobody

ASSUME DaemonAssumption ==
    /\ Calls \subseteq [peers : Lists, asked : BOOLEAN, host : BOOLEAN] /\ Nobody \notin Lists \cup Pids
    /\ Scripts \subseteq [Runs -> Nat \cup {-1}] /\ MaxEvents \in Nat
    \* a pid for every serve at once: each run starts one, launchd another
    /\ Cardinality(Pids) > Cardinality(Runs)

VARIABLES
    state, peers,   \* of each pid: how far its serve is, and its -peers
    term,           \* pids with a SIGTERM on its way
    job,            \* launchd's job: [status, peers, pid]
    plist,          \* the job's file: the flags in it
    inst,           \* the install or uninstall under way: [pc, peers, slow]
    pc, wants,      \* of each run: where it is, and the peers of the serve it will start
    conn,           \* the serve its request is at
    msgs,           \* its conversation
    left,           \* lines it may still ask
    key,            \* a Ctrl-C waits in its channel
    cut, pressed,   \* its reply is cancelled; Ctrl-C was pressed since it began
    stops, target,  \* of each stop: where it is, and the pid it stops
    events

serves == <<state, peers, term>>
service == <<job, plist, inst>>
talk == <<conn, msgs, left, key, cut, pressed>>
runs == <<pc, wants, talk>>
stopping == <<stops, target>>
vars == <<serves, service, runs, stopping, events>>

NoJob == [status |-> "absent", peers |-> Nobody, pid |-> Nobody]

Init ==
    /\ state = [p \in Pids |-> "absent"] /\ peers = [p \in Pids |-> Nobody] /\ term = {}
    /\ job = NoJob /\ plist = Nobody /\ inst = [pc |-> "idle", peers |-> Nobody, slow |-> FALSE]
    /\ left \in Scripts /\ pc = [r \in Runs |-> IF left[r] < 0 THEN "over" ELSE "idle"] /\ wants = [r \in Runs |-> Nobody]
    /\ conn = [r \in Runs |-> Nobody] /\ msgs = [r \in Runs |-> <<>>]
    /\ key = [r \in Runs |-> FALSE]
    /\ cut = [r \in Runs |-> FALSE] /\ pressed = [r \in Runs |-> FALSE]
    /\ stops = [s \in Stops |-> "idle"] /\ target = [s \in Stops |-> Nobody]
    /\ events = 0

Listening == {p \in Pids : state[p] = "serving"}   \* one at most
Alive == Listening # {}                            \* what daemonAlive says

-----------------------------------------------------------------------------
(* serve.                                                                  *)

Free == {p \in Pids : state[p] = "absent"} \ ({target[s] : s \in Stops} \cup {conn[r] : r \in Runs})
NextPid == CHOOSE p \in Free : TRUE
New(p, list) == state' = [state EXCEPT ![p] = "starting"] /\ peers' = [peers EXCEPT ![p] = list] /\ term' = term \ {p}
Exits(p) == state' = [state EXCEPT ![p] = "absent"] /\ peers' = [peers EXCEPT ![p] = Nobody] /\ term' = term \ {p}
\* launchd notes the end of its job's process.
JobWithout(p) == IF job.pid = p THEN [job EXCEPT !.pid = Nobody] ELSE job

\* The address is its own, or another's and it returns the error.
Bind(p) ==
    /\ state[p] = "starting" /\ ~Alive
    /\ state' = [state EXCEPT ![p] = "serving"]
    /\ UNCHANGED <<peers, term, service, runs, stopping, events>>
\* Wrong: an address in use said, and the command waiting for its signal.
BindWaits(p) == state[p] = "starting" /\ Alive /\ UNCHANGED vars
BindFails(p) ==
    /\ state[p] = "starting" /\ Alive /\ Exits(p) /\ job' = JobWithout(p)
    /\ UNCHANGED <<plist, inst, runs, stopping, events>>

\* SIGTERM: the listener closes at once; the replies under way go on.
Shutdown(p) ==
    /\ p \in term
    /\ IF state[p] = "serving"
       THEN state' = [state EXCEPT ![p] = "draining"] /\ term' = term \ {p} /\ UNCHANGED <<peers, job>>
       ELSE state[p] = "starting" /\ Exits(p) /\ job' = JobWithout(p)
    /\ UNCHANGED <<plist, inst, runs, stopping, events>>
\* Closing the server waits for whoever holds the model, however long that
\* takes; a request that does not have it yet goes down with the process.
Close(p) ==
    /\ state[p] = "draining" /\ \A r \in Runs : conn[r] = p => pc[r] # "reading"
    /\ Exits(p) /\ job' = JobWithout(p)
    /\ UNCHANGED <<plist, inst, runs, stopping, events>>

Crash(p) ==
    /\ events < MaxEvents /\ state[p] # "absent" /\ events' = events + 1
    /\ Exits(p) /\ job' = JobWithout(p)
    /\ UNCHANGED <<plist, inst, runs, stopping>>

-----------------------------------------------------------------------------
(* launchd, and install and uninstall, one at a time.                      *)

\* RunAtLoad and KeepAlive: the job's process is started, and again however it ended.
LaunchdStarts ==
    /\ job.status = "loaded" /\ job.pid = Nobody /\ Free # {}
    /\ New(NextPid, job.peers) /\ job' = [job EXCEPT !.pid = NextPid]
    /\ UNCHANGED <<plist, inst, runs, stopping, events>>
\* A job booted out is gone once its process is, which launchd kills in time.
LaunchdForgets ==
    /\ job.status = "leaving" /\ job.pid = Nobody /\ job' = NoJob
    /\ UNCHANGED <<serves, plist, inst, runs, stopping, events>>
LaunchdKills ==
    /\ job.status = "leaving" /\ job.pid # Nobody /\ Exits(job.pid) /\ job' = [job EXCEPT !.pid = Nobody]
    /\ UNCHANGED <<plist, inst, runs, stopping, events>>

Bootout ==
    IF job.status = "loaded"
    THEN job' = [job EXCEPT !.status = "leaving"] /\ term' = term \cup ({job.pid} \ {Nobody})
    ELSE UNCHANGED <<job, term>>
At(where) == inst' = [inst EXCEPT !.pc = where]
Quiet == inst.pc \in {"idle", "installed", "failed"}

Install(list) ==
    /\ Quiet /\ events < MaxEvents /\ events' = events + 1
    /\ Bootout /\ inst' = [pc |-> "waiting", peers |-> list, slow |-> FALSE]
    /\ UNCHANGED <<state, peers, plist, runs, stopping>>
\* The old job is waited for: 30 s, then the install fails.
\* Wrong: the new job loaded while the old one is going.
NotWaited == inst.pc = "waiting" /\ At("write") /\ UNCHANGED <<serves, job, plist, runs, stopping, events>>
WaitUntilUnloaded ==
    /\ inst.pc = "waiting"
    /\ IF job.status = "absent" THEN At("write") ELSE inst' = [inst EXCEPT !.pc = "failed", !.slow = TRUE]
    /\ UNCHANGED <<serves, job, plist, runs, stopping, events>>
\* Wrong: the file of the job before left as it is.
WritePlistOnce ==
    /\ inst.pc = "write" /\ plist' = (IF plist = Nobody THEN inst.peers ELSE plist) /\ At("bootstrap")
    /\ UNCHANGED <<serves, job, runs, stopping, events>>
WritePlist ==
    /\ inst.pc = "write" /\ plist' = inst.peers /\ At("bootstrap")
    /\ UNCHANGED <<serves, job, runs, stopping, events>>
Bootstrap ==
    /\ inst.pc = "bootstrap"
    /\ IF job.status = "absent"
       THEN job' = [status |-> "loaded", peers |-> plist, pid |-> Nobody] /\ At("installed")
       ELSE At("failed") /\ UNCHANGED job
    /\ UNCHANGED <<serves, plist, runs, stopping, events>>

Uninstall ==
    /\ Quiet /\ events < MaxEvents /\ events' = events + 1
    /\ IF plist = Nobody THEN At("idle") /\ UNCHANGED <<job, term>>
       ELSE Bootout /\ inst' = [pc |-> "remove", peers |-> Nobody, slow |-> FALSE]
    /\ UNCHANGED <<state, peers, plist, runs, stopping>>
RemovePlist ==
    /\ inst.pc = "remove" /\ plist' = Nobody /\ At("idle")
    /\ UNCHANGED <<serves, job, runs, stopping, events>>

-----------------------------------------------------------------------------
(* run and launch: the serve that answers, or one of their own.            *)

Goes(r, where) == pc' = [pc EXCEPT ![r] = where]

\* launch, which asks nothing itself, leaves the talking to its agent.
Found(r) == Goes(r, IF left[r] = 0 THEN "over" ELSE "prompt")

\* launch's -host names one that must answer; a daemon that borrows other peers
\* than those asked for is refused.
Call(r, a) ==
    /\ pc[r] = "idle" /\ (a.host => left[r] = 0)
    /\ wants' = [wants EXCEPT ![r] = IF Alive \/ a.host THEN Nobody ELSE a.peers]
    /\ CASE ~Alive -> Goes(r, IF a.host THEN "over" ELSE "start")
         [] Alive /\ a.asked /\ ~a.host /\ \E p \in Listening : peers[p] # a.peers -> Goes(r, "over")
         [] OTHER -> Found(r)
    /\ UNCHANGED <<serves, service, talk, stopping, events>>
Start(r) ==
    /\ pc[r] = "start" /\ wants' = [wants EXCEPT ![r] = Nobody]
    /\ \/ Goes(r, "polling") /\ Free # {} /\ New(NextPid, wants[r])
       \/ Goes(r, "over") /\ UNCHANGED serves
    /\ UNCHANGED <<service, talk, stopping, events>>
\* Whichever serve answers is used; none in 20 s is an error.
Poll(r) ==
    /\ pc[r] = "polling" /\ IF Alive THEN Found(r) ELSE Goes(r, "over")
    /\ UNCHANGED <<serves, service, wants, talk, stopping, events>>

-----------------------------------------------------------------------------
(* The conversation of a run.                                              *)

User(n) == [role |-> "user", line |-> n, whole |-> TRUE]
Assistant(n, whole) == [role |-> "assistant", line |-> n, whole |-> whole]

\* A line typed.  A Ctrl-C from before the reply is let go.
AskWith(r, kept) ==
    /\ pc[r] = "prompt" /\ left[r] > 0 /\ Goes(r, "sending")
    /\ left' = [left EXCEPT ![r] = @ - 1] /\ msgs' = [msgs EXCEPT ![r] = Append(@, User(left[r] - 1))]
    /\ key' = [key EXCEPT ![r] = kept]
    /\ UNCHANGED <<serves, service, wants, conn, cut, pressed, stopping, events>>
\* Wrong: the channel not emptied.
AskKept(r) == AskWith(r, key[r])
Ask(r) == AskWith(r, FALSE)
Clear(r) ==
    /\ pc[r] = "prompt" /\ msgs' = [msgs EXCEPT ![r] = <<>>]
    /\ UNCHANGED <<serves, service, pc, wants, conn, left, key, cut, pressed, stopping, events>>
Leave(r) ==
    /\ pc[r] = "prompt" /\ Goes(r, "over")
    /\ msgs' = [msgs EXCEPT ![r] = <<>>] /\ left' = [left EXCEPT ![r] = 0] /\ key' = [key EXCEPT ![r] = FALSE]
    /\ UNCHANGED <<serves, service, wants, conn, cut, pressed, stopping, events>>

\* The end of streamChat, without an error or with one, of a reply that was
\* whole or not: one that failed is dropped with its question.
Returns(r, ok, whole) ==
    /\ msgs' = [msgs EXCEPT ![r] = IF ok THEN Append(@, Assistant(left[r], whole)) ELSE SubSeq(@, 1, Len(@) - 1)]
    /\ Goes(r, "prompt") /\ conn' = [conn EXCEPT ![r] = Nobody] /\ cut' = [cut EXCEPT ![r] = FALSE] /\ pressed' = [pressed EXCEPT ![r] = FALSE]
    /\ UNCHANGED <<serves, service, wants, left, key, stopping, events>>

Post(r) ==
    /\ pc[r] = "sending" /\ ~cut[r]
    /\ IF Alive
       THEN /\ \E p \in Listening : conn' = [conn EXCEPT ![r] = p]
            /\ Goes(r, "posted")
            /\ UNCHANGED <<serves, service, wants, msgs, left, key, cut, pressed, stopping, events>>
       ELSE Returns(r, FALSE, FALSE)
\* The serve gives the request its model.
Begins(r) ==
    /\ pc[r] = "posted" /\ state[conn[r]] # "absent" /\ Goes(r, "reading")
    /\ UNCHANGED <<serves, service, wants, talk, stopping, events>>
Done(r) == pc[r] = "reading" /\ state[conn[r]] # "absent" /\ Returns(r, TRUE, TRUE)
\* A status that is not 200, or a frame that says an error.
Refused(r) == pc[r] \in {"posted", "reading"} /\ state[conn[r]] # "absent" /\ Returns(r, FALSE, FALSE)
\* The connection breaks: not the end of a reply, though the body ends.
\* Wrong: taken for its end.
BrokenEnds(r) == pc[r] \in {"posted", "reading"} /\ state[conn[r]] = "absent" /\ Returns(r, pc[r] = "reading", FALSE)
Broken(r) == pc[r] \in {"posted", "reading"} /\ state[conn[r]] = "absent" /\ Returns(r, FALSE, FALSE)
Cancelled(r) == pc[r] \in {"sending", "posted", "reading"} /\ cut[r] /\ Returns(r, FALSE, FALSE)

\* At the prompt too, where a reply asked for later would find it; the first is
\* enough to stop one.
CtrlC(r) ==
    /\ pc[r] \in {"prompt", "sending", "posted", "reading"} /\ ~cut[r] /\ (pc[r] = "prompt" => left[r] > 0)
    /\ key' = [key EXCEPT ![r] = TRUE] /\ pressed' = [pressed EXCEPT ![r] = pc[r] # "prompt"]
    /\ UNCHANGED <<serves, service, pc, wants, conn, msgs, left, cut, stopping, events>>
Stopped(r) ==
    /\ pc[r] \in {"sending", "posted", "reading"} /\ key[r]
    /\ key' = [key EXCEPT ![r] = FALSE] /\ cut' = [cut EXCEPT ![r] = TRUE]
    /\ UNCHANGED <<serves, service, pc, wants, conn, msgs, left, pressed, stopping, events>>

-----------------------------------------------------------------------------
(* stop.                                                                   *)

StopAt(s, where, p) == stops' = [stops EXCEPT ![s] = where] /\ target' = [target EXCEPT ![s] = p]

\* The pid is asked of whoever listens.
Find(s) ==
    /\ stops[s] = "idle"
    /\ IF Alive THEN \E p \in Listening : StopAt(s, "found", p) ELSE StopAt(s, "over", Nobody)
    /\ UNCHANGED <<serves, service, runs, events>>
\* Wrong: the installed service is stopped as any other.
SignalAny(s) ==
    /\ stops[s] = "found"
    /\ IF state[target[s]] = "absent" THEN StopAt(s, "over", Nobody) /\ UNCHANGED term
       ELSE term' = term \cup {target[s]} /\ StopAt(s, "polling", target[s])
    /\ UNCHANGED <<state, peers, service, runs, events>>
\* The installed service is left to uninstall.
Signal(s) ==
    /\ stops[s] = "found"
    /\ IF target[s] = job.pid \/ state[target[s]] = "absent" THEN StopAt(s, "over", Nobody) /\ UNCHANGED term
       ELSE term' = term \cup {target[s]} /\ StopAt(s, "polling", target[s])
    /\ UNCHANGED <<state, peers, service, runs, events>>
\* Wrong: not waited for.
PollOnce(s) ==
    /\ stops[s] = "polling" /\ StopAt(s, "over", Nobody)
    /\ UNCHANGED <<serves, service, runs, events>>
\* It has stopped when nobody answers.
PollStop(s) ==
    /\ stops[s] = "polling" /\ ~Alive /\ StopAt(s, "over", Nobody)
    /\ UNCHANGED <<serves, service, runs, events>>
\* Somebody still answers after 20 s, the serve asked or one started since.
Kill(s) ==
    /\ stops[s] = "polling" /\ Alive /\ StopAt(s, "over", Nobody)
    /\ Exits(target[s]) /\ job' = JobWithout(target[s])
    /\ UNCHANGED <<plist, inst, runs, events>>

-----------------------------------------------------------------------------

\* The machine restarts, and the user logs in: of all this the job is left,
\* as its file says it.
Restart ==
    /\ events < MaxEvents /\ events' = events + 1
    /\ state' = [p \in Pids |-> "absent"] /\ peers' = [p \in Pids |-> Nobody] /\ term' = {}
    /\ job' = IF plist = Nobody THEN NoJob ELSE [status |-> "loaded", peers |-> plist, pid |-> Nobody]
    /\ inst' = IF Quiet THEN inst ELSE [inst EXCEPT !.pc = "idle"]
    /\ pc' = [r \in Runs |-> "over"] /\ wants' = [r \in Runs |-> Nobody] /\ conn' = [r \in Runs |-> Nobody]
    /\ key' = [r \in Runs |-> FALSE]
    /\ cut' = [r \in Runs |-> FALSE] /\ pressed' = [r \in Runs |-> FALSE]
    /\ stops' = [s \in Stops |-> "over"] /\ target' = [s \in Stops |-> Nobody]
    /\ msgs' = [r \in Runs |-> <<>>] /\ left' = [r \in Runs |-> 0]
    /\ UNCHANGED <<plist>>

OfServe(p) == Bind(p) \/ BindFails(p) \/ Shutdown(p) \/ Close(p)
OfLaunchd == LaunchdStarts \/ LaunchdForgets \/ LaunchdKills
OfInstall == WaitUntilUnloaded \/ WritePlist \/ Bootstrap \/ RemovePlist
OfReply(r) == Post(r) \/ Begins(r) \/ Done(r) \/ Refused(r) \/ Broken(r) \/ Cancelled(r)
OfRun(r) == Start(r) \/ Poll(r) \/ OfReply(r)
OfStop(s) == Signal(s) \/ PollStop(s) \/ Kill(s)

Next ==
    \/ \E p \in Pids : OfServe(p) \/ Crash(p)
    \/ OfLaunchd \/ OfInstall \/ Uninstall \/ Restart
    \/ \E list \in Lists : Install(list)
    \/ \E r \in Runs : \/ OfRun(r) \/ Ask(r) \/ Clear(r) \/ Leave(r)
                       \/ CtrlC(r) \/ Stopped(r)
                       \/ \E a \in Calls : Call(r, a)
    \/ \E s \in Stops : Find(s) \/ OfStop(s)

Spec == Init /\ [][Next]_vars

\* What goes on with no command given: processes are scheduled, launchd does its
\* work, the commands under way and the replies go on.
GoesOn ==
    \/ OfLaunchd \/ OfInstall
    \/ \E p \in Pids : OfServe(p)
    \/ \E r \in Runs : OfRun(r)
    \/ \E s \in Stops : OfStop(s)

-----------------------------------------------------------------------------
(* Properties.                                                             *)

TypeOK ==
    /\ state \in [Pids -> {"absent", "starting", "serving", "draining"}] /\ peers \in [Pids -> Lists \cup {Nobody}]
    /\ term \subseteq {p \in Pids : state[p] # "absent"}
    /\ job \in [status : {"absent", "loaded", "leaving"}, peers : Lists \cup {Nobody}, pid : Pids \cup {Nobody}]
    /\ plist \in Lists \cup {Nobody} /\ conn \in [Runs -> Pids \cup {Nobody}]
    /\ Cardinality(Listening) <= 1

\* What a run resends is true: questions and their replies in turn, each reply
\* the whole answer to the question before it, whatever failed, broke off or
\* was stopped between (repl, daemon.go).
HistoryTrue ==
    /\ TypeOK
    /\ \A r \in Runs : LET ms == msgs[r] IN
          /\ \A i \in DOMAIN ms : ms[i].whole /\ ms[i].role = (IF i % 2 = 1 THEN "user" ELSE "assistant")
          /\ \A i \in DOMAIN ms : i % 2 = 0 => ms[i].line = ms[i - 1].line
          /\ pc[r] = "prompt" => Len(ms) % 2 = 0

\* A reply is stopped only by a Ctrl-C pressed while it was made, never by one
\* from before it (repl's select before the reply, daemon.go).
StoppedByItsKey == \A r \in Runs : cut[r] => pressed[r]

\* What a person asked and was told is what the conversation says.
ConversationTrue == HistoryTrue /\ StoppedByItsKey

\* An install that says so leaves a job with its flags, now and after a restart
\* of the machine, until the next command; one that fails has waited its time.
InstalledStays ==
    /\ inst.pc = "installed" => job.status = "loaded" /\ job.peers = inst.peers /\ plist = inst.peers
    /\ inst.pc = "failed" => inst.slow

\* stop ends the serve it asked, and no other: what it reports stopped or killed
\* takes no more requests, and is never the one launchd keeps.
StopEnds ==
    [][\A s \in Stops :
          /\ stops[s] = "polling" /\ stops'[s] = "over" => state'[target[s]] # "serving"
          /\ stops'[s] = "polling" => job.pid # target'[s] \/ job.status = "leaving"]_vars

\* The installed server comes back - after a crash, a kill, a restart, or an
\* address that was in use - and a serve that lost the race for the address, or
\* was told to stop, goes: where nothing goes on by itself, a loaded job means
\* that someone serves, and every process there is serves.
RestsServing ==
    ~(ENABLED <<GoesOn>>_vars) => /\ job.status = "loaded" => Alive
                         /\ job.status # "leaving"
                         /\ \A p \in Pids : state[p] \in {"serving", "absent"}
=============================================================================
