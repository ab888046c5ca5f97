---------------------------- MODULE DaemonProofs ----------------------------
(***************************************************************************)
(* What Daemon promises people, for any number of commands, processes,     *)
(* flags, lines and events: stop ends what it asked and leaves launchd's   *)
(* server alone, an installed server is the one asked for, a conversation  *)
(* holds whole answers to its questions.                                   *)
(*                                                                         *)
(* None of the three is inductive.  stop reads a pid and signals it later: *)
(* that launchd's next process cannot have that pid needs the pid to be    *)
(* still referred to (Stopping).  An install knows that the old job is     *)
(* gone by the time it loads the new one (Installing).  A reply ends only  *)
(* in a conversation whose last line is its question (Talking).            *)
(***************************************************************************)
EXTENDS Daemon, FiniteSetTheorems, SequenceTheorems, TLAPS

Replying == {"sending", "posted", "reading"}
Spoken == [role : {"user", "assistant"}, line : Int, whole : BOOLEAN]

Serves ==
    /\ state \in [Pids -> {"absent", "starting", "serving", "draining"}]
    /\ peers \in [Pids -> Lists \cup {Nobody}]
    /\ term \subseteq {p \in Pids : state[p] # "absent"}
    /\ \A p \in Listening, q \in Listening : p = q

Jobs ==
    /\ job \in [status : {"absent", "loaded", "leaving"}, peers : Lists \cup {Nobody}, pid : Pids \cup {Nobody}]
    /\ job.pid # Nobody => state[job.pid] # "absent"
    /\ job.status = "absent" => job.pid = Nobody

Installing ==
    /\ inst \in [pc : {"idle", "waiting", "write", "bootstrap", "installed", "failed", "remove"},
                 peers : Lists \cup {Nobody}, slow : BOOLEAN]
    /\ plist \in Lists \cup {Nobody}
    /\ inst.pc \in {"waiting", "write", "bootstrap", "installed"} => inst.peers \in Lists
    /\ inst.pc \in {"write", "bootstrap"} => job.status = "absent"
    /\ inst.pc \in {"bootstrap", "installed"} => plist = inst.peers
    /\ inst.pc = "installed" => job.status = "loaded" /\ job.peers = inst.peers
    /\ inst.pc = "failed" => inst.slow

Stopping ==
    /\ stops \in [Stops -> {"idle", "found", "polling", "over"}]
    /\ target \in [Stops -> Pids \cup {Nobody}]
    /\ \A s \in Stops : stops[s] \in {"found", "polling"} => target[s] \in Pids
    /\ \A s \in Stops : stops[s] = "polling" => job.status # "loaded" \/ job.pid # target[s]

Commands ==
    /\ pc \in [Runs -> Replying \cup {"idle", "start", "polling", "prompt", "over"}]
    /\ wants \in [Runs -> Lists \cup {Nobody}]
    /\ conn \in [Runs -> Pids \cup {Nobody}]
    /\ left \in [Runs -> Int]
    /\ key \in [Runs -> BOOLEAN] /\ cut \in [Runs -> BOOLEAN] /\ pressed \in [Runs -> BOOLEAN]
    /\ msgs \in [Runs -> Seq(Spoken)]

\* Questions and whole answers to them in turn.
InTurn(ms) ==
    \A i \in 1..Len(ms) :
        /\ ms[i].whole
        /\ ms[i].role = (IF i % 2 = 1 THEN "user" ELSE "assistant")
        /\ i % 2 = 0 => ms[i].line = ms[i - 1].line

Talking ==
    \A r \in Runs :
        /\ InTurn(msgs[r])
        /\ pc[r] \notin Replying => Len(msgs[r]) % 2 = 0
        /\ pc[r] \in Replying => Len(msgs[r]) % 2 = 1 /\ msgs[r][Len(msgs[r])].line = left[r]
        /\ pc[r] \in Replying /\ key[r] => pressed[r]
        /\ cut[r] => pressed[r]

Machine == Serves /\ Jobs /\ Installing /\ Stopping
IInv == Machine /\ Commands /\ Talking

-----------------------------------------------------------------------------
(* Processes.                                                              *)

\* A pid that is free is nobody's.
LEMMA NextPidIsFree ==
    ASSUME Free # {}
    PROVE  NextPid \in Free
  BY DEF NextPid

\* A process that ends is the job's no more.
LEMMA ExitStep ==
    ASSUME Machine, NEW p \in Pids, Exits(p), job' = JobWithout(p),
           UNCHANGED <<plist, inst>>,
           UNCHANGED stopping \/ \E s \in Stops : StopAt(s, "over", Nobody)
    PROVE  Machine' /\ state'[p] = "absent"
  <1>1. Serves' /\ state'[p] = "absent"
    BY DEF Machine, Serves, Exits, Listening
  <1>2. Jobs'
    BY DaemonAssumption DEF Machine, Serves, Jobs, Exits, JobWithout
  <1>3. job'.status = job.status /\ job'.peers = job.peers /\ (job'.pid = job.pid \/ job'.pid = Nobody)
    BY DEF Machine, Jobs, JobWithout
  <1>4. Installing'
    BY <1>3 DEF Machine, Installing
  <1>5. Stopping'
    BY <1>3, DaemonAssumption DEF Machine, Stopping, stopping, StopAt
  <1> QED
    BY <1>1, <1>2, <1>4, <1>5 DEF Machine

\* A new one is not one that a stop is after.
LEMMA NewStep ==
    ASSUME Machine, Free # {}, NEW list \in Lists \cup {Nobody}, New(NextPid, list),
           UNCHANGED <<plist, inst, stopping>>,
           UNCHANGED job \/ (job.status = "loaded" /\ job' = [job EXCEPT !.pid = NextPid])
    PROVE  Machine'
  <1> DEFINE p == NextPid
  <1>1. p \in Pids /\ state[p] = "absent" /\ \A s \in Stops : target[s] # p
    BY NextPidIsFree DEF Free
  <1> HIDE DEF p
  <1>2. New(p, list) /\ (UNCHANGED job \/ (job.status = "loaded" /\ job' = [job EXCEPT !.pid = p]))
    BY DEF p
  <1>3. Serves'
    BY <1>1, <1>2 DEF Machine, Serves, New, Listening
  <1>4. Jobs'
    BY <1>1, <1>2 DEF Machine, Serves, Jobs, New
  <1>5. Installing'
    BY <1>2 DEF Machine, Jobs, Installing
  <1>6. Stopping'
    BY <1>1, <1>2 DEF Machine, Jobs, Stopping, stopping
  <1> QED
    BY <1>3, <1>4, <1>5, <1>6 DEF Machine

LEMMA MachineSame ==
    ASSUME Machine, UNCHANGED <<serves, service, stopping>>
    PROVE  Machine'
  BY DEF Machine, Serves, Jobs, Installing, Stopping, serves, service, stopping, Listening

-----------------------------------------------------------------------------
(* The machine's part.                                                     *)

LEMMA ServeStep ==
    ASSUME Machine, NEW p \in Pids, OfServe(p) \/ Crash(p)
    PROVE  Machine'
  <1>1. CASE Bind(p)
    BY <1>1 DEF Bind, Alive, Machine, Serves, Jobs, Installing, Stopping, Listening, service, stopping
  <1>2. CASE BindFails(p) \/ Close(p) \/ Crash(p)
    BY <1>2, ExitStep DEF BindFails, Close, Crash
  <1>3. CASE Shutdown(p)
    <2>1. CASE state[p] = "serving"
      BY <1>3, <2>1 DEF Shutdown, Machine, Serves, Jobs, Installing, Stopping, Listening, stopping
    <2>2. CASE state[p] # "serving"
      BY <1>3, <2>2, ExitStep DEF Shutdown
    <2> QED
      BY <2>1, <2>2
  <1> QED
    BY <1>1, <1>2, <1>3 DEF OfServe

LEMMA LaunchdStep ==
    ASSUME Machine, OfLaunchd
    PROVE  Machine'
  <1>1. CASE LaunchdStarts
    <2>1. job.peers \in Lists \cup {Nobody}
      BY DEF Machine, Jobs
    <2> QED
      BY <1>1, <2>1, NewStep DEF LaunchdStarts
  <1>2. CASE LaunchdForgets
    BY <1>2, DaemonAssumption DEF LaunchdForgets, NoJob, serves, stopping,
       Machine, Serves, Jobs, Installing, Stopping, Listening
  <1>3. CASE LaunchdKills
    <2>1. job.pid \in Pids /\ [job EXCEPT !.pid = Nobody] = JobWithout(job.pid)
      BY <1>3 DEF LaunchdKills, Machine, Jobs, JobWithout
    <2> QED
      BY <1>3, <2>1, ExitStep DEF LaunchdKills
  <1> QED
    BY <1>1, <1>2, <1>3 DEF OfLaunchd

LEMMA BootoutStep ==
    ASSUME Machine, Bootout, UNCHANGED <<state, peers, stopping>>
    PROVE  Serves' /\ Jobs' /\ Stopping' /\ (job'.status # "absent" => job.status # "absent")
  <1>1. CASE job.status = "loaded"
    BY <1>1 DEF Bootout, Machine, Serves, Jobs, Stopping, Listening, stopping
  <1>2. CASE job.status # "loaded"
    BY <1>2 DEF Bootout, Machine, Serves, Jobs, Stopping, Listening, stopping
  <1> QED
    BY <1>1, <1>2

LEMMA AtStep ==
    ASSUME Installing, NEW where \in {"idle", "write", "bootstrap", "installed", "failed"}, At(where)
    PROVE  /\ inst'.pc = where /\ inst'.peers = inst.peers /\ inst'.slow = inst.slow
           /\ inst' \in [pc : {"idle", "waiting", "write", "bootstrap", "installed", "failed", "remove"},
                        peers : Lists \cup {Nobody}, slow : BOOLEAN]
  BY DEF Installing, At

LEMMA InstallStep ==
    ASSUME Machine, OfInstall \/ Uninstall \/ \E list \in Lists : Install(list)
    PROVE  Machine'
  <1>1. ASSUME NEW list \in Lists, Install(list) PROVE Machine'
    <2>1. Serves' /\ Jobs' /\ Stopping'
      BY <1>1, BootoutStep DEF Install
    <2>2. Installing'
      BY <1>1 DEF Install, Machine, Installing
    <2> QED
      BY <2>1, <2>2 DEF Machine
  <1>2. CASE Uninstall
    <2>1. CASE plist = Nobody
      <3>1. Serves' /\ Jobs' /\ Stopping'
        BY <1>2, <2>1 DEF Uninstall, Machine, Serves, Jobs, Stopping, Listening, stopping
      <3>2. Installing'
        BY <1>2, <2>1, AtStep DEF Uninstall, Machine, Installing
      <3> QED
        BY <3>1, <3>2 DEF Machine
    <2>2. CASE plist # Nobody
      <3>1. Serves' /\ Jobs' /\ Stopping'
        BY <1>2, <2>2, BootoutStep DEF Uninstall
      <3>2. Installing'
        <4>1. inst' = [pc |-> "remove", peers |-> Nobody, slow |-> FALSE] /\ plist' = plist
          BY <1>2, <2>2 DEF Uninstall
        <4> QED
          BY <4>1 DEF Machine, Installing
      <3> QED
        BY <3>1, <3>2 DEF Machine
    <2> QED
      BY <2>1, <2>2
  <1>3. CASE WaitUntilUnloaded
    <2>1. Serves' /\ Jobs' /\ Stopping'
      BY <1>3 DEF WaitUntilUnloaded, serves, stopping, Machine, Serves, Jobs, Stopping, Listening
    <2>2. Installing'
      <3>1. CASE job.status = "absent"
        BY <1>3, <3>1, AtStep DEF WaitUntilUnloaded, Machine, Installing
      <3>2. CASE job.status # "absent"
        BY <1>3, <3>2 DEF WaitUntilUnloaded, Machine, Installing
      <3> QED
        BY <3>1, <3>2
    <2> QED
      BY <2>1, <2>2 DEF Machine
  <1>4. CASE WritePlist \/ RemovePlist
    BY <1>4 DEF WritePlist, RemovePlist, At, serves, stopping, Machine, Serves, Jobs, Installing, Stopping, Listening
  <1>5. CASE Bootstrap
    <2>1. Serves' /\ Jobs' /\ Stopping'
      BY <1>5, DaemonAssumption
      DEF Bootstrap, serves, stopping, Machine, Serves, Jobs, Installing, Stopping, Listening
    <2>2. Installing'
      BY <1>5 DEF Bootstrap, At, Machine, Installing
    <2> QED
      BY <2>1, <2>2 DEF Machine
  <1> QED
    BY <1>1, <1>2, <1>3, <1>4, <1>5 DEF OfInstall

LEMMA StopStep ==
    ASSUME Machine, NEW s \in Stops, Find(s) \/ OfStop(s)
    PROVE  Machine'
  <1>1. CASE Find(s) \/ PollStop(s)
    <2>1. Serves' /\ Jobs' /\ Installing'
      BY <1>1 DEF Find, PollStop, serves, service, Machine, Serves, Jobs, Installing, Listening
    <2>2. Stopping'
      BY <1>1 DEF Find, PollStop, StopAt, service, Machine, Stopping, Listening
    <2> QED
      BY <2>1, <2>2 DEF Machine
  <1>2. CASE Signal(s)
    <2>1. target[s] \in Pids
      BY <1>2 DEF Signal, Machine, Stopping
    <2>2. Serves' /\ Jobs' /\ Installing'
      BY <1>2, <2>1 DEF Signal, service, Machine, Serves, Jobs, Installing, Listening
    <2>3. Stopping'
      BY <1>2, <2>1 DEF Signal, StopAt, service, Machine, Stopping
    <2> QED
      BY <2>2, <2>3 DEF Machine
  <1>3. CASE Kill(s)
    <2>1. target[s] \in Pids
      BY <1>3 DEF Kill, Machine, Stopping
    <2> QED
      BY <1>3, <2>1, ExitStep DEF Kill
  <1> QED
    BY <1>1, <1>2, <1>3 DEF OfStop

LEMMA RestartStep ==
    ASSUME Machine, Restart
    PROVE  Machine'
  <1>1. Serves'
    BY DEF Restart, Machine, Serves, Listening
  <1>2. Jobs'
    BY DEF Restart, Machine, Jobs, Installing, NoJob
  <1>3. Installing'
    BY DaemonAssumption DEF Restart, Machine, Installing, Quiet
  <1>4. Stopping'
    BY DEF Restart, Machine, Stopping
  <1> QED
    BY <1>1, <1>2, <1>3, <1>4 DEF Machine

-----------------------------------------------------------------------------
(* A run's part.                                                           *)

LEMMA TalkSame ==
    ASSUME Commands, Talking, UNCHANGED runs
    PROVE  Commands' /\ Talking'
  BY DEF Commands, Talking, runs, talk

\* Without its conversation, a run may go anywhere between replies.
LEMMA BetweenReplies ==
    ASSUME Commands, Talking, NEW r \in Runs, UNCHANGED talk,
           NEW where \in {"over", "prompt", "start", "polling"}, Goes(r, where), pc[r] \notin Replying,
           \A u \in Runs : wants'[u] \in Lists \cup {Nobody}, wants' \in [Runs -> Lists \cup {Nobody}]
    PROVE  Commands' /\ Talking'
  <1>1. pc' = [pc EXCEPT ![r] = where] /\ where \notin Replying
    BY DEF Goes, Replying
  <1>2. Commands'
    BY <1>1 DEF Commands, talk
  <1>3. Talking'
    BY <1>1 DEF Commands, Talking, talk
  <1> QED
    BY <1>2, <1>3

LEMMA Parity ==
    ASSUME NEW n \in Nat
    PROVE  /\ n % 2 = 1 => n >= 1 /\ (n + 1) % 2 = 0 /\ (n - 1) % 2 = 0
           /\ n % 2 = 0 => (n + 1) % 2 = 1
  OBVIOUS

LEMMA EvenAfterOdd ==
    ASSUME NEW n \in Nat, NEW i \in 1..n, i % 2 = 0
    PROVE  i - 1 \in 1..n
  OBVIOUS

LEMMA AppendFacts ==
    ASSUME NEW S, NEW s \in Seq(S), NEW e \in S
    PROVE  /\ Append(s, e) \in Seq(S) /\ Len(Append(s, e)) = Len(s) + 1
           /\ Append(s, e)[Len(s) + 1] = e /\ \A i \in 1..Len(s) : Append(s, e)[i] = s[i]
  OBVIOUS

LEMMA MsgsLong ==
    ASSUME Commands, NEW r \in Runs
    PROVE  msgs[r] \in Seq(Spoken) /\ Len(msgs[r]) \in Nat /\ left[r] \in Int
  BY DEF Commands

\* A reply comes or not, and the question goes with it.
LEMMA ReturnStep ==
    ASSUME Commands, Talking, NEW r \in Runs, NEW ok \in BOOLEAN, Returns(r, ok, ok), pc[r] \in Replying
    PROVE  Commands' /\ Talking'
  <1> DEFINE ms == msgs[r]
             new == IF ok THEN Append(ms, Assistant(left[r], ok)) ELSE SubSeq(ms, 1, Len(ms) - 1)
  <1>1. /\ ms \in Seq(Spoken) /\ Len(ms) \in Nat /\ InTurn(ms) /\ Len(ms) % 2 = 1
        /\ ms[Len(ms)].line = left[r] /\ left[r] \in Int
    BY MsgsLong DEF Talking
  <1>2. new \in Seq(Spoken) /\ InTurn(new) /\ Len(new) % 2 = 0
    <2>1. CASE ok
      <3>1. Assistant(left[r], ok) \in Spoken
        BY <1>1, <2>1 DEF Assistant, Spoken
      <3>2. /\ new \in Seq(Spoken) /\ Len(new) = Len(ms) + 1 /\ new[Len(ms) + 1] = Assistant(left[r], ok)
            /\ \A i \in 1..Len(ms) : new[i] = ms[i]
        <4>1. new = Append(ms, Assistant(left[r], ok))
          BY <2>1
        <4> HIDE DEF new, ms
        <4> QED
          BY <1>1, <3>1, <4>1, AppendFacts
      <3>3. (Len(ms) + 1) % 2 = 0
        BY <1>1, Parity
      <3>4. InTurn(new)
        <4> SUFFICES ASSUME NEW i \in 1..Len(new)
                     PROVE  /\ new[i].whole
                            /\ new[i].role = (IF i % 2 = 1 THEN "user" ELSE "assistant")
                            /\ i % 2 = 0 => new[i].line = new[i - 1].line
          BY DEF InTurn
        <4> HIDE DEF new, ms
        <4>1. CASE i = Len(ms) + 1
          <5>1. new[i].whole /\ new[i].role = "assistant" /\ new[i].line = left[r]
            BY <2>1, <3>2, <4>1 DEF Assistant
          <5>2. i - 1 \in 1..Len(ms) /\ i - 1 = Len(ms)
            BY <1>1, <4>1
          <5>3. new[i - 1].line = left[r]
            BY <1>1, <3>2, <5>2
          <5> QED
            BY <3>3, <4>1, <5>1, <5>3
        <4>2. CASE i # Len(ms) + 1
          <5>1. i \in 1..Len(ms)
            BY <1>1, <3>2, <4>2
          <5>2. i % 2 = 0 => i - 1 \in 1..Len(ms)
            BY <5>1, <1>1
          <5> QED
            BY <1>1, <3>2, <5>1, <5>2 DEF InTurn
        <4> QED
          BY <4>1, <4>2
      <3> QED
        BY <3>2, <3>3, <3>4
    <2>2. CASE ~ok
      <3>1. Len(ms) >= 1
        BY <1>1, Parity
      <3>2. /\ new \in Seq(Spoken) /\ Len(new) = Len(ms) - 1
            /\ \A i \in 1..(Len(ms) - 1) : new[i] = ms[i]
        BY <1>1, <2>2, <3>1, SubSeqProperties
      <3>3. (Len(ms) - 1) % 2 = 0
        BY <1>1, Parity
      <3>4. InTurn(new)
        <4> SUFFICES ASSUME NEW i \in 1..Len(new)
                     PROVE  /\ new[i].whole
                            /\ new[i].role = (IF i % 2 = 1 THEN "user" ELSE "assistant")
                            /\ i % 2 = 0 => new[i].line = new[i - 1].line
          BY DEF InTurn
        <4> HIDE DEF new, ms
        <4>1. i \in 1..Len(ms) /\ i \in 1..(Len(ms) - 1) /\ (i % 2 = 0 => i - 1 \in 1..(Len(ms) - 1))
          <5>1. Len(ms) - 1 \in Nat /\ i \in 1..(Len(ms) - 1)
            BY <1>1, <3>1, <3>2
          <5> QED
            BY <1>1, <5>1, EvenAfterOdd
        <4> QED
          BY <1>1, <3>2, <4>1 DEF InTurn
      <3> QED
        BY <3>2, <3>3, <3>4
    <2> QED
      BY <2>1, <2>2
  <1>3. /\ msgs' = [msgs EXCEPT ![r] = new] /\ pc' = [pc EXCEPT ![r] = "prompt"]
        /\ conn' = [conn EXCEPT ![r] = Nobody] /\ cut' = [cut EXCEPT ![r] = FALSE]
        /\ pressed' = [pressed EXCEPT ![r] = FALSE] /\ UNCHANGED <<wants, left, key>>
    BY DEF Returns, Goes
  <1> HIDE DEF new
  <1>4. Commands'
    BY <1>2, <1>3 DEF Commands
  <1>5. Talking'
    <2> SUFFICES ASSUME NEW u \in Runs
                 PROVE  /\ InTurn(msgs'[u])
                        /\ pc'[u] \notin Replying => Len(msgs'[u]) % 2 = 0
                        /\ pc'[u] \in Replying =>
                             Len(msgs'[u]) % 2 = 1 /\ msgs'[u][Len(msgs'[u])].line = left'[u]
                        /\ pc'[u] \in Replying /\ key'[u] => pressed'[u]
                        /\ cut'[u] => pressed'[u]
      BY DEF Talking
    <2>1. CASE u = r
      <3>1. pc'[r] = "prompt" /\ msgs'[r] = new /\ ~cut'[r]
        BY <1>3 DEF Commands
      <3> QED
        BY <1>2, <2>1, <3>1 DEF Replying
    <2>2. CASE u # r
      <3>1. /\ pc'[u] = pc[u] /\ msgs'[u] = msgs[u] /\ cut'[u] = cut[u] /\ pressed'[u] = pressed[u]
            /\ left'[u] = left[u] /\ key'[u] = key[u]
        BY <1>3, <2>2 DEF Commands
      <3> QED
        BY <3>1 DEF Talking
    <2> QED
      BY <2>1, <2>2
  <1> QED
    BY <1>4, <1>5

LEMMA AskStep ==
    ASSUME Commands, Talking, NEW r \in Runs, Ask(r)
    PROVE  Commands' /\ Talking'
  <1> DEFINE ms == msgs[r]
             n == left[r] - 1
             new == Append(ms, User(n))
  <1>1. ms \in Seq(Spoken) /\ Len(ms) \in Nat /\ InTurn(ms) /\ Len(ms) % 2 = 0 /\ n \in Int
    <2>1. pc[r] \notin Replying
      BY DEF Ask, AskWith, Replying
    <2>2. ms \in Seq(Spoken) /\ Len(ms) \in Nat /\ InTurn(ms) /\ Len(ms) % 2 = 0
      BY <2>1, MsgsLong DEF Talking
    <2>3. n \in Int
      <3>1. left[r] \in Int
        BY MsgsLong
      <3> QED
        BY <3>1
    <2> QED
      BY <2>2, <2>3
  <1>2. /\ msgs' = [msgs EXCEPT ![r] = new] /\ pc' = [pc EXCEPT ![r] = "sending"]
        /\ left' = [left EXCEPT ![r] = n] /\ key' = [key EXCEPT ![r] = FALSE]
        /\ UNCHANGED <<wants, conn, cut, pressed>>
    BY DEF Ask, AskWith, Goes, Commands
  <1>3. User(n) \in Spoken /\ User(n).whole /\ User(n).role = "user" /\ User(n).line = n
    BY <1>1 DEF User, Spoken
  <1>4. /\ new \in Seq(Spoken) /\ Len(new) = Len(ms) + 1 /\ new[Len(ms) + 1] = User(n)
        /\ \A i \in 1..Len(ms) : new[i] = ms[i]
    BY <1>1, <1>3
  <1>5. (Len(ms) + 1) % 2 = 1
    BY <1>1, Parity
  <1> HIDE DEF new, ms, n
  <1>6. InTurn(new)
    <2> SUFFICES ASSUME NEW i \in 1..Len(new)
                 PROVE  /\ new[i].whole
                        /\ new[i].role = (IF i % 2 = 1 THEN "user" ELSE "assistant")
                        /\ i % 2 = 0 => new[i].line = new[i - 1].line
      BY DEF InTurn
    <2>1. CASE i = Len(ms) + 1
      BY <1>1, <1>3, <1>4, <1>5, <2>1
    <2>2. CASE i # Len(ms) + 1
      <3>1. i \in 1..Len(ms) /\ (i % 2 = 0 => i - 1 \in 1..Len(ms))
        BY <1>1, <1>4, <2>2
      <3> QED
        BY <1>1, <1>4, <3>1 DEF InTurn
    <2> QED
      BY <2>1, <2>2
  <1>7. Commands'
    BY <1>1, <1>2, <1>4 DEF Commands, Replying
  <1>8. Talking'
    <2> SUFFICES ASSUME NEW u \in Runs
                 PROVE  /\ InTurn(msgs'[u])
                        /\ pc'[u] \notin Replying => Len(msgs'[u]) % 2 = 0
                        /\ pc'[u] \in Replying =>
                             Len(msgs'[u]) % 2 = 1 /\ msgs'[u][Len(msgs'[u])].line = left'[u]
                        /\ pc'[u] \in Replying /\ key'[u] => pressed'[u]
                        /\ cut'[u] => pressed'[u]
      BY DEF Talking
    <2>1. CASE u = r
      <3>1. pc'[r] = "sending" /\ msgs'[r] = new /\ left'[r] = n /\ ~key'[r] /\ cut'[r] = cut[r]
            /\ pressed'[r] = pressed[r]
        BY <1>2 DEF Commands
      <3> QED
        BY <1>3, <1>4, <1>5, <1>6, <2>1, <3>1 DEF Replying, Talking
    <2>2. CASE u # r
      <3>1. /\ pc'[u] = pc[u] /\ msgs'[u] = msgs[u] /\ cut'[u] = cut[u] /\ pressed'[u] = pressed[u]
            /\ left'[u] = left[u] /\ key'[u] = key[u]
        BY <1>2, <2>2 DEF Commands
      <3> QED
        BY <3>1 DEF Talking
    <2> QED
      BY <2>1, <2>2
  <1> QED
    BY <1>7, <1>8

LEMMA EmptyInTurn == InTurn(<<>>) /\ Len(<<>>) % 2 = 0 /\ <<>> \in Seq(Spoken)
  BY DEF InTurn

LEMMA RunStep ==
    ASSUME Machine, Commands, Talking, NEW r \in Runs,
           \/ OfRun(r) \/ Ask(r) \/ Clear(r) \/ Leave(r) \/ CtrlC(r) \/ Stopped(r)
           \/ \E a \in Calls : Call(r, a)
    PROVE  Machine' /\ Commands' /\ Talking'
  <1>1. ASSUME NEW a \in Calls, Call(r, a) PROVE Machine' /\ Commands' /\ Talking'
    <2>1. a.peers \in Lists
      BY DaemonAssumption
    <2>2. wants' \in [Runs -> Lists \cup {Nobody}]
      BY <1>1, <2>1 DEF Call, Commands
    <2>3. UNCHANGED talk /\ pc[r] \notin Replying
      BY <1>1 DEF Call, Replying
    <2>4. \E where \in {"over", "prompt", "start", "polling"} : Goes(r, where)
      BY <1>1 DEF Call, Found
    <2> QED
      BY <1>1, <2>2, <2>3, <2>4, BetweenReplies, MachineSame DEF Call
  <1>2. CASE Start(r) \/ Poll(r)
    <2>1. wants' \in [Runs -> Lists \cup {Nobody}]
      BY <1>2 DEF Start, Poll, Commands
    <2>2. UNCHANGED talk /\ pc[r] \notin Replying
      BY <1>2 DEF Start, Poll, Replying
    <2>3. \E where \in {"over", "prompt", "start", "polling"} : Goes(r, where)
      BY <1>2 DEF Start, Poll, Found
    <2>4. Commands' /\ Talking'
      BY <2>1, <2>2, <2>3, BetweenReplies
    <2>5. Machine'
      <3>1. CASE UNCHANGED serves
        BY <1>2, <3>1, MachineSame DEF Start, Poll
      <3>2. CASE Free # {} /\ New(NextPid, wants[r])
        BY <1>2, <3>2, NewStep DEF Start, Poll, service, serves, Commands
      <3> QED
        BY <1>2, <3>1, <3>2 DEF Start, Poll
    <2> QED
      BY <2>4, <2>5
  <1>3. CASE OfReply(r)
    <2>1. CASE \E ok \in BOOLEAN : Returns(r, ok, ok) /\ pc[r] \in Replying
      BY <2>1, ReturnStep, MachineSame DEF Returns
    <2>2. CASE Post(r) /\ Alive
      <3>1. PICK p \in Pids : conn' = [conn EXCEPT ![r] = p]
        BY <2>2 DEF Post, Listening
      <3>2. /\ pc' = [pc EXCEPT ![r] = "posted"] /\ pc[r] = "sending"
            /\ UNCHANGED <<serves, service, wants, msgs, left, key, cut, pressed, stopping>>
        BY <2>2 DEF Post, Goes
      <3>3. Commands' /\ Talking'
        BY <3>1, <3>2 DEF Commands, Talking, Replying
      <3> QED
        BY <3>2, <3>3, MachineSame
    <2>3. CASE Begins(r)
      <3>1. /\ pc' = [pc EXCEPT ![r] = "reading"] /\ pc[r] = "posted"
            /\ UNCHANGED <<serves, service, wants, talk, stopping>>
        BY <2>3 DEF Begins, Goes
      <3>2. Commands' /\ Talking'
        BY <3>1 DEF Commands, Talking, Replying, talk
      <3> QED
        BY <3>1, <3>2, MachineSame
    <2> QED
      BY <1>3, <2>1, <2>2, <2>3 DEF OfReply, Post, Done, Refused, Broken, Cancelled, Replying
  <1>4. CASE Ask(r)
    BY <1>4, AskStep, MachineSame DEF Ask, AskWith
  <1>5. CASE Clear(r) \/ Leave(r)
    <2>1. /\ pc[r] = "prompt" /\ msgs' = [msgs EXCEPT ![r] = <<>>]
          /\ \/ UNCHANGED <<pc, left, key>>
             \/ /\ pc' = [pc EXCEPT ![r] = "over"] /\ left' = [left EXCEPT ![r] = 0]
                /\ key' = [key EXCEPT ![r] = FALSE]
          /\ UNCHANGED <<serves, service, wants, conn, cut, pressed, stopping>>
      BY <1>5 DEF Clear, Leave, Goes
    <2>2. Commands'
      <3>1. msgs' \in [Runs -> Seq(Spoken)]
        BY <2>1, EmptyInTurn DEF Commands
      <3>2. pc' \in [Runs -> Replying \cup {"idle", "start", "polling", "prompt", "over"}]
        BY <2>1 DEF Commands
      <3>3. left' \in [Runs -> Int]
        <4>1. \A f \in [Runs -> Int] : [f EXCEPT ![r] = 0] \in [Runs -> Int]
          OBVIOUS
        <4> QED
          BY <2>1, <4>1 DEF Commands
      <3>4. key' \in [Runs -> BOOLEAN]
        <4>1. \A f \in [Runs -> BOOLEAN] : [f EXCEPT ![r] = FALSE] \in [Runs -> BOOLEAN]
          OBVIOUS
        <4> QED
          BY <2>1, <4>1 DEF Commands
      <3> QED
        BY <2>1, <3>1, <3>2, <3>3, <3>4 DEF Commands
    <2>3. Talking'
      BY ZenonT(30), <2>1, EmptyInTurn DEF Commands, Talking, Replying
    <2> QED
      BY <2>1, <2>2, <2>3, MachineSame
  <1>6. CASE CtrlC(r)
    <2>1. Commands' /\ Talking'
      BY <1>6 DEF CtrlC, Commands, Talking, Replying
    <2> QED
      BY <1>6, <2>1, MachineSame DEF CtrlC
  <1>7. CASE Stopped(r)
    <2>1. Commands' /\ Talking'
      BY <1>7 DEF Stopped, Commands, Talking, Replying
    <2> QED
      BY <1>7, <2>1, MachineSame DEF Stopped
  <1> QED
    BY <1>1, <1>2, <1>3, <1>4, <1>5, <1>6, <1>7 DEF OfRun

-----------------------------------------------------------------------------
(* Together.                                                               *)

LEMMA InitIInv == Init => IInv
  <1> SUFFICES ASSUME Init PROVE IInv
    OBVIOUS
  <1>1. Machine
    BY DEF Init, Machine, Serves, Jobs, Installing, Stopping, Listening, NoJob
  <1>2. Commands
    BY EmptyInTurn, DaemonAssumption DEF Init, Commands, Replying
  <1>3. Talking
    BY EmptyInTurn DEF Init, Talking, Replying
  <1> QED
    BY <1>1, <1>2, <1>3 DEF IInv

LEMMA IInvInductive == IInv /\ [Next]_vars => IInv'
  <1> SUFFICES ASSUME IInv, [Next]_vars PROVE IInv'
    OBVIOUS
  <1> USE DEF IInv
  <1>1. ASSUME NEW p \in Pids, OfServe(p) \/ Crash(p) PROVE IInv'
    <2>1. UNCHANGED runs
      BY <1>1 DEF OfServe, Bind, BindFails, Shutdown, Close, Crash
    <2> QED
      BY <1>1, <2>1, ServeStep, TalkSame
  <1>2. CASE OfLaunchd
    <2>1. UNCHANGED runs
      BY <1>2 DEF OfLaunchd, LaunchdStarts, LaunchdForgets, LaunchdKills
    <2> QED
      BY <1>2, <2>1, LaunchdStep, TalkSame
  <1>3. CASE OfInstall \/ Uninstall \/ \E list \in Lists : Install(list)
    <2>1. UNCHANGED runs
      BY <1>3 DEF OfInstall, WaitUntilUnloaded, WritePlist, Bootstrap, RemovePlist, Uninstall, Install
    <2> QED
      BY <1>3, <2>1, InstallStep, TalkSame
  <1>4. CASE Restart
    <2>1. Commands'
      BY <1>4, EmptyInTurn DEF Restart, Commands
    <2>2. Talking'
      BY <1>4, EmptyInTurn DEF Restart, Talking, Replying
    <2> QED
      BY <1>4, <2>1, <2>2, RestartStep
  <1>5. ASSUME NEW r \in Runs,
               \/ OfRun(r) \/ Ask(r) \/ Clear(r) \/ Leave(r) \/ CtrlC(r) \/ Stopped(r)
               \/ \E a \in Calls : Call(r, a)
        PROVE  IInv'
    BY <1>5, RunStep
  <1>6. ASSUME NEW s \in Stops, Find(s) \/ OfStop(s) PROVE IInv'
    <2>1. UNCHANGED runs
      BY <1>6 DEF Find, OfStop, Signal, PollStop, Kill
    <2> QED
      BY <1>6, <2>1, StopStep, TalkSame
  <1>7. CASE UNCHANGED vars
    BY <1>7, MachineSame, TalkSame DEF vars
  <1> QED
    BY <1>1, <1>2, <1>3, <1>4, <1>5, <1>6, <1>7 DEF Next

LEMMA InvAlways == Spec => []IInv
  BY InitIInv, IInvInductive, PTL DEF Spec

-----------------------------------------------------------------------------
(* What follows.                                                           *)

LEMMA OneListens ==
    ASSUME Serves
    PROVE  Cardinality(Listening) <= 1
  <1>1. Listening = {} \/ \E p : Listening = {p}
    BY DEF Serves
  <1>2. Cardinality(Listening) = 0 \/ Cardinality(Listening) = 1
    BY <1>1, FS_EmptySet, FS_Singleton
  <1> QED
    BY <1>2

\* What a run resends is its questions and whole answers to them in turn, for any
\* lines, failures and Ctrl-C at any moment (repl, daemon.go).
THEOREM ConversationsAreTrue == Spec => []ConversationTrue
  <1>1. IInv => ConversationTrue
    <2> SUFFICES ASSUME IInv PROVE ConversationTrue
      OBVIOUS
    <2>1. TypeOK
      BY OneListens DEF IInv, Machine, Serves, Jobs, Installing, Commands, TypeOK
    <2>2. ASSUME NEW r \in Runs
          PROVE  /\ \A i \in DOMAIN msgs[r] :
                      msgs[r][i].whole /\ msgs[r][i].role = (IF i % 2 = 1 THEN "user" ELSE "assistant")
                 /\ \A i \in DOMAIN msgs[r] : i % 2 = 0 => msgs[r][i].line = msgs[r][i - 1].line
                 /\ pc[r] = "prompt" => Len(msgs[r]) % 2 = 0
                 /\ cut[r] => pressed[r]
      <3>1. DOMAIN msgs[r] = 1..Len(msgs[r])
        BY MsgsLong DEF IInv
      <3>2. InTurn(msgs[r])
        BY DEF IInv, Talking
      <3>3. (pc[r] = "prompt" => Len(msgs[r]) % 2 = 0) /\ (cut[r] => pressed[r])
        BY DEF IInv, Talking, Replying
      <3> QED
        BY <3>1, <3>2, <3>3 DEF InTurn
    <2> QED
      BY <2>1, <2>2 DEF ConversationTrue, HistoryTrue, StoppedByItsKey
  <1> QED
    BY <1>1, InvAlways, PTL

\* A server that install says is up is launchd's, with the flags asked for, until
\* the next command, over crashes and restarts (install_darwin.go).
THEOREM InstallsStay == Spec => []InstalledStays
  <1>1. IInv => InstalledStays
    BY DEF IInv, Machine, Installing, InstalledStays
  <1> QED
    BY <1>1, InvAlways, PTL

\* stop ends the serve it asked, for any others that start, die or are installed
\* while it waits, and is never after launchd's (stop.go).
THEOREM StopsEnd == Spec => StopEnds
  <1> DEFINE Ends(s) == /\ stops[s] = "polling" /\ stops'[s] = "over" => state'[target[s]] # "serving"
                        /\ stops'[s] = "polling" => job.pid # target'[s] \/ job.status = "leaving"
  <1>1. ASSUME IInv, [Next]_vars, NEW s \in Stops, UNCHANGED stopping
        PROVE  Ends(s)
    BY <1>1, DaemonAssumption DEF IInv, Machine, Jobs, Stopping, stopping
  <1>2. ASSUME IInv, NEW s \in Stops, NEW t \in Stops, Find(t) \/ OfStop(t)
        PROVE  Ends(s)
    <2>1. CASE Find(t)
      BY <1>2, <2>1, DaemonAssumption DEF IInv, Machine, Jobs, Stopping, Find, StopAt
    <2>2. CASE Signal(t)
      BY <1>2, <2>2, DaemonAssumption DEF IInv, Machine, Jobs, Stopping, Signal, StopAt
    <2>3. CASE PollStop(t)
      BY <1>2, <2>3, DaemonAssumption
      DEF IInv, Machine, Jobs, Stopping, PollStop, StopAt, Alive, Listening, serves
    <2>4. CASE Kill(t)
      BY <1>2, <2>4, DaemonAssumption DEF IInv, Machine, Serves, Jobs, Stopping, Kill, StopAt, Exits
    <2> QED
      BY <1>2, <2>1, <2>2, <2>3, <2>4 DEF OfStop
  <1>3. ASSUME IInv, Restart, NEW s \in Stops PROVE Ends(s)
    BY <1>3 DEF Restart, IInv, Machine, Stopping
  <1>4. ASSUME IInv, [Next]_vars PROVE \A s \in Stops : Ends(s)
    <2>1. UNCHANGED stopping \/ Restart \/ \E t \in Stops : Find(t) \/ OfStop(t)
      BY ZenonT(30), <1>4 DEF Next, vars, OfServe, Bind, BindFails, Shutdown, Close, Crash, OfLaunchd, LaunchdStarts,
         LaunchdForgets, LaunchdKills, OfInstall, WaitUntilUnloaded, WritePlist, Bootstrap, RemovePlist,
         Uninstall, Install, OfRun, Start, Poll, OfReply, Post, Begins, Done, Refused, Broken, Cancelled,
         Returns, Ask, AskWith, Clear, Leave, CtrlC, Stopped, Call
    <2> QED
      BY <1>1, <1>2, <1>3, <1>4, <2>1
  <1> QED
    BY <1>4, InvAlways, PTL DEF Spec, StopEnds
=============================================================================
