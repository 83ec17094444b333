-------------------------------- MODULE Exec --------------------------------
(***************************************************************************)
(* Running programs (effect/exec.rs) and those who run them: the probe     *)
(* cycle with a thread per service (effect/probe.rs, run_probes), the      *)
(* systemctl commands of the control loop, and the workers that clean the  *)
(* disk and check for updates (effect/disk.rs, effect/updates.rs).         *)
(*                                                                         *)
(* exec::run starts a program in a process group of its own, polls it,     *)
(* ends the group when its time is over (SIGTERM, five seconds, SIGKILL)   *)
(* and reads what it wrote once it has ended.  A program, the leader of    *)
(* its group, may start a helper that inherits its pipes and may leave the *)
(* group.  Nobody reads while the leader runs: one that fills its pipe is  *)
(* stuck.                                                                  *)
(*                                                                         *)
(* Time is left out: a deadline passes when it does.  SIGKILL always ends  *)
(* a process.  What a failed probe leads to is in Recovery.                *)
(***************************************************************************)
EXTENDS Integers, Sequences, FiniteSets

CONSTANTS
    Services,       \* the configured services
    Cmd,            \* the call of the control loop
    Workers,        \* bound: background threads at work at a time
    Configs,        \* bound: the probes the services may have
    Jobs,           \* bound: how many programs a worker runs
    MaxOdd          \* bound: misbehaviour in a behaviour

Calls == Services \cup {Cmd} \cup Workers

Kinds == {"exec", "systemd", "net"}

ASSUME ExecAssumption ==
    /\ Cmd \notin Services \cup Workers /\ Services \cap Workers = {}
    /\ Configs \subseteq [Services -> Kinds]
    /\ Jobs \subseteq 1 .. 3
    /\ MaxOdd \in Nat

VARIABLES
    kind,           \* the probe of each service, from the configuration
    pc,             \* where exec::run, or a probe over the network, is
    result,         \* what it returned
    leader,         \* the process
    status,         \* how it ended
    helper,         \* a descendant that holds the pipes
    thread,         \* the probe threads
    reply,          \* what a probed server answered
    loop,           \* where the control loop is
    todo, handles,  \* services whose thread is to start, and to be joined
    got,            \* the results of the cycle
    orders,         \* how many programs its commands have yet to run
    degraded,       \* degraded_reasons is not empty
    jobs,           \* how many programs each worker has yet to run
    \* observers
    signals,        \* signals sent to the group
    odd

callVars == <<pc, result, leader, status, helper, signals>>
cycleVars == <<thread, reply, loop, todo, handles, got, orders, degraded>>
vars == <<kind, callVars, cycleVars, jobs, odd>>

Misbehave == odd < MaxOdd /\ odd' = odd + 1

-----------------------------------------------------------------------------

Init ==
    /\ kind \in Configs
    /\ pc = [c \in Calls |-> "idle"]
    /\ result = [c \in Calls |-> "none"]
    /\ leader = [c \in Calls |-> "none"]
    /\ status = [c \in Calls |-> "none"]
    /\ helper = [c \in Calls |-> "none"]
    /\ signals = [c \in Calls |-> 0]
    /\ thread = [s \in Services |-> "none"]
    /\ reply = [s \in Services |-> "none"]
    /\ loop = "idle"
    /\ todo = {} /\ handles = {}
    /\ got = [s \in Services |-> <<>>]
    /\ orders = 0
    /\ degraded = FALSE
    /\ jobs = [w \in Workers |-> 0]
    /\ odd = 0

-----------------------------------------------------------------------------
(* exec::run *)

Goto(c, label) == pc' = [pc EXCEPT ![c] = label]

Return(c, r) == Goto(c, "returned") /\ result' = [result EXCEPT ![c] = r]

\* The caller is done with the call; what is left of the processes is no
\* longer looked at.
Drop(c) ==
    /\ Goto(c, "idle")
    /\ result' = [result EXCEPT ![c] = "none"]
    /\ leader' = [leader EXCEPT ![c] = "none"]
    /\ status' = [status EXCEPT ![c] = "none"]
    /\ helper' = [helper EXCEPT ![c] = "none"]
    /\ signals' = [signals EXCEPT ![c] = 0]

Spawn(c) ==
    /\ pc[c] = "start"
    /\ Goto(c, "poll")
    /\ leader' = [leader EXCEPT ![c] = "running"]
    /\ UNCHANGED <<kind, result, status, helper, signals, cycleVars, jobs, odd>>

SpawnFails(c) ==
    /\ pc[c] = "start"
    /\ Misbehave
    /\ Return(c, "not started")
    /\ UNCHANGED <<kind, leader, status, helper, signals, cycleVars, jobs>>

\* try_wait or wait finds the leader ended, and reaps it.
Reap(c, from, r) ==
    /\ pc[c] = from /\ leader[c] = "ended"
    /\ leader' = [leader EXCEPT ![c] = "reaped"]
    /\ Goto(c, "collect")
    /\ result' = [result EXCEPT ![c] = r]
    /\ UNCHANGED <<kind, status, helper, signals, cycleVars, jobs, odd>>

PollExited(c) == Reap(c, "poll", "exited")

\* The call returns and leaves the child as it is.
PollFails(c) ==
    /\ pc[c] = "poll"
    /\ Misbehave
    /\ Return(c, "wait failed")
    /\ UNCHANGED <<kind, leader, status, helper, signals, cycleVars, jobs>>

\* (mutant) the group is signalled after the leader was reaped
TimeoutLate(c) ==
    /\ pc[c] \in {"poll", "collect"}
    /\ Goto(c, "grace")
    /\ signals' = [signals EXCEPT ![c] = @ + 1]
    /\ UNCHANGED <<kind, result, leader, status, helper, cycleVars, jobs, odd>>

\* The deadline is over and the leader is there: SIGTERM to its group.
Timeout(c) ==
    /\ pc[c] = "poll" /\ leader[c] \in {"running", "stuck"}
    /\ Goto(c, "grace")
    /\ signals' = [signals EXCEPT ![c] = @ + 1]
    /\ UNCHANGED <<kind, result, leader, status, helper, cycleVars, jobs, odd>>

GraceExited(c) == Reap(c, "grace", "terminated")

\* (mutant) no second signal: wait for the leader to heed the first
GraceOverUnkilled(c) ==
    /\ pc[c] = "grace" /\ leader[c] \in {"running", "stuck"}
    /\ Goto(c, "wait")
    /\ UNCHANGED <<kind, result, leader, status, helper, signals, cycleVars, jobs, odd>>

\* Five seconds later: SIGKILL to the group, and wait.
GraceOver(c) ==
    /\ pc[c] = "grace" /\ leader[c] \in {"running", "stuck"}
    /\ Goto(c, "wait")
    /\ signals' = [signals EXCEPT ![c] = @ + 1]
    /\ leader' = [leader EXCEPT ![c] = "ended"]
    /\ status' = [status EXCEPT ![c] = "failure"]
    /\ helper' = [helper EXCEPT ![c] = IF @ = "group" THEN "none" ELSE @]
    /\ UNCHANGED <<kind, result, cycleVars, jobs, odd>>

WaitReturns(c) == Reap(c, "wait", "killed")

\* collect_output reads to the end of both pipes.
Collected(c) ==
    /\ pc[c] = "collect" /\ helper[c] = "none"
    /\ Goto(c, "returned")
    /\ UNCHANGED <<kind, result, leader, status, helper, signals, cycleVars, jobs, odd>>

\* A helper wrote 64 KiB: no more is read.
CollectedEnough(c) ==
    /\ pc[c] = "collect" /\ helper[c] # "none"
    /\ Goto(c, "returned")
    /\ UNCHANGED <<kind, result, leader, status, helper, signals, cycleVars, jobs, odd>>

\* (mutant) the status the leader gave when it was told to end
ExitCodeKept(c) ==
    CASE result[c] \in {"exited", "terminated"} -> IF status[c] = "failure" THEN 1 ELSE 0
      [] OTHER -> -9

\* A leader that was told to end counts as killed, whatever status it gave.
ExitCode(c) ==
    CASE result[c] = "exited" -> IF status[c] = "failure" THEN 1 ELSE 0
      [] result[c] = "terminated" -> -1
      [] OTHER -> -9

Failed(c) == result[c] \in {"not started", "wait failed"}

-----------------------------------------------------------------------------
(* The processes *)

\* How a program may end: with success and the output that is expected, with
\* success and another output where one looks at it, or with failure where one
\* looks at that.
Outcomes(c) ==
    {"expected"} \cup (IF c \in Workers THEN {} ELSE {"failure"})
                 \cup (IF c \in Services /\ kind[c] = "exec" THEN {"unexpected"} ELSE {})

LeaderEnds(c) ==
    /\ leader[c] = "running"
    /\ leader' = [leader EXCEPT ![c] = "ended"]
    /\ \E how \in Outcomes(c) : status' = [status EXCEPT ![c] = how]
    /\ UNCHANGED <<kind, pc, result, helper, signals, cycleVars, jobs, odd>>

\* It fills its pipe.
LeaderStuck(c) ==
    /\ leader[c] = "running"
    /\ Misbehave
    /\ leader' = [leader EXCEPT ![c] = "stuck"]
    /\ UNCHANGED <<kind, pc, result, status, helper, signals, cycleVars, jobs>>

\* It heeds SIGTERM in the middle of its write.
StuckEnds(c) ==
    /\ leader[c] = "stuck" /\ signals[c] > 0
    /\ leader' = [leader EXCEPT ![c] = "ended"]
    /\ status' = [status EXCEPT ![c] = "failure"]
    /\ UNCHANGED <<kind, pc, result, helper, signals, cycleVars, jobs, odd>>

\* It starts a helper, which stays in the group or leaves it.
LeaderForks(c) ==
    /\ leader[c] = "running" /\ helper[c] = "none"
    /\ Misbehave
    /\ \E where \in {"group", "elsewhere"} : helper' = [helper EXCEPT ![c] = where]
    /\ UNCHANGED <<kind, pc, result, leader, status, signals, cycleVars, jobs>>

HelperEnds(c) ==
    /\ helper[c] # "none"
    /\ helper' = [helper EXCEPT ![c] = "none"]
    /\ UNCHANGED <<kind, pc, result, leader, status, signals, cycleVars, jobs, odd>>

-----------------------------------------------------------------------------
(* The probe cycle *)

\* Threads are started and joined in the order of the services.
First(set) == CHOOSE s \in set : TRUE

StartCycle ==
    /\ loop = "idle"
    /\ loop' = "starting"
    /\ todo' = Services
    /\ got' = [s \in Services |-> <<>>]
    /\ UNCHANGED <<kind, callVars, thread, reply, handles, orders, degraded, jobs, odd>>

StartThread(s) ==
    /\ loop = "starting" /\ todo # {} /\ s = First(todo)
    /\ todo' = todo \ {s} /\ handles' = handles \cup {s}
    /\ thread' = [thread EXCEPT ![s] = "running"]
    /\ Goto(s, IF kind[s] = "net" THEN "connect" ELSE "start")
    /\ UNCHANGED <<kind, result, leader, status, helper, signals, reply, loop, got, orders,
                   degraded, jobs, odd>>

\* (mutant) a service whose thread cannot start is left out
StartThreadFailsUnseen(s) ==
    /\ loop = "starting" /\ todo # {} /\ s = First(todo)
    /\ Misbehave
    /\ todo' = todo \ {s}
    /\ degraded' = TRUE
    /\ UNCHANGED <<kind, callVars, thread, reply, loop, handles, got, orders, jobs>>

\* No thread can be started: the service counts as unhealthy.
StartThreadFails(s) ==
    /\ loop = "starting" /\ todo # {} /\ s = First(todo)
    /\ Misbehave
    /\ todo' = todo \ {s}
    /\ degraded' = TRUE
    /\ got' = [got EXCEPT ![s] = Append(@, "unhealthy")]
    /\ UNCHANGED <<kind, callVars, thread, reply, loop, handles, orders, jobs>>

StartJoining ==
    /\ loop = "starting" /\ todo = {}
    /\ loop' = "joining"
    /\ UNCHANGED <<kind, callVars, thread, reply, todo, handles, got, orders, degraded, jobs, odd>>

\* check_http and check_dns: connect or bind and send, then read, each with
\* the timeout of the probe; one refused or late is an error.
NetConnect(s) ==
    /\ pc[s] = "connect"
    /\ \/ Goto(s, "read")
       \/ Goto(s, "returned")
    /\ UNCHANGED <<kind, result, leader, status, helper, signals, cycleVars, jobs, odd>>

NetRead(s) ==
    /\ pc[s] = "read"
    /\ Goto(s, "returned")
    /\ \E r \in {"expected", "unexpected", "none"} : reply' = [reply EXCEPT ![s] = r]
    /\ UNCHANGED <<kind, result, leader, status, helper, signals, thread, loop, todo,
                   handles, got, orders, degraded, jobs, odd>>

\* run_probe: a systemd unit is asked for by exit status alone.
Healthy(s) ==
    CASE kind[s] = "net" -> reply[s] = "expected"
      [] kind[s] = "systemd" -> ~Failed(s) /\ ExitCode(s) = 0
      [] kind[s] = "exec" -> ~Failed(s) /\ ExitCode(s) = 0 /\ status[s] = "expected"

ThreadEnds(s) ==
    /\ thread[s] = "running" /\ pc[s] = "returned"
    /\ thread' = [thread EXCEPT ![s] = "ended"]
    /\ UNCHANGED <<kind, callVars, reply, loop, todo, handles, got, orders, degraded, jobs, odd>>

ThreadPanics(s) ==
    /\ thread[s] = "running" /\ pc[s] = "returned"
    /\ Misbehave
    /\ thread' = [thread EXCEPT ![s] = "panicked"]
    /\ UNCHANGED <<kind, callVars, reply, loop, todo, handles, got, orders, degraded, jobs>>

Join(s) ==
    /\ loop = "joining" /\ handles # {} /\ s = First(handles)
    /\ thread[s] \in {"ended", "panicked"}
    /\ handles' = handles \ {s}
    /\ thread' = [thread EXCEPT ![s] = "none"]
    /\ got' = [got EXCEPT ![s] =
                  Append(@, IF thread[s] = "ended" /\ Healthy(s) THEN "healthy" ELSE "unhealthy")]
    /\ degraded' = (degraded \/ thread[s] = "panicked")
    /\ Drop(s) /\ reply' = [reply EXCEPT ![s] = "none"]
    /\ UNCHANGED <<kind, loop, todo, orders, jobs, odd>>

Unhealthy == {s \in Services : got[s] = <<"unhealthy">>}

\* What the reducer makes of the results: nothing, one systemctl, or docker
\* killed and started again.
CycleReduced ==
    /\ loop = "joining" /\ handles = {}
    /\ loop' = "commands"
    /\ orders' \in IF Unhealthy = {} THEN {0} ELSE {0, 1, 2}
    /\ UNCHANGED <<kind, callVars, thread, reply, todo, handles, got, degraded, jobs, odd>>

\* exec_command, in the control loop.
StartOrder ==
    /\ loop = "commands" /\ orders > 0 /\ pc[Cmd] = "idle"
    /\ Goto(Cmd, "start")
    /\ UNCHANGED <<kind, result, leader, status, helper, signals, cycleVars, jobs, odd>>

\* docker is started even when it could not be killed.
OrderEnds ==
    /\ loop = "commands" /\ pc[Cmd] = "returned"
    /\ Drop(Cmd)
    /\ degraded' = (degraded \/ Failed(Cmd) \/ ExitCode(Cmd) # 0)
    /\ orders' = orders - 1
    /\ UNCHANGED <<kind, thread, reply, loop, todo, handles, got, jobs, odd>>

CycleEnds ==
    /\ loop = "commands" /\ orders = 0
    /\ loop' = "idle"
    /\ UNCHANGED <<kind, callVars, thread, reply, todo, handles, got, orders, degraded, jobs, odd>>

-----------------------------------------------------------------------------
(* The workers *)

\* cleanup_standard runs two programs, cleanup_aggressive three, check_apt one.
StartWorker(w) ==
    /\ jobs[w] = 0
    /\ \E n \in Jobs : jobs' = [jobs EXCEPT ![w] = n]
    /\ UNCHANGED <<kind, callVars, cycleVars, odd>>

StartWorkerFails(w) ==
    /\ jobs[w] = 0
    /\ Misbehave
    /\ degraded' = TRUE
    /\ UNCHANGED <<kind, callVars, thread, reply, loop, todo, handles, got, orders, jobs>>

WorkerCalls(w) ==
    /\ jobs[w] > 0 /\ pc[w] = "idle"
    /\ Goto(w, "start")
    /\ UNCHANGED <<kind, result, leader, status, helper, signals, cycleVars, jobs, odd>>

\* The next program is run whatever became of this one.
WorkerGoesOn(w) ==
    /\ pc[w] = "returned"
    /\ Drop(w)
    /\ jobs' = [jobs EXCEPT ![w] = @ - 1]
    /\ UNCHANGED <<kind, cycleVars, odd>>

-----------------------------------------------------------------------------

Run(c) ==
    \/ Spawn(c) \/ SpawnFails(c)
    \/ PollExited(c) \/ PollFails(c) \/ Timeout(c)
    \/ GraceExited(c) \/ GraceOver(c) \/ WaitReturns(c)
    \/ Collected(c) \/ CollectedEnough(c)

Process(c) ==
    LeaderEnds(c) \/ LeaderStuck(c) \/ StuckEnds(c) \/ LeaderForks(c) \/ HelperEnds(c)

ProbeThread(s) == NetConnect(s) \/ NetRead(s) \/ ThreadEnds(s) \/ ThreadPanics(s)

ControlLoop ==
    \/ StartCycle
    \/ \E s \in Services : StartThread(s) \/ StartThreadFails(s) \/ Join(s)
    \/ StartJoining \/ CycleReduced \/ StartOrder \/ OrderEnds \/ CycleEnds

Worker(w) == StartWorker(w) \/ StartWorkerFails(w) \/ WorkerCalls(w) \/ WorkerGoesOn(w)

Next ==
    \/ \E c \in Calls : Run(c) \/ Process(c)
    \/ \E s \in Services : ProbeThread(s)
    \/ ControlLoop
    \/ \E w \in Workers : Worker(w)

Spec == Init /\ [][Next]_vars

\* Threads are scheduled, deadlines pass, and the kernel reports the end of
\* a child.  No process need ever end by itself, no helper need write.
Goes(c) ==
    \/ Spawn(c) \/ PollExited(c) \/ Timeout(c)
    \/ GraceExited(c) \/ GraceOver(c) \/ WaitReturns(c) \/ Collected(c)

FairSpec ==
    /\ Spec
    /\ \A c \in Calls : WF_vars(Goes(c))
    /\ \A s \in Services : WF_vars(NetConnect(s) \/ NetRead(s) \/ ThreadEnds(s))
    /\ WF_vars(ControlLoop)
    /\ \A w \in Workers : WF_vars(WorkerGoesOn(w))

-----------------------------------------------------------------------------
(* Properties *)

PCs == {"idle", "start", "poll", "grace", "wait", "collect", "returned", "connect", "read"}

TypeOK ==
    /\ kind \in Configs
    /\ pc \in [Calls -> PCs]
    /\ result \in [Calls -> {"none", "exited", "terminated", "killed", "not started", "wait failed"}]
    /\ leader \in [Calls -> {"none", "running", "stuck", "ended", "reaped"}]
    /\ status \in [Calls -> {"none", "expected", "unexpected", "failure"}]
    /\ helper \in [Calls -> {"none", "group", "elsewhere"}]
    /\ signals \in [Calls -> 0 .. 2]
    /\ thread \in [Services -> {"none", "running", "ended", "panicked"}]
    /\ reply \in [Services -> {"none", "expected", "unexpected"}]
    /\ loop \in {"idle", "starting", "joining", "commands"}
    /\ todo \subseteq Services /\ handles \subseteq Services
    /\ \A s \in Services : Len(got[s]) <= 1
    /\ orders \in 0 .. 2 /\ degraded \in BOOLEAN
    /\ jobs \in [Workers -> 0 .. 3]
    /\ odd \in 0 .. MaxOdd

\* The reducer gets one result for each service, whatever threads failed to
\* start or panicked: a service that is left out would keep its last status.
OneResultEach ==
    loop = "commands" => \A s \in Services : Len(got[s]) = 1

\* A service is reported healthy only if its probe ended by itself, with
\* success and what was expected: a program that answers SIGTERM with status
\* 0 was too late.
HealthyIsTrue ==
    [][\A s \in Services : got'[s] = <<"healthy">> /\ got[s] = <<>> =>
        \/ kind[s] = "net" /\ reply[s] = "expected"
        \/ /\ kind[s] # "net"
           /\ leader[s] = "reaped" /\ signals[s] = 0
           /\ status[s] = "expected"]_vars

\* No signal is sent to a group whose leader was reaped, for its number may
\* be another's; and a call that returns has reaped the leader, unless it
\* could not wait for it.
OwnGroupOnly ==
    [][\A c \in Calls :
        /\ signals'[c] > signals[c] => leader[c] # "reaped"
        /\ pc[c] # "returned" /\ pc'[c] = "returned" /\ leader'[c] # "none"
                => leader'[c] = "reaped" \/ result'[c] = "wait failed"]_vars

\* Every call returns, unless it waits for the output of a helper that
\* SIGKILL does not reach or that nobody kills.
CallsEnd ==
    \A c \in Calls :
        pc[c] = "start" ~> \/ pc[c] = "returned"
                           \/ pc[c] = "collect" /\ helper[c] # "none"

=============================================================================
