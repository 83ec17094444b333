---------------------------- MODULE Exec_proofs ----------------------------
(***************************************************************************)
(* For any services, probes, workers and misbehaviour: the reducer gets    *)
(* one result for each service, healthy means healthy, and no signal goes  *)
(* to a group whose leader was reaped.  The inductive invariant says what  *)
(* each position of exec::run implies of the process behind it, and how    *)
(* far the probe cycle is with each service.                               *)
(***************************************************************************)
EXTENDS Exec, TLAPS

Results == {"none", "exited", "terminated", "killed", "not started", "wait failed"}
Ends == {"expected", "unexpected", "failure"}

\* The part of TypeOK the proofs need.
Typed ==
    /\ kind \in [Services -> Kinds]
    /\ pc \in [Calls -> PCs]
    /\ result \in [Calls -> Results]
    /\ leader \in [Calls -> {"none", "running", "stuck", "ended", "reaped"}]
    /\ status \in [Calls -> {"none"} \cup Ends]
    /\ signals \in [Calls -> Nat]
    /\ thread \in [Services -> {"none", "running", "ended", "panicked"}]
    /\ loop \in {"idle", "starting", "joining", "commands"}
    /\ todo \subseteq Services /\ handles \subseteq Services
    /\ got \in [Services -> Seq({"healthy", "unhealthy"})]

\* What a position of exec::run says of its process.
Call(c) ==
    /\ pc[c] \in {"idle", "start", "connect", "read"} =>
            leader[c] = "none" /\ signals[c] = 0 /\ result[c] = "none"
    /\ pc[c] = "poll" =>
            leader[c] \in {"running", "stuck", "ended"} /\ signals[c] = 0 /\ result[c] = "none"
    /\ pc[c] = "grace" => leader[c] \in {"running", "stuck", "ended"} /\ result[c] = "none"
    /\ pc[c] = "wait" => leader[c] = "ended" /\ result[c] = "none"
    /\ pc[c] = "collect" =>
            leader[c] = "reaped" /\ result[c] \in {"exited", "terminated", "killed"}
    /\ pc[c] = "returned" =>
            \/ result[c] = "none" /\ leader[c] = "none"
            \/ result[c] = "not started" /\ leader[c] = "none"
            \/ result[c] = "wait failed"
            \/ result[c] \in {"exited", "terminated", "killed"} /\ leader[c] = "reaped"
    /\ result[c] = "exited" => signals[c] = 0
    /\ leader[c] \in {"ended", "reaped"} => status[c] # "none"

\* Only programs of which the output is looked at end unexpectedly.
Unlooked(s) == status[s] = "unexpected" => kind[s] = "exec"

\* A thread that is over has a call that is over, and no thread has no call.
Thread(s) ==
    /\ thread[s] \in {"ended", "panicked"} => pc[s] = "returned"
    /\ s \notin handles => pc[s] = "idle" /\ thread[s] = "none"

\* A service has its result unless its turn is still to come.
Cycle ==
    /\ loop # "starting" => todo = {}
    /\ loop \in {"idle", "commands"} => handles = {}
    /\ todo \cap handles = {}
    /\ loop # "idle" =>
        \A s \in Services : Len(got[s]) = IF s \in todo \cup handles THEN 0 ELSE 1

Alls ==
    /\ \A c \in Calls : Call(c)
    /\ \A s \in Services : Unlooked(s) /\ Thread(s)

IInv == Typed /\ Alls /\ Cycle

-----------------------------------------------------------------------------

LEMMA CallsTyped ==
    /\ Services \subseteq Calls /\ Workers \subseteq Calls /\ Cmd \in Calls
    /\ \A s \in Services : s # Cmd /\ s \notin Workers
    /\ Configs \subseteq [Services -> Kinds]
BY ExecAssumption DEF Calls

LEMMA Signalled ==
    ASSUME NEW f \in [Calls -> Nat], NEW c \in Calls
    PROVE  [f EXCEPT ![c] = @ + 1] \in [Calls -> Nat]
OBVIOUS

LEMMA CallKept ==
    ASSUME NEW d \in Calls, Call(d),
           pc'[d] = pc[d], result'[d] = result[d], leader'[d] = leader[d],
           status'[d] = status[d], signals'[d] = signals[d]
    PROVE  Call(d)'
BY DEF Call

LEMMA InitInv == Init => IInv
<1> SUFFICES ASSUME Init PROVE IInv
  OBVIOUS
<1> USE CallsTyped DEF Init
<1>1. Typed
  BY DEF Typed, PCs, Results
<1>2. Alls
  BY DEF Alls, Call, Unlooked, Thread
<1>3. Cycle
  BY DEF Cycle
<1> QED
  BY <1>1, <1>2, <1>3 DEF IInv

\* exec::run touches the call it is about, and a service's call only while
\* its thread is at it.
LEMMA RunInv ==
    ASSUME IInv, NEW c \in Calls, Run(c)
    PROVE  IInv'
<1> USE CallsTyped DEF IInv
<1>1. Typed' /\ Call(c)' /\ pc[c] \notin {"idle", "returned"}
  <2> USE DEF Typed, Alls, Call, PCs, Results, Goto, Return, cycleVars
  <2>1. CASE Spawn(c)
    BY <2>1 DEF Spawn
  <2>2. CASE SpawnFails(c)
    BY <2>2 DEF SpawnFails
  <2>3. CASE PollExited(c)
    BY <2>3 DEF PollExited, Reap
  <2>4. CASE PollFails(c)
    BY <2>4 DEF PollFails
  <2>5. CASE Timeout(c)
    <3>1. signals' \in [Calls -> Nat]
      BY <2>5, Signalled DEF Timeout
    <3> QED
      BY <2>5, <3>1 DEF Timeout
  <2>6. CASE GraceExited(c)
    BY <2>6 DEF GraceExited, Reap
  <2>7. CASE GraceOver(c)
    <3>1. signals' \in [Calls -> Nat]
      BY <2>7, Signalled DEF GraceOver
    <3>2. status' \in [Calls -> {"none"} \cup Ends]
      BY <2>7 DEF GraceOver, Ends
    <3> QED
      BY <2>7, <3>1, <3>2 DEF GraceOver
  <2>8. CASE WaitReturns(c)
    BY <2>8 DEF WaitReturns, Reap
  <2>9. CASE Collected(c)
    BY <2>9 DEF Collected
  <2>10. CASE CollectedEnough(c)
    BY <2>10 DEF CollectedEnough
  <2> QED
    BY <2>1, <2>2, <2>3, <2>4, <2>5, <2>6, <2>7, <2>8, <2>9, <2>10 DEF Run
<1>2. /\ UNCHANGED <<kind, cycleVars>>
      /\ \A d \in Calls \ {c} :
            /\ pc'[d] = pc[d] /\ result'[d] = result[d] /\ leader'[d] = leader[d]
            /\ status'[d] = status[d] /\ signals'[d] = signals[d]
      /\ status'[c] \in {status[c], "failure"}
  BY DEF Run, Spawn, SpawnFails, PollExited, PollFails, Timeout, GraceExited, GraceOver,
         WaitReturns, Reap, Collected, CollectedEnough, Goto, Return, Typed
<1>3. Alls'
  <2>1. ASSUME NEW d \in Calls PROVE Call(d)'
    BY <1>1, <1>2 DEF Alls, Call
  <2>2. ASSUME NEW s \in Services PROVE Unlooked(s)' /\ Thread(s)'
    BY <1>1, <1>2 DEF Alls, Unlooked, Thread, cycleVars
  <2> QED
    BY <2>1, <2>2 DEF Alls
<1>4. Cycle'
  BY <1>2 DEF Cycle, cycleVars
<1> QED
  BY <1>1, <1>3, <1>4

LEMMA ProcessInv ==
    ASSUME IInv, NEW c \in Calls, Process(c)
    PROVE  IInv'
<1> USE CallsTyped DEF IInv
<1>1. /\ UNCHANGED <<kind, pc, result, signals, cycleVars>>
      /\ \A d \in Calls \ {c} : leader'[d] = leader[d] /\ status'[d] = status[d]
  BY DEF Process, LeaderEnds, LeaderStuck, StuckEnds, LeaderForks, HelperEnds, Typed
<1>2. /\ leader' \in [Calls -> {"none", "running", "stuck", "ended", "reaped"}]
      /\ status' \in [Calls -> {"none"} \cup Ends]
      /\ \/ leader'[c] = leader[c] /\ status'[c] = status[c]
         \/ /\ leader[c] \in {"running", "stuck"}
            /\ leader'[c] = "stuck" /\ status'[c] = status[c]
         \/ /\ leader[c] \in {"running", "stuck"}
            /\ leader'[c] = "ended" /\ status'[c] \in Outcomes(c) \cup {"failure"}
  <2> USE DEF Typed, Ends
  <2>1. CASE LeaderEnds(c)
    BY <2>1 DEF LeaderEnds, Outcomes
  <2>2. CASE LeaderStuck(c)
    BY <2>2 DEF LeaderStuck
  <2>3. CASE StuckEnds(c)
    BY <2>3 DEF StuckEnds
  <2>4. CASE LeaderForks(c) \/ HelperEnds(c)
    BY <2>4 DEF LeaderForks, HelperEnds
  <2> QED
    BY <2>1, <2>2, <2>3, <2>4 DEF Process
<1>3. Typed'
  BY <1>1, <1>2 DEF Typed, cycleVars
<1>4. Alls'
  <2>1. ASSUME NEW d \in Calls PROVE Call(d)'
    BY <1>1, <1>2 DEF Alls, Call, Outcomes
  <2>2. ASSUME NEW s \in Services PROVE Unlooked(s)' /\ Thread(s)'
    BY <1>1, <1>2 DEF Alls, Unlooked, Thread, cycleVars, Outcomes
  <2> QED
    BY <2>1, <2>2 DEF Alls
<1>5. Cycle'
  BY <1>1 DEF Cycle, cycleVars
<1> QED
  BY <1>3, <1>4, <1>5

\* A thread ends behind its call.
LEMMA ThreadInv ==
    ASSUME IInv, NEW s \in Services, ProbeThread(s)
    PROVE  IInv'
<1> USE CallsTyped DEF IInv
<1>1. /\ UNCHANGED <<kind, result, leader, status, signals, loop, todo, handles, got>>
      /\ \/ /\ pc[s] \in {"connect", "read"} /\ pc' \in [Calls -> PCs]
            /\ pc'[s] \in {"read", "returned"}
            /\ \A d \in Calls \ {s} : pc'[d] = pc[d]
            /\ thread' = thread
         \/ /\ pc[s] = "returned" /\ thread[s] = "running" /\ pc' = pc
            /\ \E t \in {"ended", "panicked"} : thread' = [thread EXCEPT ![s] = t]
  BY DEF ProbeThread, NetConnect, NetRead, ThreadEnds, ThreadPanics, Goto, callVars, cycleVars,
         Typed, PCs
<1>2. Typed'
  BY <1>1 DEF Typed
<1>3. Alls'
  <2>1. ASSUME NEW d \in Calls PROVE Call(d)'
    BY <1>1 DEF Alls, Call
  <2>2. ASSUME NEW d \in Services PROVE Unlooked(d)' /\ Thread(d)'
    BY <1>1 DEF Alls, Unlooked, Thread, Typed
  <2> QED
    BY <2>1, <2>2 DEF Alls
<1>4. Cycle'
  BY <1>1 DEF Cycle
<1> QED
  BY <1>2, <1>3, <1>4

LEMMA FirstOf ==
    ASSUME NEW S, S # {}
    PROVE  First(S) \in S
BY DEF First

\* What a call leaves behind when its caller has taken the result.
LEMMA DropClears ==
    ASSUME Typed, NEW c \in Calls, Drop(c)
    PROVE  /\ pc' \in [Calls -> PCs] /\ result' \in [Calls -> Results]
           /\ leader' \in [Calls -> {"none", "running", "stuck", "ended", "reaped"}]
           /\ status' \in [Calls -> {"none"} \cup Ends] /\ signals' \in [Calls -> Nat]
           /\ pc'[c] = "idle" /\ result'[c] = "none" /\ leader'[c] = "none"
           /\ status'[c] = "none" /\ signals'[c] = 0
           /\ \A d \in Calls \ {c} :
                /\ pc'[d] = pc[d] /\ result'[d] = result[d] /\ leader'[d] = leader[d]
                /\ status'[d] = status[d] /\ signals'[d] = signals[d]
BY DEF Typed, Drop, Goto, PCs, Results

LEMMA DropKeepsCalls ==
    ASSUME Typed, Alls, NEW c \in Calls, Drop(c), NEW d \in Calls
    PROVE  Call(d)'
<1>1. CASE d = c
  BY <1>1, DropClears DEF Call
<1>2. CASE d # c
  BY <1>2, DropClears, CallKept DEF Alls
<1> QED
  BY <1>1, <1>2

\* The probe cycle: threads are started, joined, and their results counted.
LEMMA CycleInv ==
    ASSUME IInv,
           \/ StartCycle \/ StartJoining \/ CycleReduced \/ CycleEnds
           \/ \E s \in Services : StartThreadFails(s)
    PROVE  IInv'
<1> USE CallsTyped DEF IInv
<1>1. UNCHANGED <<kind, callVars, thread, handles>>
  BY DEF StartCycle, StartJoining, CycleReduced, CycleEnds, StartThreadFails
<1>2. Alls'
  BY <1>1 DEF Alls, Call, Unlooked, Thread, callVars
<1>3. Typed' /\ Cycle'
  <2> USE <1>1 DEF callVars
  <2>1. CASE StartCycle
    BY <2>1 DEF StartCycle, Typed, Cycle
  <2>2. CASE StartJoining \/ CycleReduced \/ CycleEnds
    BY <2>2 DEF StartJoining, CycleReduced, CycleEnds, Typed, Cycle
  <2>3. ASSUME NEW s \in Services, StartThreadFails(s) PROVE Typed' /\ Cycle'
    <3>1. s \in todo /\ todo' = todo \ {s} /\ UNCHANGED <<loop, handles>>
      BY <2>3, FirstOf DEF StartThreadFails
    <3>2. got[s] \in Seq({"healthy", "unhealthy"}) /\ loop = "starting" /\ Len(got[s]) = 0
      BY <2>3, <3>1 DEF StartThreadFails, Typed, Cycle
    <3>3. got' = [got EXCEPT ![s] = Append(got[s], "unhealthy")]
      BY <2>3 DEF StartThreadFails
    <3>4. /\ Append(got[s], "unhealthy") \in Seq({"healthy", "unhealthy"})
          /\ Len(Append(got[s], "unhealthy")) = 1
      BY <3>2
    <3>5. got' \in [Services -> Seq({"healthy", "unhealthy"})]
      BY <3>3, <3>4 DEF Typed
    <3>6. Typed'
      BY <3>1, <3>5 DEF Typed
    <3>7. Cycle'
      BY <3>1, <3>2, <3>3, <3>4 DEF Cycle, Typed
    <3> QED
      BY <3>6, <3>7
  <2> QED
    BY <2>1, <2>2, <2>3
<1> QED
  BY <1>2, <1>3

LEMMA StartThreadInv ==
    ASSUME IInv, NEW s \in Services, StartThread(s)
    PROVE  IInv'
<1> USE CallsTyped DEF IInv
<1>1. s \in todo /\ s \notin handles /\ pc[s] = "idle"
  BY FirstOf DEF StartThread, Cycle, Alls, Thread
<1>2. /\ UNCHANGED <<kind, result, leader, status, signals, loop, got>>
      /\ todo' = todo \ {s} /\ handles' = handles \cup {s}
      /\ thread' = [thread EXCEPT ![s] = "running"]
      /\ pc' \in [Calls -> PCs] /\ pc'[s] \in {"connect", "start"}
      /\ \A d \in Calls \ {s} : pc'[d] = pc[d]
  BY DEF StartThread, Goto, Typed, PCs
<1>3. Typed'
  BY <1>1, <1>2 DEF Typed
<1>4. Alls'
  <2>1. ASSUME NEW d \in Calls PROVE Call(d)'
    BY <1>1, <1>2 DEF Alls, Call
  <2>2. ASSUME NEW d \in Services PROVE Unlooked(d)' /\ Thread(d)'
    BY <1>1, <1>2 DEF Alls, Unlooked, Thread, Typed
  <2> QED
    BY <2>1, <2>2 DEF Alls
<1>5. Cycle'
  BY <1>1, <1>2 DEF Cycle, StartThread
<1> QED
  BY <1>3, <1>4, <1>5

LEMMA JoinInv ==
    ASSUME IInv, NEW s \in Services, Join(s)
    PROVE  IInv'
<1> USE CallsTyped DEF IInv
<1>1. s \in handles /\ handles' = handles \ {s} /\ loop = "joining" /\ Drop(s)
      /\ UNCHANGED <<kind, loop, todo>> /\ thread' = [thread EXCEPT ![s] = "none"]
  BY FirstOf DEF Join
<1>2. PICK r \in {"healthy", "unhealthy"} : got' = [got EXCEPT ![s] = Append(got[s], r)]
  BY DEF Join
<1>3. got[s] \in Seq({"healthy", "unhealthy"}) /\ Len(got[s]) = 0
  BY <1>1 DEF Typed, Cycle
<1>4. /\ Append(got[s], r) \in Seq({"healthy", "unhealthy"})
      /\ Len(Append(got[s], r)) = 1
  BY <1>3
<1>5. got' \in [Services -> Seq({"healthy", "unhealthy"})]
  BY <1>2, <1>4 DEF Typed
<1>6. Typed'
  BY <1>1, <1>5, DropClears DEF Typed
<1>7. Alls'
  <2>1. ASSUME NEW d \in Calls PROVE Call(d)'
    BY <1>1, DropKeepsCalls
  <2>2. ASSUME NEW d \in Services PROVE Unlooked(d)' /\ Thread(d)'
    BY <1>1, DropClears DEF Alls, Unlooked, Thread, Typed
  <2> QED
    BY <2>1, <2>2 DEF Alls
<1>8. Cycle'
  BY <1>1, <1>2, <1>4 DEF Cycle, Typed
<1> QED
  BY <1>6, <1>7, <1>8

\* The calls of the control loop and of the workers.
LEMMA CallersInv ==
    ASSUME IInv,
           StartOrder \/ OrderEnds \/ \E w \in Workers : Worker(w)
    PROVE  IInv'
<1> USE CallsTyped DEF IInv
<1>1. /\ UNCHANGED <<kind, thread, loop, todo, handles, got>>
      /\ \/ UNCHANGED callVars
         \/ \E c \in Calls \ Services :
                /\ pc[c] = "idle" /\ pc' = [pc EXCEPT ![c] = "start"]
                /\ UNCHANGED <<result, leader, status, signals>>
         \/ \E c \in Calls \ Services : Drop(c)
  <2>1. Cmd \in Calls \ Services /\ Workers \subseteq Calls \ Services
    BY CallsTyped
  <2>2. CASE StartOrder \/ OrderEnds
    BY <2>1, <2>2 DEF StartOrder, OrderEnds, Goto, cycleVars
  <2>3. ASSUME NEW w \in Workers, Worker(w) PROVE <1>1!1 /\ <1>1!2
    BY <2>1, <2>3 DEF Worker, StartWorker, StartWorkerFails, WorkerCalls, WorkerGoesOn, Goto,
                      cycleVars
  <2> QED
    BY <2>2, <2>3
<1>2. Cycle'
  BY <1>1 DEF Cycle
<1>3. CASE UNCHANGED callVars
  BY <1>1, <1>2, <1>3 DEF Typed, Alls, Call, Unlooked, Thread, callVars
<1>4. ASSUME NEW c \in Calls \ Services, pc[c] = "idle", pc' = [pc EXCEPT ![c] = "start"],
             UNCHANGED <<result, leader, status, signals>>
      PROVE  Typed' /\ Alls'
  <2>1. Typed'
    BY <1>1, <1>4 DEF Typed, PCs
  <2>2. ASSUME NEW d \in Calls PROVE Call(d)'
    BY <1>4 DEF Alls, Call, Typed
  <2>3. ASSUME NEW d \in Services PROVE Unlooked(d)' /\ Thread(d)'
    BY <1>1, <1>4 DEF Alls, Unlooked, Thread, Typed
  <2> QED
    BY <2>1, <2>2, <2>3 DEF Alls
<1>5. ASSUME NEW c \in Calls \ Services, Drop(c)
      PROVE  Typed' /\ Alls'
  <2>1. Typed'
    BY <1>1, <1>5, DropClears DEF Typed
  <2>2. ASSUME NEW d \in Calls PROVE Call(d)'
    BY <1>5, DropKeepsCalls
  <2>3. ASSUME NEW d \in Services PROVE Unlooked(d)' /\ Thread(d)'
    BY <1>1, <1>5, DropClears DEF Alls, Unlooked, Thread
  <2> QED
    BY <2>1, <2>2, <2>3 DEF Alls
<1> QED
  BY <1>1, <1>2, <1>3, <1>4, <1>5

LEMMA StepInv == IInv /\ [Next]_vars => IInv'
<1> SUFFICES ASSUME IInv, [Next]_vars PROVE IInv'
  OBVIOUS
<1>1. CASE UNCHANGED vars
  BY <1>1 DEF vars, callVars, cycleVars, IInv, Typed, Alls, Call, Unlooked, Thread, Cycle
<1>2. CASE Next
  BY <1>2, RunInv, ProcessInv, ThreadInv, CycleInv, StartThreadInv, JoinInv, CallersInv
     DEF Next, ControlLoop
<1> QED
  BY <1>1, <1>2

\* What each position of a call and of the probe cycle implies.
THEOREM CallsInductive == Spec => []IInv
BY InitInv, StepInv, PTL DEF Spec

\* run_probes: whatever threads fail to start or panic, the reducer gets one
\* result for each service.
THEOREM OneResultForEach == Spec => []OneResultEach
<1>1. IInv => OneResultEach
  BY DEF IInv, Cycle, OneResultEach
<1> QED
  BY <1>1, CallsInductive, PTL

\* run_probe, check_exec and check_systemd: healthy means that the probe ended
\* by itself, in time, with success and what was expected.
THEOREM HealthyMeansHealthy == Spec => HealthyIsTrue
<1> DEFINE A == \A s \in Services : got'[s] = <<"healthy">> /\ got[s] = <<>> =>
        \/ kind[s] = "net" /\ reply[s] = "expected"
        \/ /\ kind[s] # "net"
           /\ leader[s] = "reaped" /\ signals[s] = 0
           /\ status[s] = "expected"
<1>1. ASSUME IInv, [Next]_vars PROVE [A]_vars
  <2> USE <1>1, CallsTyped DEF IInv
  <2> SUFFICES ASSUME NEW s \in Services, got'[s] = <<"healthy">>, got[s] = <<>>
      PROVE  \/ kind[s] = "net" /\ reply[s] = "expected"
             \/ /\ kind[s] # "net"
                /\ leader[s] = "reaped" /\ signals[s] = 0
                /\ status[s] = "expected"
    OBVIOUS
  <2>1. got'[s] # got[s]
    OBVIOUS
  <2>2. ~StartCycle /\ \A t \in Services : ~StartThreadFails(t)
    <3>1. CASE StartCycle
      BY <3>1 DEF StartCycle
    <3>2. ASSUME NEW t \in Services, StartThreadFails(t) PROVE FALSE
      <4>1. got'[s] = Append(got[s], "unhealthy")
        BY <2>1, <3>2 DEF StartThreadFails, Typed
      <4> QED
        BY <4>1
    <3> QED
      BY <3>1, <3>2
  <2>3. \E t \in Services : Join(t)
    BY <2>1, <2>2 DEF Next, Run, Spawn, SpawnFails, PollExited, PollFails, Timeout,
        GraceExited, GraceOver, WaitReturns, Reap, Collected, CollectedEnough, Process,
        LeaderEnds, LeaderStuck, StuckEnds, LeaderForks, HelperEnds, ProbeThread, NetConnect,
        NetRead, ThreadEnds, ThreadPanics, ControlLoop, StartThread, StartJoining,
        CycleReduced, StartOrder, OrderEnds, CycleEnds, Worker, StartWorker,
        StartWorkerFails, WorkerCalls, WorkerGoesOn, vars, cycleVars
  <2>4. PICK t \in Services : Join(t)
    BY <2>3
  <2>5. s = t
    BY <2>1, <2>4 DEF Join, Typed
  <2>6. thread[s] = "ended" /\ Healthy(s)
    <3>1. got'[s] = Append(<<>>, IF thread[s] = "ended" /\ Healthy(s)
                                 THEN "healthy" ELSE "unhealthy")
      BY <2>4, <2>5 DEF Join, Typed
    <3> QED
      BY <3>1
  <2>7. pc[s] = "returned" /\ Call(s) /\ Unlooked(s)
    BY <2>6 DEF Alls, Thread
  <2>8. CASE kind[s] = "net"
    BY <2>6, <2>8 DEF Healthy
  <2>9. CASE kind[s] # "net"
    <3>1. kind[s] \in {"exec", "systemd"}
      BY <2>9 DEF Typed, Kinds
    <3>2. ExitCode(s) = 0 /\ (kind[s] = "exec" => status[s] = "expected")
      BY <2>6, <3>1 DEF Healthy
    <3>3. result[s] = "exited" /\ status[s] # "failure"
      BY <3>2 DEF ExitCode
    <3> QED
      BY <2>7, <2>9, <3>1, <3>2, <3>3 DEF Call, Unlooked, Typed, Ends
  <2> QED
    BY <2>8, <2>9
<1>2. IInv /\ [Next]_vars => [A]_vars
  BY <1>1
<1> QED
  BY <1>2, CallsInductive, PTL DEF Spec, HealthyIsTrue

\* kill_child: a group is signalled only while its leader is not reaped, and
\* exec::run returns with a reaped leader unless it could not wait for it.
THEOREM OwnGroupOnlySignalled == Spec => OwnGroupOnly
<1> DEFINE A(c) ==
        /\ signals'[c] > signals[c] => leader[c] # "reaped"
        /\ pc[c] # "returned" /\ pc'[c] = "returned" /\ leader'[c] # "none"
                => leader'[c] = "reaped" \/ result'[c] = "wait failed"
<1>1. ASSUME IInv, [Next]_vars, NEW c \in Calls PROVE A(c)
  <2> USE <1>1, CallsTyped DEF IInv
  <2>a. ~(signals[c] > signals[c]) /\ ~(0 > signals[c])
    <3>1. signals[c] \in Nat
      BY DEF Typed
    <3> QED
      BY <3>1
  <2>1. CASE UNCHANGED <<pc, signals>>
    BY <2>a, <2>1
  <2>2. ASSUME NEW d \in Calls, Run(d) PROVE A(c)
    <3>1. CASE c = d
      <4>1. IInv'
        BY RunInv, <2>2
      <4>2. pc'[c] = "returned" =>
                \/ leader'[c] = "none" \/ leader'[c] = "reaped" \/ result'[c] = "wait failed"
        BY <4>1 DEF Alls, Call
      <4>3. UNCHANGED signals \/ pc[c] \in {"poll", "grace"}
        BY <2>2, <3>1 DEF Run, Spawn, SpawnFails, PollExited, PollFails, Timeout, GraceExited,
               GraceOver, WaitReturns, Reap, Collected, CollectedEnough
      <4>4. pc[c] \in {"poll", "grace"} => leader[c] # "reaped"
        BY DEF Alls, Call
      <4> QED
        BY <2>a, <4>2, <4>3, <4>4
    <3>2. CASE c # d
      <4>1. pc'[c] = pc[c] /\ signals'[c] = signals[c]
        BY <2>2, <3>2 DEF Run, Spawn, SpawnFails, PollExited, PollFails, Timeout, GraceExited,
               GraceOver, WaitReturns, Reap, Collected, CollectedEnough, Goto, Return, Typed
      <4> QED
        BY <2>a, <4>1
    <3> QED
      BY <3>1, <3>2
  <2>3. ASSUME NEW s \in Services, ProbeThread(s) PROVE A(c)
    <3>1. IInv' /\ UNCHANGED signals
      BY ThreadInv, <2>3 DEF ProbeThread, NetConnect, NetRead, ThreadEnds, ThreadPanics, callVars
    <3>2. pc'[c] = "returned" =>
              \/ leader'[c] = "none" \/ leader'[c] = "reaped" \/ result'[c] = "wait failed"
      BY <3>1 DEF Alls, Call
    <3> QED
      BY <2>a, <3>1, <3>2
  <2>4. ASSUME NEW d \in Calls, Drop(d) PROVE A(c)
    <3>1. CASE c = d
      <4>1. pc'[c] = "idle" /\ signals'[c] = 0
        BY <2>4, <3>1, DropClears
      <4> QED
        BY <2>a, <4>1
    <3>2. CASE c # d
      <4>1. pc'[c] = pc[c] /\ signals'[c] = signals[c]
        BY <2>4, <3>2, DropClears
      <4> QED
        BY <2>a, <4>1
    <3> QED
      BY <3>1, <3>2
  <2>5. ASSUME NEW d \in Calls, NEW label \in {"start", "connect"},
               Goto(d, label), UNCHANGED signals
        PROVE  A(c)
    <3>1. pc'[c] \in {pc[c], label}
      BY <2>5 DEF Goto, Typed
    <3> QED
      BY <2>a, <2>5, <3>1
  <2>6. CASE ControlLoop
    <3>1. CASE \E s \in Services : Join(s)
      BY <2>4, <3>1 DEF Join
    <3>2. CASE OrderEnds
      BY <2>4, <3>2 DEF OrderEnds
    <3>3. CASE StartOrder \/ \E s \in Services : StartThread(s)
      BY <2>5, <3>3 DEF StartOrder, StartThread
    <3>4. CASE \/ StartCycle \/ StartJoining \/ CycleReduced \/ CycleEnds
               \/ \E s \in Services : StartThreadFails(s)
      BY <2>1, <3>4 DEF StartCycle, StartJoining, CycleReduced, CycleEnds, StartThreadFails,
             callVars
    <3> QED
      BY <2>6, <3>1, <3>2, <3>3, <3>4 DEF ControlLoop
  <2>7. ASSUME NEW w \in Workers, Worker(w) PROVE A(c)
    <3>1. CASE WorkerGoesOn(w)
      BY <2>4, <3>1 DEF WorkerGoesOn
    <3>2. CASE WorkerCalls(w)
      BY <2>5, <3>2 DEF WorkerCalls
    <3>3. CASE StartWorker(w) \/ StartWorkerFails(w)
      BY <2>1, <3>3 DEF StartWorker, StartWorkerFails, callVars
    <3> QED
      BY <2>7, <3>1, <3>2, <3>3 DEF Worker
  <2>8. ASSUME NEW d \in Calls, Process(d) PROVE A(c)
    BY <2>1, <2>8 DEF Process, LeaderEnds, LeaderStuck, StuckEnds, LeaderForks, HelperEnds
  <2>9. CASE UNCHANGED vars
    BY <2>1, <2>9 DEF vars, callVars
  <2> QED
    BY <2>2, <2>3, <2>6, <2>7, <2>8, <2>9 DEF Next
<1>2. IInv /\ [Next]_vars => [\A c \in Calls : A(c)]_vars
  BY <1>1
<1> QED
  BY <1>2, CallsInductive, PTL DEF Spec, OwnGroupOnly
=============================================================================
