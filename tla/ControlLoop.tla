---------------------------- MODULE ControlLoop ----------------------------
(***************************************************************************)
(* The control loop in time (run_control_loop): its start, its turns, the  *)
(* tasks that fall due, what it publishes for GET /health, and the         *)
(* watchdog of systemd that kills it when it is not heard of.              *)
(*                                                                         *)
(* The loop executes commands itself, so that a turn takes as long as they *)
(* do.  Their effects are in the other modules; here a step of work takes  *)
(* time, may fail, and may never end (Exec tells how).                     *)
(*                                                                         *)
(* Intervals run on the monotonic clock (now), schedules and the age of    *)
(* the snapshot on the wall clock (now + skew), which may be set.  Days do *)
(* not wrap as days of a month do: the marks are days, and the horizon is  *)
(* within a month.                                                         *)
(***************************************************************************)
EXTENDS Integers, Sequences

CONSTANTS
    Scheduled,          \* tasks of check_daily_schedules
    Days, At,           \* on which days, and at which time of the day
    BackupDays,         \* config.backup.schedule; on no day if it cannot be
    BackupAt,           \* parsed
    DayLength, Window,  \* is_due: five minutes
    StartupDelay, RecoveryInterval, DiskInterval,
    WatchdogInterval, WatchdogSec,
    Stale, ProbeStale,  \* health_response: 30 and 600 seconds
    RecvTimeout,        \* the wait for an event
    StartTimeout,       \* of systemd
    None,
    Triggers,           \* bound: what arrives from outside
    ClockSteps,         \* bound: how the wall clock is set
    MaxBusy,            \* bound: the length of a step of work
    MaxTime,            \* bound: the time considered
    MaxInputs,          \* bound: events from outside and settings of the clock
    MaxFaults           \* bound: hangs and crashes

Backup == "backup"
Recovery == "recovery"
DiskMonitor == "disk monitor"

\* The steps of work: the probes of all services; the commands that follow from
\* their results, WATCHDOG=1 the last of them; other commands.
Steps == {"probes", "restarts", "commands"}

\* A turn serves the watchdog after a recovery among its tasks, and at its end:
\* a recovery that an event asks for, and a completion nobody waits for, serve
\* it with the last command of the turn.
TurnLimit == 2 * WatchdogSec

\* What GET /health reads, with the instant at which it was published.
Snapshots == [wall : Int, probed : Int \cup {None}, degraded : BOOLEAN,
              shuttingDown : BOOLEAN, at : Int]

ASSUME ControlLoopAssumption ==
    /\ Days \in [Scheduled -> SUBSET Nat] /\ At \in [Scheduled -> Nat]
    /\ BackupDays \subseteq Nat /\ BackupAt \in Nat
    /\ {DayLength, Window, WatchdogInterval, RecoveryInterval} \subseteq Nat \ {0}
    /\ {StartupDelay, DiskInterval, Stale, ProbeStale, RecvTimeout, StartTimeout,
        MaxBusy, MaxTime, MaxInputs, MaxFaults} \subseteq Nat
    /\ WatchdogSec = 2 * WatchdogInterval
    /\ ClockSteps \subseteq Int
    /\ None \notin Int \cup Snapshots
    /\ Recovery \notin Scheduled /\ DiskMonitor \notin Scheduled

\* In the code, in seconds: windows of 300, WatchdogSec = 30, a startup delay
\* of 120, recoveries every 300; health_response allows 600 for a cycle.
ASSUME TimingAssumption ==
    /\ TurnLimit <= Window
    /\ \A period \in {StartupDelay, RecoveryInterval} :
            period + 4 * WatchdogSec <= ProbeStale + 1

VARIABLES
    now, skew,
    pc,             \* where the loop is; "down" and "stopped": no process
    work, left,     \* steps of work ahead, and the time the first one takes
    hung,           \* that one never ends
    queue,          \* the event channel
    readyAt,        \* start_instant
    lastRecovery, lastDisk,
    lastWatchdog,   \* when the loop last served the watchdog at the end of a turn
    heardAt,        \* when systemd last heard of the process
    mark,           \* last_*_day of the scheduled tasks
    backupIdle,     \* the phase of the backup is Idle
    probed,         \* last_probe_cycle_mono
    degraded, shuttingDown,
    snapshot,       \* what GET /health reads
    inputs, faults,
    \* observers
    turnedAt,       \* when the turn, or the start, began
    busySince,      \* when the list of commands, or the wait, in progress began
    failedAt,       \* when a command of this process first failed
    setAt,          \* when the wall clock was last set
    endedAt         \* when a backup last ended

schedVars == <<readyAt, lastRecovery, lastDisk, mark>>
dogVars == <<lastWatchdog, heardAt>>
stateVars == <<backupIdle, probed, degraded, shuttingDown>>
vars == <<now, skew, pc, work, left, hung, queue, schedVars, dogVars, stateVars,
          snapshot, inputs, faults, turnedAt, busySince, failedAt, setAt, endedAt>>

Wall == now + skew
Day(w) == w \div DayLength
TimeOfDay(w) == w % DayLength

Up == pc \notin {"down", "stopped"}

-----------------------------------------------------------------------------

Init ==
    /\ now = 0 /\ skew = 0
    /\ pc = "down"
    /\ work = <<>> /\ left = 0 /\ hung = FALSE
    /\ queue = <<>>
    /\ readyAt = 0 /\ lastRecovery = 0 /\ lastDisk = 0
    /\ lastWatchdog = 0 /\ heardAt = 0
    /\ mark = [t \in Scheduled |-> None]
    /\ backupIdle = TRUE /\ probed = None
    /\ degraded = FALSE /\ shuttingDown = FALSE
    /\ snapshot = None
    /\ inputs = 0 /\ faults = 0
    /\ turnedAt = 0 /\ busySince = 0 /\ failedAt = None /\ setAt = None /\ endedAt = None

-----------------------------------------------------------------------------
(* Work: probes of all services in parallel, or commands one by one *)

\* steps are ahead of the loop, which goes on at label
Work(steps, label) ==
    /\ pc' = label
    /\ work' = steps
    /\ IF steps = <<>> THEN left' = 0 ELSE left' \in 0 .. MaxBusy

\* (mutant) handle_startup_probes does not count as a cycle
StepDoneUncounted ==
    /\ work # <<>> /\ left = 0 /\ ~hung
    /\ probed' = IF Head(work) = "probes" /\ pc # "starting" THEN now ELSE probed
    /\ heardAt' = IF Head(work) = "restarts" THEN now ELSE heardAt
    /\ \/ UNCHANGED <<degraded, failedAt>>
       \/ /\ degraded' = TRUE
          /\ failedAt' = IF failedAt = None THEN now ELSE failedAt
    /\ Work(Tail(work), pc)
    /\ UNCHANGED <<now, skew, hung, queue, schedVars, lastWatchdog, backupIdle, shuttingDown,
                   snapshot, inputs, faults, turnedAt, busySince, setAt, endedAt>>

\* The first step is done; the results of probes are reduced at its end, and
\* the commands that follow from them end with NotifyWatchdog, of which
\* last_watchdog does not know.  A failure makes the runtime degraded.
StepDone ==
    /\ work # <<>> /\ left = 0 /\ ~hung
    /\ probed' = IF Head(work) = "probes" THEN now ELSE probed
    /\ heardAt' = IF Head(work) = "restarts" THEN now ELSE heardAt
    /\ \/ UNCHANGED <<degraded, failedAt>>
       \/ /\ degraded' = TRUE
          /\ failedAt' = IF failedAt = None THEN now ELSE failedAt
    /\ Work(Tail(work), pc)
    /\ UNCHANGED <<now, skew, hung, queue, schedVars, lastWatchdog, backupIdle, shuttingDown,
                   snapshot, inputs, faults, turnedAt, busySince, setAt, endedAt>>

\* It never ends: a system call, or a helper that holds a pipe.
Hang ==
    /\ work # <<>> /\ ~hung /\ faults < MaxFaults
    /\ hung' = TRUE
    /\ faults' = faults + 1
    /\ UNCHANGED <<now, skew, pc, work, left, queue, schedVars, dogVars, stateVars,
                   snapshot, inputs, turnedAt, busySince, failedAt, setAt, endedAt>>

-----------------------------------------------------------------------------
(* The start *)

\* A new process: what an interrupted backup left is compensated, then all
\* services are probed.
Start ==
    /\ ~Up
    /\ \E steps \in {<<"probes">>, <<"commands", "probes">>} : Work(steps, "starting")
    /\ hung' = FALSE /\ queue' = <<>>
    /\ mark' = [t \in Scheduled |-> None]
    /\ backupIdle' = TRUE /\ probed' = None
    /\ degraded' = FALSE /\ shuttingDown' = FALSE
    /\ snapshot' = None
    /\ turnedAt' = now /\ busySince' = now /\ failedAt' = None
    /\ readyAt' = now /\ lastRecovery' = now /\ lastDisk' = now
    /\ lastWatchdog' = now /\ heardAt' = now /\ endedAt' = None
    /\ UNCHANGED <<now, skew, inputs, faults, setAt>>

Published ==
    [wall |-> Wall, probed |-> probed, degraded |-> degraded,
     shuttingDown |-> shuttingDown, at |-> now]

\* (mutant) only the heartbeat is refreshed
PublishHeartbeat ==
    snapshot' = IF snapshot = None THEN Published
                ELSE [snapshot EXCEPT !.wall = Wall, !.at = now, !.probed = probed]

Publish == snapshot' = Published

\* READY=1, and the instants from which the intervals are counted.
Ready ==
    /\ pc = "starting" /\ work = <<>>
    /\ Publish
    /\ readyAt' = now /\ lastRecovery' = now /\ lastDisk' = now
    /\ lastWatchdog' = now /\ heardAt' = now
    /\ pc' = "turn" /\ turnedAt' = now /\ busySince' = now
    /\ UNCHANGED <<now, skew, work, left, hung, queue, mark, stateVars, inputs, faults,
                   failedAt, setAt, endedAt>>

-----------------------------------------------------------------------------
(* A turn *)

\* The window of a schedule, on its days.
InWindow(days, at) ==
    Day(Wall) \in days /\ TimeOfDay(Wall) \in at .. at + Window - 1

\* (mutant) the window ends as it begins
IsDueOnTheMinute(t) ==
    /\ Day(Wall) \in Days[t]
    /\ TimeOfDay(Wall) = At[t]
    /\ mark[t] # Day(Wall)

IsDue(t) == InWindow(Days[t], At[t]) /\ mark[t] # Day(Wall)

DueTasks ==
    IF now - readyAt < StartupDelay THEN {}
    ELSE {t \in Scheduled : IsDue(t)}
            \cup (IF now - lastRecovery >= RecoveryInterval THEN {Recovery} ELSE {})
            \cup (IF now - lastDisk >= DiskInterval THEN {DiskMonitor} ELSE {})

\* should_start looks at the phase, and at the schedule of the configuration:
\* check_daily_schedules has looked at one of its own.
BackupStarts ==
    backupIdle /\ InWindow(BackupDays, BackupAt) /\ mark[Backup] # Day(Wall)

\* handle_tick: a sample of the disk goes through the channel, a backup that
\* does not start leaves no mark.
Ticked(tasks) ==
    LET starts == Backup \in tasks /\ BackupStarts
    IN  /\ mark' = [t \in Scheduled |->
                        IF t \in tasks /\ (t = Backup => starts) THEN Day(Wall) ELSE mark[t]]
        /\ backupIdle' = (backupIdle /\ ~starts)

WorkOf(tasks) ==
    (IF Recovery \in tasks THEN <<"probes", "restarts">> ELSE <<>>)
        \o (IF Backup \in tasks /\ BackupStarts THEN <<"commands">> ELSE <<>>)

Sampled(tasks, events) ==
    IF DiskMonitor \in tasks THEN Append(events, "sample") ELSE events

Turn ==
    /\ pc = "turn"
    /\ LET due == DueTasks
       IN  /\ lastRecovery' = IF Recovery \in due THEN now ELSE lastRecovery
           /\ lastDisk' = IF DiskMonitor \in due THEN now ELSE lastDisk
           /\ Ticked(due)
           /\ queue' = Sampled(due, queue)
           /\ Work(WorkOf(due), "tasks")
    /\ UNCHANGED <<now, skew, hung, readyAt, dogVars, probed, degraded, shuttingDown, snapshot,
                   inputs, faults, turnedAt, busySince, failedAt, setAt, endedAt>>

\* recv_timeout follows.
TasksDone ==
    /\ pc = "tasks" /\ work = <<>>
    /\ Publish
    /\ pc' = "recv" /\ left' = RecvTimeout
    /\ busySince' = now
    /\ UNCHANGED <<now, skew, work, hung, queue, schedVars, dogVars, stateVars,
                   inputs, faults, turnedAt, failedAt, setAt, endedAt>>

\* A trigger is a tick of one task, outside of its window; the completion of
\* restic, or an order of an operator, is commands to execute; a completion
\* nobody waits for is WATCHDOG=1.
Receive ==
    /\ pc = "recv" /\ queue # <<>>
    /\ LET event == Head(queue)
           tasks == {event} \cap (Scheduled \cup {Recovery, DiskMonitor})
       IN  /\ IF event = "completed"
              THEN backupIdle' = TRUE /\ mark' = mark /\ endedAt' = now
              ELSE Ticked(tasks) /\ UNCHANGED endedAt
           /\ queue' = Sampled(tasks, Tail(queue))
           /\ shuttingDown' = (shuttingDown \/ event = "shutdown")
           /\ heardAt' = IF event = "unawaited" THEN now ELSE heardAt
           /\ Work(IF event \in {"completed", "remediate"} THEN <<"commands">>
                   ELSE WorkOf(tasks), "event")
    /\ busySince' = now
    /\ UNCHANGED <<now, skew, hung, readyAt, lastRecovery, lastDisk, lastWatchdog, probed,
                   degraded, snapshot, inputs, faults, turnedAt, failedAt, setAt>>

\* (mutant) should_send_watchdog asks for more than the interval
EndTurnLate ==
    /\ pc' = "turn" /\ turnedAt' = now /\ busySince' = now
    /\ IF now - lastWatchdog > WatchdogInterval
       THEN lastWatchdog' = now /\ heardAt' = now
       ELSE UNCHANGED dogVars

\* should_send_watchdog: WATCHDOG=1 when half of WatchdogSec has gone by since
\* the last one that was sent here.
EndTurn ==
    /\ pc' = "turn" /\ turnedAt' = now /\ busySince' = now
    /\ IF now - lastWatchdog >= WatchdogInterval
       THEN lastWatchdog' = now /\ heardAt' = now
       ELSE UNCHANGED dogVars

NothingReceived ==
    /\ pc = "recv" /\ queue = <<>> /\ left = 0
    /\ EndTurn
    /\ UNCHANGED <<now, skew, work, left, hung, queue, schedVars, stateVars, snapshot, inputs,
                   faults, failedAt, setAt, endedAt>>

EventDone ==
    /\ pc = "event" /\ work = <<>> /\ ~shuttingDown
    /\ EndTurn
    /\ UNCHANGED <<now, skew, work, left, hung, queue, schedVars, stateVars, snapshot, inputs,
                   faults, failedAt, setAt, endedAt>>

\* The loop ends, and with it the process.
LoopEnds ==
    /\ pc = "event" /\ work = <<>> /\ shuttingDown
    /\ Publish
    /\ pc' = "stopped"
    /\ UNCHANGED <<now, skew, work, left, hung, queue, schedVars, dogVars, stateVars,
                   inputs, faults, turnedAt, busySince, failedAt, setAt, endedAt>>

-----------------------------------------------------------------------------
(* The surroundings *)

\* restic answers once for each run.
Input ==
    /\ Up /\ inputs < MaxInputs
    /\ inputs' = inputs + 1
    /\ \E e \in Triggers \cup (IF backupIdle THEN {} ELSE {"completed"}) :
            queue' = Append(queue, e)
    /\ UNCHANGED <<now, skew, pc, work, left, hung, schedVars, dogVars, stateVars,
                   snapshot, faults, turnedAt, busySince, failedAt, setAt, endedAt>>

Killed ==
    /\ pc' = "down"
    /\ work' = <<>> /\ left' = 0
    /\ UNCHANGED <<now, skew, hung, queue, schedVars, dogVars, stateVars, snapshot,
                   inputs, turnedAt, busySince, failedAt, setAt, endedAt>>

Unheard == Up /\ pc # "starting" /\ now - heardAt >= WatchdogSec

WatchdogKills == Unheard /\ Killed /\ UNCHANGED faults

LateStart == pc = "starting" /\ now - turnedAt >= StartTimeout

StartKilled == LateStart /\ Killed /\ UNCHANGED faults

Crash == Up /\ faults < MaxFaults /\ Killed /\ faults' = faults + 1

SetClock ==
    /\ inputs < MaxInputs
    /\ inputs' = inputs + 1
    /\ \E d \in ClockSteps :
        /\ Wall + d >= 0
        /\ skew' = skew + d
    /\ setAt' = now
    /\ UNCHANGED <<now, pc, work, left, hung, queue, schedVars, dogVars, stateVars,
                   snapshot, faults, turnedAt, busySince, failedAt, endedAt>>

\* The loop takes time only for its work and when it waits for events.
Idling ==
    \/ ~Up
    \/ hung
    \/ left > 0 /\ ~(pc = "recv" /\ queue # <<>>)

Tick ==
    /\ now < MaxTime
    /\ Idling /\ ~Unheard /\ ~LateStart
    /\ now' = now + 1
    /\ left' = IF left > 0 /\ ~hung THEN left - 1 ELSE left
    /\ UNCHANGED <<skew, pc, work, hung, queue, schedVars, dogVars, stateVars, snapshot,
                   inputs, faults, turnedAt, busySince, failedAt, setAt, endedAt>>

Next ==
    \/ Start \/ Ready \/ Turn \/ TasksDone \/ Receive \/ NothingReceived
    \/ EventDone \/ LoopEnds
    \/ StepDone \/ Hang
    \/ Input \/ WatchdogKills \/ StartKilled \/ Crash \/ SetClock \/ Tick

Spec == Init /\ [][Next]_vars

-----------------------------------------------------------------------------
(* GET /health *)

\* (mutant) the age of the snapshot is not looked at
HealthUnaged ==
    IF snapshot = None THEN "stale_snapshot"
    ELSE IF snapshot.probed = None \/ now - snapshot.probed > ProbeStale
         THEN "stale_health_cycle"
    ELSE IF snapshot.shuttingDown THEN "shutting_down"
    ELSE IF snapshot.degraded THEN "degraded"
    ELSE "ok"

\* health_response; the ages do not go below 0.  (The outbox, whose flag it
\* reads too, is in Notifier.)
Health ==
    IF snapshot = None \/ Wall - snapshot.wall > Stale THEN "stale_snapshot"
    ELSE IF snapshot.probed = None \/ now - snapshot.probed > ProbeStale
         THEN "stale_health_cycle"
    ELSE IF snapshot.shuttingDown THEN "shutting_down"
    ELSE IF snapshot.degraded THEN "degraded"
    ELSE "ok"

-----------------------------------------------------------------------------
(* Properties *)

TypeOK ==
    /\ now \in Nat /\ skew \in Int
    /\ pc \in {"down", "starting", "turn", "tasks", "recv", "event", "stopped"}
    /\ work \in Seq(Steps) /\ left \in Nat /\ hung \in BOOLEAN
    /\ {readyAt, lastRecovery, lastDisk, lastWatchdog, heardAt, turnedAt, busySince} \subseteq 0 .. now
    /\ mark \in [Scheduled -> Int \cup {None}]
    /\ {probed, failedAt, setAt, endedAt} \subseteq 0 .. now \cup {None}
    /\ {backupIdle, degraded, shuttingDown} \subseteq BOOLEAN
    /\ snapshot = None \/ snapshot \in Snapshots
    /\ inputs \in 0 .. MaxInputs /\ faults \in 0 .. MaxFaults

\* Both schedules of the backup have to let it start.
Opens(t) == IF t = Backup /\ BackupAt > At[t] THEN BackupAt ELSE At[t]
Closes(t) == (IF t = Backup /\ BackupAt < At[t] THEN BackupAt ELSE At[t]) + Window
DaysOf(t) == IF t = Backup THEN Days[t] \cap BackupDays ELSE Days[t]

\* A task of a day has run when its window ends, if the loop has been running
\* for the startup delay and a turn: no turn that the watchdog tolerates
\* skips a window.  (A backup waits for the one in progress, and needs the
\* windows of its two schedules to have as much in common as a turn may take;
\* a clock that is set may skip a window.  Once such a thing is over for as
\* long as a turn may take it excuses nothing.)
InTime ==
    \A t \in Scheduled :
        /\ Up /\ pc # "starting"
        /\ Day(Wall) \in DaysOf(t) /\ TimeOfDay(Wall) = Closes(t)
        /\ now - readyAt >= StartupDelay + TurnLimit
        /\ setAt = None \/ now - setAt > TurnLimit
        /\ t = Backup => /\ Opens(t) + TurnLimit <= Closes(t)
                         /\ backupIdle /\ (endedAt = None \/ now - endedAt > TurnLimit)
        => mark[t] = Day(Wall)

\* The watchdog spares a process whose turns take no longer than the half of
\* WatchdogSec that should_send_watchdog leaves.
SparesTheLiving ==
    [][WatchdogKills => now - turnedAt > WatchdogSec - WatchdogInterval]_vars

\* Whatever holds the loop up, GET /health does not say ok of it for longer
\* than the limit: not of a loop that has been in one list of commands, or in
\* its wait, for longer, nor of one whose command failed before that.  It
\* takes no watchdog for that, which hears of the loop in between and may be
\* switched off.  (A clock that is set spoils the age of the snapshot.)
HealthIsHonest ==
    Up /\ Health = "ok" /\ (setAt = None \/ setAt < snapshot.at) =>
        /\ now - busySince <= Stale
        /\ failedAt = None \/ now - failedAt <= Stale

\* A process the watchdog lets live never reports a stale cycle: probes end
\* often enough, whatever other work the loop does.
CycleIsFresh == Up /\ pc # "starting" => Health # "stale_health_cycle"

=============================================================================
