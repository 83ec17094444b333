------------------------------- MODULE Backup -------------------------------
(***************************************************************************)
(* The backup state machine of the daemon together with what makes it      *)
(* hard: the reducer moves its state at once, the commands it returns are  *)
(* then executed one after the other by the control loop, restic itself    *)
(* runs on a thread that answers through the event queue, the daemon can   *)
(* be killed between any two of those steps, and only the phase that was   *)
(* last written to backup-state.json survives.                             *)
(*                                                                         *)
(* Correspondence with the code.                                           *)
(*   - phase, leases, lastDay, pending, healthy are the fields             *)
(*     of State that the backup reads and writes (state.rs); all of them   *)
(*     are lost when the process dies.                                     *)
(*   - disk is the content of backup-state.json.                           *)
(*   - pc and todo are the position in the command list that               *)
(*     execute_commands is working through.  A list of the reducer is      *)
(*     determined by the phase it ended in, so the position is a label;    *)
(*     todo holds the services the loop over pre_backup_state has left.    *)
(*   - workers are the restic threads, events the EffectCompleted events   *)
(*     in the channel.                                                     *)
(*   - running is the world: the state of the units under systemd.         *)
(*                                                                         *)
(* Abstractions.  A run_id is the day of the run.  pre_backup_state is the *)
(* set of the services whose was_running is true: nothing reads the rest   *)
(* of it.  The order of the services in a list is that of the config file; *)
(* here it is any order.  Which unhealthy services a probe cycle restarts  *)
(* is decided by policy/recovery.rs, here it is any of those whose lease   *)
(* is free; whether the Docker services that are down are root causes, or  *)
(* depend on another that is down, is left open as well.  Days are the     *)
(* days on which the schedule is due.                                      *)
(***************************************************************************)
EXTENDS Naturals, FiniteSets, Leases

CONSTANTS
    Services,       \* the services of the config file
    StopServices,   \* those with backup_stop = true
    DockerServices, \* those of kind DockerSystemd
    DockerDaemon,   \* the Virtual service docker_daemon, if there is one
    Repo,           \* the resource "backup-repo"
    NoCmd,          \* backup_pending_cmd = None
    Verify,         \* config.backup.verify
    OldPhases,      \* what backup-state.json may hold before the first start
    SpawnMayFail,   \* a thread cannot be created
    DiskMayFail,    \* reading or writing backup-state.json may fail
    MaxDay,         \* bound: due days
    MaxCrashes      \* bound: crashes and restarts

ASSUME BackupAssumption ==
    /\ StopServices \subseteq Services
    /\ DockerServices \subseteq Services /\ DockerDaemon \subseteq Services
    /\ Repo \notin Services
    /\ NoHolder \notin Nat
    /\ NoCmd \notin Nat
    /\ Verify \in BOOLEAN
    /\ SpawnMayFail \in BOOLEAN
    /\ DiskMayFail \in BOOLEAN
    /\ MaxDay \in Nat
    /\ MaxCrashes \in Nat

VARIABLES
    (* the process *)
    proc,           \* "down" (killed), "stopped" (shut down), "booting" or "up"
    pc,             \* position in the command list being executed
    todo,           \* services the current loop has still to handle
    (* State, lost in a crash *)
    phase,          \* State::backup_phase
    lastDay,        \* State::last_backup_day, 0 for None
    pending,        \* State::backup_pending_cmd
    nextCmd,        \* State::next_cmd_id
    leases,         \* State::leases
    healthy,        \* services whose status is Healthy
    degraded,       \* State::degraded_reasons, the two the properties read
    workers,        \* restic threads
    events,         \* EffectCompleted events in the channel
    (* what survives the process *)
    disk,           \* backup-state.json
    staleLock,      \* a killed restic left its lock in the repository
    running,        \* units that are active
    day,            \* the last due day that has come
    window,         \* the clock is in the five minutes of that day's schedule
    crashes

stateVars == <<phase, lastDay, pending, nextCmd, leases, healthy, degraded>>
threadVars == <<workers, events>>
clockVars == <<day, window>>

(***************************************************************************)
(* Observations: what happened so far, read by the properties and by no    *)
(* action.                                                                 *)
(***************************************************************************)
VARIABLES
    owed,       \* stopped by a run that believed them up, not started since
    forgotten,  \* the only record of a service that is owed was lost
    intruded,   \* the commands by which recovery started services under restic
    lastStart   \* <<process, day>> of the last run

observed == <<owed, forgotten, intruded, lastStart>>

vars == <<proc, pc, todo, stateVars, threadVars, disk, staleLock, running,
          clockVars, crashes, observed>>

-----------------------------------------------------------------------------
(* Phases *)

Resources == Services \cup {Repo}

PhaseTags == {"Idle", "Locked", "ResticUnlocking", "ServicesStopping",
              "ResticRunning", "ServicesStarting", "ServicesVerifying",
              "RetentionRunning", "Verifying"}

Phase(tag, run, pre) == [tag |-> tag, run |-> run, pre |-> pre]

Idle == Phase("Idle", 0, {})

BackupPhase == [tag : PhaseTags, run : Nat, pre : SUBSET Services]

ASSUME OldPhasesAssumption == OldPhases \subseteq BackupPhase

IsIdle(p) == p.tag = "Idle"

NeedsServiceRecovery(p) ==
    p.tag \in {"ServicesStopping", "ResticRunning", "ServicesStarting", "ServicesVerifying"}

NeedsResticUnlock(p) == p.tag \in {"ResticUnlocking", "ResticRunning"}

\* BackupPhase::pre_backup_services: Some for two of the four phases above.
PreBackupServices(p) ==
    IF p.tag \in {"ServicesStopping", "ResticRunning"} THEN p.pre ELSE {}

\* The StartService actions of crash_compensation.
CompensationStarts(p) ==
    IF NeedsServiceRecovery(p) THEN PreBackupServices(p) ELSE {}

-----------------------------------------------------------------------------
(* Initial state: nothing has run yet; the file may be an older program's. *)

Init ==
    /\ proc = "down" /\ pc = "off" /\ todo = {}
    /\ phase = Idle /\ lastDay = 0
    /\ pending = NoCmd /\ nextCmd = 1
    /\ leases = [r \in Resources |-> Unheld]
    /\ healthy = {} /\ degraded = {}
    /\ workers = {} /\ events = {}
    /\ disk \in OldPhases
    /\ staleLock = FALSE
    /\ running \in SUBSET Services
    /\ day = 0 /\ window = FALSE /\ crashes = 0
    /\ owed = {} /\ forgotten = FALSE /\ intruded = {}
    /\ lastStart = <<0, 0>>

-----------------------------------------------------------------------------
(* Pieces of steps *)

\* systemctl start or restart of the services in S: on a timeout or an error
\* a unit may or may not have come up, and the daemon goes on either way.
SystemctlStart(S) ==
    /\ \E came \in SUBSET S : running' = running \cup came
    /\ owed' = owed \ S

\* What a recovery cycle starts while restic copies the data of a run, and by
\* which command, as the properties see it.
Intrusion(S, command) ==
    IF S \cap StopServices # {} /\ \E w \in workers : w.stage = "backup"
    THEN {command} ELSE {}

\* exec_persist_backup.  An error before the rename leaves the old file, an
\* error of the directory's fsync leaves the new one.
Persist(p) ==
    \/ disk' = p /\ UNCHANGED degraded
    \/ /\ DiskMayFail
       /\ disk' \in {disk, p}
       /\ degraded' = degraded \cup {"backup_state_persist_failed"}

\* exec_restic_unlock
ResticUnlock ==
    \/ staleLock' = FALSE /\ UNCHANGED degraded
    \/ UNCHANGED staleLock /\ degraded' = degraded \cup {"restic_unlock_failed"}

\* The control loop is in recv_timeout: no command list is being executed.
AtLoop == proc = "up" /\ pc = "loop"

-----------------------------------------------------------------------------
(* Starting a run *)

\* (mutant) the day of the last run is not looked at
ShouldStartAnyTime ==
    /\ IsIdle(phase)
    /\ window
    /\ IsFree(leases[Repo])

\* policy::backup::should_start and the lease check of start_backup.
ShouldStart ==
    /\ IsIdle(phase)
    /\ window /\ lastDay # day
    /\ IsFree(leases[Repo])

(***************************************************************************)
(* handle_tick with the Backup task, on a schedule tick, an HTTP trigger   *)
(* or the remediation TriggerBackup: start_backup moves the phase to its   *)
(* final value and returns the whole command list.  When the recovery is   *)
(* due in the same tick its RunProbes stands first in that list.           *)
(***************************************************************************)
StartBackup ==
    /\ AtLoop /\ ShouldStart
    /\ phase' = Phase("ResticRunning", day, healthy \cap StopServices)
    /\ lastDay' = day
    /\ pc' \in {"lock", "probeFirst"}
    /\ lastStart' = <<crashes, day>>
    /\ intruded' = {}
    /\ UNCHANGED <<proc, todo, pending, nextCmd, leases, healthy, degraded,
                   threadVars, disk, staleLock, running, clockVars, crashes,
                   owed, forgotten>>

\* AcquireLease(BackupRepo), PersistBackupState(Locked)
LockRun ==
    /\ pc = "lock"
    /\ leases' = [leases EXCEPT ![Repo] = Acquire(@, phase.run)]
    /\ Persist(Phase("Locked", phase.run, {}))
    /\ pc' = "unlock"
    /\ UNCHANGED <<proc, todo, phase, lastDay, pending, nextCmd, healthy,
                   threadVars, staleLock, running, clockVars, crashes, observed>>

\* (mutant) the repository is not unlocked before a run
UnlockRepoSkipped ==
    /\ pc = "unlock"
    /\ todo' = StopServices
    /\ pc' = IF StopServices = {} THEN "persist" ELSE "stop"
    /\ UNCHANGED <<proc, phase, lastDay, pending, nextCmd, leases, healthy, degraded,
                   staleLock, threadVars, disk, running, clockVars, crashes, observed>>

\* ResticUnlock of a run that starts
UnlockRepo ==
    /\ pc = "unlock"
    /\ ResticUnlock
    /\ todo' = StopServices
    /\ pc' = IF StopServices = {} THEN "persist" ELSE "stop"
    /\ UNCHANGED <<proc, phase, lastDay, pending, nextCmd, leases, healthy,
                   threadVars, disk, running, clockVars, crashes, observed>>

\* (mutant) a service is stopped without its lease
StopServiceUnleased(s) ==
    /\ pc = "stop" /\ s \in todo
    /\ running' \in {running, running \ {s}}
    /\ todo' = todo \ {s}
    /\ pc' = IF todo' = {} THEN "persist" ELSE "stop"
    /\ owed' = owed \cup ({s} \cap running \cap phase.pre)
    /\ UNCHANGED <<proc, phase, lastDay, pending, nextCmd, healthy, degraded, leases,
                   threadVars, disk, staleLock, clockVars, crashes,
                   forgotten, intruded, lastStart>>

\* AcquireLease(Service(s)), StopService(s): whatever s was doing, and
\* whether or not the lease was granted.
StopService(s) ==
    /\ pc = "stop" /\ s \in todo
    /\ leases' = [leases EXCEPT ![s] = Acquire(@, phase.run)]
    /\ running' \in {running, running \ {s}}
    /\ todo' = todo \ {s}
    /\ pc' = IF todo' = {} THEN "persist" ELSE "stop"
    /\ owed' = owed \cup ({s} \cap running \cap phase.pre)
    /\ UNCHANGED <<proc, phase, lastDay, pending, nextCmd, healthy, degraded,
                   threadVars, disk, staleLock, clockVars, crashes,
                   forgotten, intruded, lastStart>>

-----------------------------------------------------------------------------
(* The steps every list ends with *)

\* (mutant) the phase the reducer has moved to is not saved
PersistPhaseSkipped ==
    /\ pc = "persist"
    /\ pc' = IF IsIdle(phase) THEN "release" ELSE "spawn"
    /\ UNCHANGED <<proc, todo, phase, lastDay, pending, nextCmd, leases, healthy,
                   degraded, disk, threadVars, staleLock, running, clockVars, crashes, observed>>

\* PersistBackupState of the phase the reducer has moved to.
PersistPhase ==
    /\ pc = "persist"
    /\ Persist(phase)
    /\ pc' = IF IsIdle(phase) THEN "release" ELSE "spawn"
    /\ UNCHANGED <<proc, todo, phase, lastDay, pending, nextCmd, leases, healthy,
                   threadVars, staleLock, running, clockVars, crashes, observed>>

\* What each phase waits for: ResticBackup, ResticForget, ResticCheck.
StageOf(p) ==
    CASE p.tag = "ResticRunning" -> "backup"
      [] p.tag = "RetentionRunning" -> "forget"
      [] p.tag = "Verifying" -> "check"

\* (mutant) the phase waits for the command after its own
SpawnResticOffByOne ==
    /\ pc = "spawn"
    /\ workers' = workers \cup {[id |-> nextCmd, stage |-> StageOf(phase)]}
    /\ pending' = nextCmd + 1
    /\ nextCmd' = nextCmd + 1
    /\ pc' = "loop"
    /\ UNCHANGED <<proc, todo, phase, lastDay, leases, healthy, degraded, events,
                   disk, staleLock, running, clockVars, crashes, observed>>

\* The thread is created: its number is the command the phase waits for.
SpawnRestic ==
    /\ pc = "spawn"
    /\ workers' = workers \cup {[id |-> nextCmd, stage |-> StageOf(phase)]}
    /\ pending' = nextCmd
    /\ nextCmd' = nextCmd + 1
    /\ pc' = "loop"
    /\ UNCHANGED <<proc, todo, phase, lastDay, leases, healthy, degraded, events,
                   disk, staleLock, running, clockVars, crashes, observed>>

\* The thread cannot be created: the pending command is cleared, and then
\* the event of its failure is sent.
SpawnFails ==
    /\ pc = "spawn" /\ SpawnMayFail
    /\ pending' = NoCmd
    /\ nextCmd' = nextCmd + 1
    /\ events' = events \cup {[id |-> nextCmd, ok |-> FALSE]}
    /\ pc' = "loop"
    /\ UNCHANGED <<proc, todo, phase, lastDay, leases, healthy, degraded, workers,
                   disk, staleLock, running, clockVars, crashes, observed>>

\* (mutant) the lease of the repository is kept
ReleaseRepoForgotten ==
    /\ pc = "release"
    /\ pc' = "loop"
    /\ UNCHANGED <<proc, todo, phase, lastDay, pending, nextCmd, healthy, degraded,
                   leases, threadVars, disk, staleLock, running, clockVars, crashes, observed>>

\* ReleaseLease(BackupRepo) at the end of finalize_backup's list.
ReleaseRepo ==
    /\ pc = "release"
    /\ leases' = [leases EXCEPT ![Repo] = ForceRelease(@)]
    /\ pc' = "loop"
    /\ UNCHANGED <<proc, todo, phase, lastDay, pending, nextCmd, healthy, degraded,
                   threadVars, disk, staleLock, running, clockVars, crashes, observed>>

\* StartService(s), ReleaseLease(Service(s)) for a service that was running.
RestoreService(s) ==
    /\ pc = "restore" /\ s \in todo
    /\ SystemctlStart({s})
    /\ leases' = [leases EXCEPT ![s] = ForceRelease(@)]
    /\ todo' = todo \ {s}
    /\ pc' = IF todo' = {} THEN "persist" ELSE "restore"
    /\ UNCHANGED <<proc, phase, lastDay, pending, nextCmd, healthy, degraded,
                   threadVars, disk, staleLock, clockVars, crashes,
                   forgotten, intruded, lastStart>>

-----------------------------------------------------------------------------
(* The restic threads *)

\* (mutant) a thread whose restic failed ends without sending its event
ResticEndsSilently(w, ok) ==
    /\ w \in workers
    /\ workers' = workers \ {w}
    /\ events' = IF ok THEN events \cup {[id |-> w.id, ok |-> ok]} ELSE events
    /\ staleLock' \in {staleLock, staleLock \/ ~ok}
    /\ UNCHANGED <<proc, pc, todo, stateVars, disk, running, clockVars, crashes, observed>>

\* restic ends, or is killed after its timeout, and the thread sends
\* EffectCompleted.  A restic that was killed may leave its lock behind.
ResticEnds(w, ok) ==
    /\ w \in workers
    /\ workers' = workers \ {w}
    /\ events' = events \cup {[id |-> w.id, ok |-> ok]}
    /\ staleLock' \in {staleLock, staleLock \/ ~ok}
    /\ UNCHANGED <<proc, pc, todo, stateVars, disk, running, clockVars, crashes, observed>>

-----------------------------------------------------------------------------
(* Completions: handle_effect_completed *)

\* (mutant) the services are left to the compensation
RestoreThenPersistOnly(pre) == todo' = pre /\ pc' = "persist"

\* The list begins with the services of pre, if there are any.
RestoreThenPersist(pre) ==
    /\ todo' = pre
    /\ pc' = IF pre = {} THEN "persist" ELSE "restore"

\* (mutant) a failed run does not start its services
BackupFailureWithoutRestore ==
    /\ phase' = Idle
    /\ RestoreThenPersist({})

\* handle_backup_failure; the counter that only alerts read is left out.
BackupFailure ==
    /\ phase' = Idle
    /\ RestoreThenPersist(PreBackupServices(phase))

\* handle_backup_effect in ResticRunning
ResticCompleted(ok) ==
    /\ phase.tag = "ResticRunning"
    /\ \/ /\ ok
          /\ phase' = Phase("RetentionRunning", phase.run, {})
          /\ RestoreThenPersist(phase.pre)
       \/ /\ ~ok
          /\ BackupFailure

\* handle_backup_effect in RetentionRunning
RetentionCompleted(ok) ==
    /\ phase.tag = "RetentionRunning"
    /\ \/ /\ ok /\ Verify
          /\ phase' = Phase("Verifying", phase.run, {})
          /\ pc' = "persist"
          /\ UNCHANGED todo
       \/ /\ ok /\ ~Verify
          /\ phase' = Idle
          /\ pc' = "persist"
          /\ UNCHANGED todo
       \/ /\ ~ok
          /\ BackupFailure

\* handle_backup_effect in Verifying: success and failure differ in alerts.
VerifyCompleted ==
    /\ phase.tag = "Verifying"
    /\ phase' = Idle
    /\ pc' = "persist"
    /\ UNCHANGED todo

\* The event of the command the backup waits for.
EffectCompleted(e) ==
    /\ AtLoop /\ e \in events
    /\ pending = e.id
    /\ events' = events \ {e}
    /\ pending' = NoCmd
    /\ \/ ResticCompleted(e.ok)
       \/ RetentionCompleted(e.ok)
       \/ VerifyCompleted
    /\ UNCHANGED <<proc, lastDay, nextCmd, leases, healthy, degraded, workers,
                   disk, staleLock, running, clockVars, crashes, observed>>

\* Any other completion only pets the watchdog.
UnexpectedEffect(e) ==
    /\ AtLoop /\ e \in events
    /\ pending # e.id
    /\ events' = events \ {e}
    /\ UNCHANGED <<proc, pc, todo, stateVars, workers, disk, staleLock, running,
                   clockVars, crashes, observed>>

-----------------------------------------------------------------------------
(* The end of a process and the next one *)

\* State, the channel, the threads and their children are gone; what a run
\* still owes and the file does not tell will not be given back.
ProcessEnds ==
    /\ crashes < MaxCrashes
    /\ crashes' = crashes + 1
    /\ pc' = "off" /\ todo' = {}
    /\ phase' = Idle /\ lastDay' = 0 /\ pending' = NoCmd /\ nextCmd' = 1
    /\ leases' = [r \in Resources |-> Unheld]
    /\ healthy' = {} /\ degraded' = {}
    /\ workers' = {} /\ events' = {}
    /\ staleLock' \in {staleLock, staleLock \/ workers # {}}
    /\ owed' = owed \cap CompensationStarts(disk)
    /\ forgotten' = (forgotten \/ ~(owed \subseteq CompensationStarts(disk)))
    /\ intruded' = {}
    /\ UNCHANGED <<disk, running, clockVars, lastStart>>

\* A panic, a power loss, or systemd killing a process that has not pet the
\* watchdog: between any two commands.
Crash ==
    /\ proc \in {"up", "booting"}
    /\ ProcessEnds
    /\ proc' = "down"

\* SIGTERM: the loop ends once the event has been handled, whatever phase
\* the backup is in; systemd does not start the daemon again.
Shutdown ==
    /\ AtLoop
    /\ ProcessEnds
    /\ proc' = "stopped"

(***************************************************************************)
(* run_control_loop up to the event StartupRecovery: load the persisted    *)
(* phase (an unreadable file counts as Idle) and let crash_compensation    *)
(* make the list.  A persisted phase that should name services and does    *)
(* not is reported as an incident.                                         *)
(***************************************************************************)
Boot ==
    /\ proc \in {"down", "stopped"}
    /\ proc' = "booting"
    /\ \E p \in {disk} \cup (IF DiskMayFail THEN {Idle} ELSE {}) :
         /\ todo' = CompensationStarts(p)
         /\ pc' = CASE IsIdle(p) -> "probe"
                    [] NeedsResticUnlock(p) -> "recUnlock"
                    [] todo' # {} -> "recStart"
                    [] OTHER -> "recPersist"
         /\ owed' = owed \cap todo'
         /\ forgotten' = (forgotten \/ ~(owed \subseteq todo'))
    /\ UNCHANGED <<stateVars, threadVars, disk, staleLock, running, clockVars, crashes,
                   intruded, lastStart>>

\* ResticUnlock of the compensation
RecoverUnlock ==
    /\ pc = "recUnlock"
    /\ ResticUnlock
    /\ pc' = IF todo = {} THEN "recPersist" ELSE "recStart"
    /\ UNCHANGED <<proc, todo, phase, lastDay, pending, nextCmd, leases, healthy,
                   threadVars, disk, running, clockVars, crashes, observed>>

\* StartService(s) of the compensation
RecoverStart(s) ==
    /\ pc = "recStart" /\ s \in todo
    /\ SystemctlStart({s})
    /\ todo' = todo \ {s}
    /\ pc' = IF todo' = {} THEN "recPersist" ELSE "recStart"
    /\ UNCHANGED <<proc, stateVars, threadVars, disk, staleLock, clockVars, crashes,
                   forgotten, intruded, lastStart>>

\* ResetToIdle
RecoverPersist ==
    /\ pc = "recPersist"
    /\ Persist(Idle)
    /\ pc' = "probe"
    /\ UNCHANGED <<proc, todo, phase, lastDay, pending, nextCmd, leases, healthy,
                   threadVars, staleLock, running, clockVars, crashes, observed>>

\* run_startup_probe_cycle: observe only; a probe of a running service may
\* time out.  Then the loop begins.
StartupProbe ==
    /\ pc = "probe"
    /\ healthy' \in SUBSET running
    /\ proc' = "up" /\ pc' = "loop"
    /\ UNCHANGED <<todo, phase, lastDay, pending, nextCmd, leases, degraded,
                   threadVars, disk, staleLock, running, clockVars, crashes, observed>>

-----------------------------------------------------------------------------
(* What else the control loop does to the services *)

\* The condition of docker_root_cause, were every service but seen a root
\* cause: two Docker services, or the virtual docker_daemon.
DockerRootCause(seen) ==
    \/ \E a, b \in DockerServices \ seen : a # b
    \/ DockerDaemon \ seen # {}

\* RestartService for the services in restart.
RestartServices(restart) ==
    /\ SystemctlStart(restart)
    /\ intruded' = intruded \cup Intrusion(restart, "RestartService")

(***************************************************************************)
(* After them, RestartDockerDaemon: docker.service is killed and started.  *)
(* Which of its services are up afterwards, those that were stopped under  *)
(* a lease included, is Docker's affair.                                   *)
(***************************************************************************)
RestartServicesAndDocker(restart) ==
    \E came \in SUBSET restart, back \in SUBSET DockerServices :
        /\ running' = ((running \cup came) \ DockerServices) \cup back
        /\ owed' = owed \ (restart \cup back)
        /\ intruded' = intruded \cup Intrusion(restart, "RestartService")
                                \cup Intrusion(back \ running, "RestartDockerDaemon")

\* (mutant) the plan does not look at the leases
RecoverUnleased(seen, restart) ==
    /\ seen \subseteq running
    /\ restart \subseteq Services \ seen
    /\ \E kept \in SUBSET (healthy \ restart) : healthy' = seen \cup kept
    /\ RestartServices(restart)
    /\ UNCHANGED <<proc, todo, phase, lastDay, pending, nextCmd, leases,
                   degraded, threadVars, disk, staleLock, clockVars, crashes,
                   forgotten, lastStart>>

(***************************************************************************)
(* RunProbes and handle_probes.  seen are the services whose probe         *)
(* succeeded.  Of the others the plan restarts some; a restart is skipped  *)
(* while the lease of the service is held.  Maintenance, an open breaker,  *)
(* a held lease and a failure of Docker all leave the status of an         *)
(* unhealthy service as it was.  When Docker is the root cause the plan    *)
(* restarts the daemon in place of its services, and asks for no lease.    *)
(***************************************************************************)
Recover(seen, restart) ==
    /\ seen \subseteq running
    /\ restart \subseteq {s \in Services \ seen : IsFree(leases[s])}
    /\ \E kept \in SUBSET (healthy \ restart) : healthy' = seen \cup kept
    /\ \/ RestartServices(restart)
       \/ /\ DockerRootCause(seen) /\ restart \cap DockerServices = {}
          /\ RestartServicesAndDocker(restart)
    /\ UNCHANGED <<proc, todo, phase, lastDay, pending, nextCmd, leases,
                   degraded, threadVars, disk, staleLock, clockVars, crashes,
                   forgotten, lastStart>>

\* A tick with the Recovery task alone.
ProbeCycle == \E seen \in SUBSET running, restart \in SUBSET Services :
    AtLoop /\ UNCHANGED pc /\ Recover(seen, restart)

\* The first command of a tick in which the backup was due as well: the phase
\* and the snapshot are those of the run, its leases are not acquired yet.
TickProbes == \E seen \in SUBSET running, restart \in SUBSET Services :
    pc = "probeFirst" /\ pc' = "lock" /\ Recover(seen, restart)

\* handle_remediation: RestartService, which asks for no lease.
RemediationRestart(s) ==
    /\ AtLoop
    /\ SystemctlStart({s})
    /\ UNCHANGED <<proc, pc, todo, stateVars, threadVars, disk, staleLock, clockVars, crashes,
                   forgotten, intruded, lastStart>>

\* handle_remediation: ResticUnlock, in whatever phase the backup is.
RemediationUnlock ==
    /\ AtLoop
    /\ ResticUnlock
    /\ UNCHANGED <<proc, pc, todo, phase, lastDay, pending, nextCmd, leases, healthy,
                   threadVars, disk, running, clockVars, crashes, observed>>

-----------------------------------------------------------------------------
(* The world *)

\* A unit stops or comes up by itself or by another hand.
ServiceStops(s) ==
    /\ s \in running
    /\ running' = running \ {s}
    /\ UNCHANGED <<proc, pc, todo, stateVars, threadVars, disk, staleLock, clockVars, crashes,
                   observed>>

ServiceComesUp(s) ==
    /\ s \notin running
    /\ running' = running \cup {s}
    /\ owed' = owed \ {s}
    /\ UNCHANGED <<proc, pc, todo, stateVars, threadVars, disk, staleLock, clockVars, crashes,
                   forgotten, intruded, lastStart>>

(***************************************************************************)
(* The clock.  The timeouts of the commands of a run (unlock 120 s, backup *)
(* 3600 s, forget 600 s, check 1800 s) add up to less than the TTL of a    *)
(* lease, 7200 s.  The 1080 s that are left are assumed to cover stopping  *)
(* and starting the services (30 s each, so up to 18 of them) and what the *)
(* loop does between two events; then no lease expires while the run's     *)
(* next completion is to come.  A run that waits for nothing is another    *)
(* matter.                                                                 *)
(***************************************************************************)
NothingPending == pending = NoCmd /\ pc \in {"off", "loop"}

WindowCloses ==
    /\ window
    /\ window' = FALSE
    /\ UNCHANGED <<proc, pc, todo, stateVars, threadVars, disk, staleLock, running, day,
                   crashes, observed>>

ExpireAll == leases' = [r \in Resources |-> Expire(leases[r])]

LeasesExpire ==
    /\ NothingPending /\ ~window
    /\ \E r \in Resources : ~IsFree(leases[r])
    /\ ExpireAll
    /\ UNCHANGED <<proc, pc, todo, phase, lastDay, pending, nextCmd, healthy,
                   degraded, threadVars, disk, staleLock, running, clockVars, crashes, observed>>

NextDay ==
    /\ NothingPending /\ ~window
    /\ day < MaxDay
    /\ day' = day + 1 /\ window' = TRUE
    /\ ExpireAll
    /\ UNCHANGED <<proc, pc, todo, phase, lastDay, pending, nextCmd, healthy,
                   degraded, threadVars, disk, staleLock, running, crashes, observed>>

-----------------------------------------------------------------------------

\* The commands of a list, in the order of the list.
Execute ==
    \/ TickProbes
    \/ LockRun
    \/ UnlockRepo
    \/ \E s \in Services : StopService(s)
    \/ PersistPhase
    \/ SpawnRestic
    \/ SpawnFails
    \/ ReleaseRepo
    \/ \E s \in Services : RestoreService(s)
    \/ RecoverUnlock
    \/ \E s \in Services : RecoverStart(s)
    \/ RecoverPersist
    \/ StartupProbe

Completion ==
    \E e \in events : EffectCompleted(e) \/ UnexpectedEffect(e)

Restic == \E w \in workers, ok \in BOOLEAN : ResticEnds(w, ok)

Remediation ==
    \/ \E s \in Services : RemediationRestart(s)
    \/ RemediationUnlock

World ==
    \/ \E s \in Services : ServiceStops(s)
    \/ \E s \in Services : ServiceComesUp(s)
    \/ WindowCloses
    \/ LeasesExpire
    \/ NextDay

Next ==
    \/ StartBackup
    \/ Execute
    \/ Restic
    \/ Completion
    \/ ProbeCycle
    \/ Remediation
    \/ Crash
    \/ Shutdown
    \/ Boot
    \/ World

Spec == Init /\ [][Next]_vars

(***************************************************************************)
(* Fairness.  The control loop runs (it is the main thread and blocks only *)
(* in commands with a timeout); a restic ends, by its timeout at the       *)
(* latest; systemd starts a daemon that was killed (Restart=on-failure)    *)
(* but not one that was shut down.  Nothing is assumed of operators, of    *)
(* the services or of the clock.                                           *)
(***************************************************************************)
Fairness ==
    /\ WF_vars(Execute)
    /\ WF_vars(Completion)
    /\ WF_vars(Restic)
    /\ WF_vars(proc = "down" /\ Boot)

FairSpec == Spec /\ Fairness

-----------------------------------------------------------------------------
(* Properties *)

Positions == {"off", "loop", "probeFirst", "lock", "unlock", "stop", "persist", "spawn", "release",
              "restore", "recUnlock", "recStart", "recPersist", "probe"}

\* The state has its type.
TypeOK ==
    /\ proc \in {"down", "stopped", "booting", "up"}
    /\ pc \in Positions
    /\ todo \in SUBSET Services
    /\ phase \in BackupPhase /\ disk \in BackupPhase
    /\ lastDay \in Nat /\ nextCmd \in Nat
    /\ pending \in Nat \cup {NoCmd}
    /\ leases \in [Resources -> Lease(Nat)]
    /\ healthy \in SUBSET Services
    /\ degraded \in SUBSET {"backup_state_persist_failed", "restic_unlock_failed"}
    /\ workers \in SUBSET [id : Nat, stage : {"backup", "forget", "check"}]
    /\ events \in SUBSET [id : Nat, ok : BOOLEAN]
    /\ staleLock \in BOOLEAN
    /\ running \in SUBSET Services
    /\ day \in Nat /\ window \in BOOLEAN /\ crashes \in Nat
    /\ owed \in SUBSET Services /\ forgotten \in BOOLEAN
    /\ intruded \in SUBSET {"RestartService", "RestartDockerDaemon"}
    /\ lastStart \in Nat \X Nat

(***************************************************************************)
(* From the first AcquireLease of a run to the write of its pre-backup     *)
(* state: services may be stopped already, and the file says Locked.       *)
(***************************************************************************)
InStopWindow ==
    /\ phase.tag = "ResticRunning"
    /\ pc \in {"probeFirst", "lock", "unlock", "stop", "persist"}

WritesSucceeded == "backup_state_persist_failed" \notin degraded

\* Whatever a run has stopped and not given back, a restart of the daemon
\* would give back: the file names it.  (The order of the writes and the
\* starts in start_backup, handle_backup_effect, handle_startup_recovery.)
Restorable ==
    WritesSucceeded /\ ~InStopWindow => owed \subseteq CompensationStarts(disk)

\* Once restic backup is over, for better or worse, every service that was
\* believed up has been started again before the loop takes another event.
NobodyLeftBehind ==
    AtLoop /\ phase.tag # "ResticRunning" => owed = {}

(***************************************************************************)
(* The phase, the position in the list and the threads as stages of a loan.*)
(***************************************************************************)
Stage ==
    IF InStopWindow THEN "taking"
    ELSE IF pc \in {"restore", "recUnlock", "recStart"} THEN "returning"
    ELSE CASE phase.tag = "Idle" -> "none"
           [] phase.tag = "ResticRunning" -> "copying"
           [] phase.tag = "RetentionRunning" -> "pruning"
           [] phase.tag = "Verifying" -> "checking"

ResticOfStage ==
    IF workers # {} THEN "works"
    ELSE IF ~IsIdle(phase) /\ pc = "loop" THEN "over" ELSE "ahead"

Recorded == owed \subseteq CompensationStarts(disk)

LoanKept == INSTANCE Loan WITH
    stage <- Stage, restic <- ResticOfStage, lent <- owed, recorded <- Recorded,
    warned <- ~WritesSucceeded, Readable <- ~DiskMayFail

\* The backup keeps the promise of the loan: what it stops is on record, or
\* /health warns of it, before restic copies, is given back before restic
\* prunes, and survives the process; one restic at a time, once in a stage.
KeepsTheLoan == LoanKept!Promise

\* A restic that runs is the one the phase waits for, and it is alone: two
\* runs, or a run and the retention of another, never share the repository.
ResticIsAwaited ==
    \A w \in workers :
        /\ ~IsIdle(phase) /\ w.stage = StageOf(phase)
        /\ pending = w.id
        /\ workers = {w}

\* While restic works the run holds the repository, and while it copies the
\* services' data it holds every service it stopped; no lease has run out.
RunHoldsItsLeases ==
    \A w \in workers :
        \A r \in {Repo} \cup (IF w.stage = "backup" THEN StopServices ELSE {}) :
            leases[r] = HeldBy(phase.run)

\* The repository is leased exactly as long as a run is in progress: a run
\* that ended, on any path, does not keep the next one from starting.
RepoLeasedDuringRun ==
    AtLoop => (leases[Repo].holder # NoHolder <=> ~IsIdle(phase))

\* However many recovery cycles fall into a run, none starts a service with
\* RestartService while restic copies its data.  RestartDockerDaemon asks for
\* no lease and may start one: but only where the configuration has two Docker
\* services or a docker_daemon, and so never in an installation with neither.
OnlyDockerIntrudes ==
    \A command \in intruded :
        command = "RestartDockerDaemon" /\ DockerRootCause({})

\* No restic backup is started against the lock an earlier restic was killed
\* with, in this process or before a crash, unless the unlock itself failed.
NoStaleLock ==
    (\E w \in workers : w.stage = "backup") =>
        ~staleLock \/ "restic_unlock_failed" \in degraded

RunStarts == IsIdle(phase) /\ ~IsIdle(phase')

\* A process starts at most one run on a day, failed runs included.
OncePerDayAndProcess ==
    [][RunStarts => lastStart # <<crashes, day>>]_vars

\* A run ends, by success, failure or the end of the process.
RunEnds == ~IsIdle(phase) ~> IsIdle(phase)

\* A service that was stopped and is recorded gets its start, across any
\* number of crashes, unless the daemon is shut down and stays down.
OwedIsGivenBack ==
    \A s \in StopServices : s \in owed ~> (s \notin owed \/ proc = "stopped")

-----------------------------------------------------------------------------
(* Claims of the documentation, each refuted by a run *)

\* CONSTITUTION 12.4 and 13.4: after a crash the services that were running
\* before the backup are started again.
CrashForgetsNobody == ~forgotten

=============================================================================
