# A verification project for cratond

`cratond` is a supervision daemon for the services of one home server: it probes
them, restarts the ones that fail, backs them up with restic, watches the disk,
and tells its operator over ntfy.  `cratonctl` is its client and sets it up.
This directory holds TLA+ models of both, the TLC configurations that check them
on small instances, and TLAPS proofs of what matters most.  `src/src/` below is
the Rust crate, `CONSTITUTION` and `ARCHITECTURE` are the files of that name
under `src/docs/`.

## The system

One thread, the *control loop* (`runtime.rs`), owns all of `State`.  It takes an
event (a tick, probe results, the completion of an effect, an HTTP command, a
disk sample, a signal), gives it to the pure *reducer* (`reduce.rs` with
`policy/*`, `breaker.rs`, `graph.rs`, `lease.rs`), which changes `State` at once
and returns a list of commands, and executes that list, one command after the
other, before it takes the next event.  Long effects (restic, incident files,
disk cleanup, apt) run on threads; restic's answer comes back through the event
channel.  The one HTTP thread sends commands into the same channel and waits for an
acknowledgement.  The notifier thread has its own queue and its own file.

| Part | State it keeps | Operations | Talks to | What is hard | What makes it correct |
|---|---|---|---|---|---|
| Backup (`reduce.rs`, `policy/backup.rs`) | phase, pending command, failure count, day of the last run; `backup-state.json` | start, three completions, failure, compensation at start-up | leases, systemd, restic threads, persistence | the phase moves before the commands that make it true; crashes between commands; a snapshot taken from old probes | whoever was stopped comes back; one restic at a time; a run ends |
| Leases (`lease.rs`) | resource -> holder, with a TTL | acquire, force_release, is_free | backup, recovery | check and acquisition are separate commands; the TTL | nobody works on what another holds |
| Recovery (`policy/recovery.rs`, `reduce.rs`) | status, breaker, restart history per service | one decision per service and probe cycle | leases, graph, breaker, systemd | counters kept in a status that other decisions overwrite; two clocks (cooldown, window) | a failing service is not restarted in a storm, and is not forgotten |
| Breaker (`breaker.rs`) | Closed, Open(until, trips), HalfOpen | record_restart, on_healthy_probe, maybe_transition, reset | recovery, remediation | when Open becomes HalfOpen | no restart while it is open |
| Graph (`graph.rs`) | parents of each service | build, classify_failures | recovery | root causes along chains of failures | every blocked service has an unhealthy root |
| Control loop (`runtime.rs`, `schedule.rs`, `effect/systemd.rs`) | instants of the last cycle, sample and watchdog message; day marks; snapshot | start, turn, receive, end | everything | a turn lasts as long as its commands; two clocks; windows of five minutes | no task is missed, /health does not lie, systemd kills a hung loop and no other |
| Remediation (`reduce.rs`) | ring of 50 records | nine actions, rate limits | HTTP, recovery, backup | a limit counted in a ring | an operator cannot undo what supervision promises |
| Maintenance (`reduce.rs`, `runtime.rs`) | deadline per service; `maintenance.json` | mark, clear, load | remediation, recovery | a monotonic deadline that survives a reboot | it lasts as long as was ordered |
| Notifier (`notify.rs`) | queue of 64, dedup table; `alert-outbox.jsonl` | queue, append, deliver, mark, replay, compact | everything that alerts | crash between delivery and mark; eviction | an accepted alert is delivered at least once, or its loss is shown |
| Persistence (`persist.rs`) | files | atomic_write | backup, maintenance, notifier | power loss between the system calls | a reader sees the old or the new file |
| HTTP (`http.rs`), client (`cratonctl/client.rs`, `auth.rs`, `mod.rs`) | snapshot, response channels; token file | trigger, remediate, health, state, diagnose | control loop | three timeouts that do not know each other; shutdown in between | what was answered is what happened |
| Exec (`effect/exec.rs`), probes, workers (`effect/*.rs`) | a child process each | poll, timeout, TERM, KILL, collect | control loop | pipes, process groups, helpers, panics | a command ends; a result for each service; healthy means healthy |
| Set-up (`cratonctl/init.rs`, `main.rs`, `config.rs`) | config, token, unit | init, review, enable, start | systemd | a check before a prompt and a write after it; being cut short; two makers of one token | a rerun completes and overwrites nothing |
| Disk monitor (`policy/disk.rs`, `effect/disk.rs`) | ring of samples | sample, evaluate, clean up | notifier, docker | thresholds, prediction | - |

The hazards this gives rise to are listed, each at its line and with the
properties that would catch it, under `hazards` in PROJECT.json.

## Modules

| Module | Stands for | Uses |
|---|---|---|
| `Leases` | `lease.rs`, as operators on a lease; an entry's age is whether it has reached the TTL | |
| `Loan` | the abstract promise: services are lent on record for the time of the copy and given back before restic goes on | |
| `Backup`, `MCBackup`, `Backup_proofs` | the backup state machine, executed by a loop that may be killed between any two commands; implements `Loan` | `Leases`, `Loan` |
| `DepGraph` | the operators of `graph.rs` the recovery cycle uses | |
| `GraphBuild`, `MCGraphBuild` | the construction of the graph: what is rejected, Kahn's algorithm | `DepGraph` |
| `Breaker` | `breaker.rs`, pure functions; a deadline is the time that is left | |
| `Recovery`, `MCRecovery`, `Recovery_proofs` | the recovery cycle over time; its proofs include those about `GraphBuild`, whose graph it works on | `Breaker`, `DepGraph` |
| `AtomicWrite` | `atomic_write`, one action per system call, and what power loss leaves | |
| `Outbox` | the abstract promise: an alert on record stays owed until received or shown lost | |
| `Notifier`, `MCNotifier`, `Notifier_proofs` | the notifier thread with queue, outbox and file; implements `Outbox` | `AtomicWrite`, `Outbox` |
| `Remediation`, `MCRemediation`, `Remediation_proofs` | verdicts and limits on orders; maintenance through restarts and reboots | `AtomicWrite` |
| `Gateway`, `MCGateway`, `Gateway_proofs` | clients, HTTP thread, event channel, loop and process, as far as requests go | |
| `Exec`, `MCExec`, `Exec_proofs` | running programs; the probe cycle's threads; the workers | |
| `ControlLoop`, `MCControlLoop`, `ControlLoop_proofs` | the loop in time: schedules, /health, the watchdog | |
| `Bootstrap`, `MCBootstrap`, `Bootstrap_proofs` | `cratonctl init`, review, enabling, and the start of cratond | |

Definitions marked `(mutant)` are not part of the model: each is a plausible
mistake in the definition after it, and shows that a property can fail.
Variables under `observers` are read by no action.

### Backup

| Model | Code |
|---|---|
| `phase, lastDay, pending, nextCmd, leases, healthy, degraded` | the fields of `State` the backup uses; lost in a crash |
| `pc`, `todo` | the position in the command list `execute_commands` is working through |
| `workers`, `events` | restic threads; `EffectCompleted` events in the channel |
| `disk` | `backup-state.json` |
| `running`, `staleLock`, `day`, `window` | the units under systemd, a lock left by a killed restic, the due days and the five minutes in which a run may start |
| `StartBackup` | `handle_tick` with the Backup task and `start_backup` |
| `LockRun, UnlockRepo, StopService, PersistPhase, SpawnRestic` | the commands of its list, in their order |
| `EffectCompleted` with `ResticCompleted, RetentionCompleted, VerifyCompleted, BackupFailure` | `handle_effect_completed` and what it calls |
| `RestoreService, PersistPhase, SpawnRestic, ReleaseRepo` | the commands of those lists |
| `UnexpectedEffect` | a completion nobody waits for |
| `Boot, RecoverUnlock, RecoverStart, RecoverPersist, StartupProbe` | `run_control_loop` up to its loop |
| `ProbeCycle, TickProbes` | a recovery cycle alone, and one in the same tick as the start of a run |
| `RemediationRestart, RemediationUnlock` | the operator |
| `Crash, Shutdown, ServiceStops, ServiceComesUp, WindowCloses, LeasesExpire, NextDay` | the world |

`owed`, an observer, is the central variable: the services a run has stopped,
believing them up, that nobody has tried to start since.  Starting counts as
given back when `systemctl start` was executed: that a unit comes up is
systemd's business, and the next recovery cycle's.

`Loan` sees of this a stage, whether restic has worked in it, what is lent,
whether a restart would give all of it back, and whether `/health` warns that a
file was not written.  `Backup` maps to it by `Stage` (the list the process is
in, or the phase), `ResticOfStage` (its threads), `owed`, `Recorded` (all that is
owed is named by the compensation of the file) and the flags of failed writes;
`Readable` is whether the disk may fail.

Abstractions: a run_id is a day; the snapshot is the set of services with
`was_running`; the order of the services in a list is any order; which
unhealthy services a recovery cycle restarts is any choice among those whose
lease is free; whether it restarts the docker daemon in place of its services
(`DockerRootCause`, `RestartServicesAndDocker`) is open as soon as the probes of
two of them, or of `docker_daemon`, have failed, and which of them come up with
the daemon is open too; the failure counter, which only alerts read, is left
out.  The observer `intruded` names the commands of recovery that started a
service of the run while restic was copying.

### Recovery and the graph

| Model | Code |
|---|---|
| `status, breaker, history, sinceRestart, maintenance` | the fields of `SvcState`, with times relative to now |
| `leased`, `down` | services a backup has leased; services whose probe fails |
| `sinceCycle` | `last_recovery` of the loop |
| `Init`, `StartupStatus` | `SvcState::new` and `handle_startup_probes` |
| `Decision` | `evaluate_single`, in its order, and the lease check of `apply_decisions` |
| `HandleProbes` | `handle_probes`: all decisions of a cycle and their effect on all services |
| `Cycle`, `TriggerCycle` | the cycle that the loop finds due, and one that `POST /trigger/recovery` asks for at any time |
| `ClearBreaker, ClearFlapping, MarkMaintenance, ClearMaintenance` | `handle_remediation` |
| `BackupStops, BackupRestores` | a backup's leases and stops, as a cycle sees them |
| `Tick` | one unit of monotonic time |

The history is a set of ages, since no two restarts of a service fall on the same
instant (that is what the assumption of a restart cooldown above 0 is for, as an
operator can trigger two cycles in one second); records older than the window are dropped, as `restarts_in_window` never counts
them again.  `Recovery` lets an operator act at any time (the rate limit is in
`Remediation`) and lets a restarted service come up or not.  In `GraphBuild` a
graph is a function from services to the sequence `depends_on`, which may repeat
an entry.  A step of Kahn's algorithm takes one node from the queue (`Take`), or
counts one entry that names it (`Visit`); in which order the queue is filled at
first and the entries are counted is left open, where the code goes by the order
of the ids.

### Files, notifier, remediation

`AtomicWrite` keeps `name` (what is read under the name), `disk` (what may be
there after a power loss: a set, for a rename without fsync of the directory may
or may not survive), `tmp` and `step`; `Create, Sync, Rename, SyncDir` are the
system calls, `Fail` the error of any of them, `Abandon` the death of the
process, `PowerLoss` that of the host.  `Notifier` and `Remediation` extend it
and write their files by these steps.

| Model of `Notifier` | Code |
|---|---|
| `queue`, `Queue` | the channel of 64 and `NotifySender::queue` |
| `entries`, `Loads`, `Compacts`, `Mark` | `Outbox` and its `load`, `compact_if_needed`, `mark_delivered` |
| `Start, ReplayNext, ReplayEnds` | `NotifyConsumer::run` up to its loop |
| `StartUnread` | the same, when `load` cannot read the file: it begins with no records, and no flag |
| `TakeNew, TakeDuplicate, BeginSave, SaveStep, SaveReturns` | the loop up to `persist` |
| `Sent, NotSent` | `send_ntfy` and the retries around it |
| `dedup` | `DedupCache`; an entry whose TTL is over is found so when it is looked up (`TakeNew`) |
| `NewRecord`, `Readings` | a record with `created_at`, whatever the wall clock shows |
| `overflow, degraded` | the flags of `NotifyRuntimeState` |
| `Down` | the process or the host ends |
| `unread`, `misdated` | observers: this process could not read the file; the alerts whose last record is not dated after each earlier one |

The wall clock may repeat or go back from one record to the next, so that `load`
and `compact_if_needed`, which sort by it, order records as they do; the order of
equal dates after `load`, which comes from a `HashMap`, is left open (`Loads` is
the set of outboxes that a file may become).  An alert is its deduplication key.
`Guaranteed` are the alerts the next start would send from every file a power
loss may leave; with `owed <- Guaranteed`, `Notifier` implements `Outbox`.

| Model of `Remediation` | Code |
|---|---|
| `log`, `Push`, `RateLimited`, `Verdict` | `remediation_log`, `RingBuffer::push`, `remediation_rate_limited`, the checks of `handle_remediation` |
| `Remediate, MarkMaintenance, ClearMaintenance` | `handle_remediation`; what an accepted restart, unlock or trigger does is in `Recovery` and `Backup` |
| `PersistStep, PersistEnds` | `exec_persist_maintenance` |
| `Load, LoadFails` | `load_persisted_maintenance` |
| `now - bootAt` (`Mono`) | `CLOCK_MONOTONIC`, which starts again with the host |
| `meant`, `excused`, `behind` | observers: what was promised, and whether the order is known not to be on file |

### Requests, programs, the loop, set-up

| Model of `Gateway` | Code |
|---|---|
| `command, stage, leg, bearer, outcome` | an invocation of `cratonctl`: its requests, its token, what it tells |
| `Resolve, Connect, CannotConnect, GiveUp, Receive` | `auth.rs`, `client.rs`, the commands in `cratonctl/mod.rs` |
| `ServeRead, ServeDiagnose, Refuse, ServeUnsent, Forward, Acknowledged, AckTimeout` | the handlers of `http.rs`, one request at a time |
| `TakeCommand, OtherWork, Turn, TakeShutdown` | the loop, as far as commands go; `Response` is `http_command_response` |
| `BeginStart, LoadToken, BindHttp, Ready, ProcessEnds` | `main.rs`, `run_control_loop` before and after its loop |
| `Hang, WatchdogKills, Crash, Signal, EditToken` | the world |

| Model of `Exec` | Code |
|---|---|
| `pc, result`, `Spawn` ... `CollectedEnough`, `ExitCode` | `exec::run`, `kill_child`, `collect_output` of each call |
| `leader, status, helper, signals` | the process, a descendant that holds the pipes, signals to the group |
| `StartThread, StartThreadFails, Join, CycleReduced` | `run_probes` |
| `NetConnect, NetRead, Healthy` | `effect/probe.rs` |
| `StartOrder, OrderEnds` | `exec_command` with `systemctl` and docker |
| `StartWorker, WorkerCalls, WorkerGoesOn` | `effect/disk.rs`, `effect/updates.rs` on their threads |

| Model of `ControlLoop` | Code |
|---|---|
| `now`, `skew` | monotonic clock; how far the wall clock, which can be set, differs |
| `Start, Ready, Turn, TasksDone, Receive, EndTurn, LoopEnds` | `run_control_loop`, in its order |
| `DueTasks, IsDue, mark` | `check_daily_schedules`, `is_due`, the day marks |
| `work, left, hung`, `StepDone, Hang` | the steps of a turn, each of some length, which may fail or never end: the probes of a recovery, the commands that follow from them with `NotifyWatchdog` as the last one, other commands |
| `lastWatchdog`, `heardAt` | `last_watchdog` of the loop, which the `NotifyWatchdog` command does not touch; when systemd last heard of the process |
| `Days, At` and `BackupDays, BackupAt`, `BackupStarts` | the schedules in `check_daily_schedules`; `config.backup.schedule` and `should_start` |
| `Publish, snapshot, Health` | `publish_snapshot`, `health_response` |
| `turnedAt, busySince, failedAt, setAt, endedAt` | observers: the beginning of the turn, and of the list of commands or the wait it is at; the first failure, the last setting of the clock, the end of the last backup |
| `WatchdogKills, StartKilled` | `WatchdogSec`, `TimeoutStartSec` of the unit |

| Model of `Bootstrap` | Code |
|---|---|
| `setup, saw`, `SetupBegins` ... `SetupEnds`, `SetupFails` | `init::run`: what exists is looked up once, then directories, config, token, unit, daemon-reload |
| `Create, Sync, Rename, DirectorySynced` | `atomic_write_text` of init and `atomic_write` of cratond |
| `DaemonStarts, LoadConfig, EnsureRuntimeDirs, LoadToken, CreateToken, TokenCreated` | `main::run` up to its token |
| `Review, Enable` | the operator, who fills in `[ntfy]` and enables the unit |
| `SetupKilled, DaemonKilled, StartFails, PowerLoss` | the world |

Abstractions of these four.  `Gateway`: what a command does is in the other
modules; which of two timeouts ends first is left open, bodies are a model
value.  `Exec`: a deadline passes when it does; SIGKILL always ends a process;
URLs, DNS packets and outputs are what a probe makes of them.  `ControlLoop`:
effects are work of some length, the days do not wrap as days of a month do; a
`config.backup.schedule` is its days and its time of day, on no day if it does
not parse.
`Bootstrap`: one init runs at a time, in the default directories.

## Runs

| Run | Instance | What it shows |
|---|---|---|
| `faults` | 2 Docker services, both stopped for the backup; 1 due day, 1 crash; disk and threads may fail | what a run stopped is on file (`Restorable`), comes back on every path (`NobodyLeftBehind`), and no command of recovery but `RestartDockerDaemon` starts it meanwhile (`OnlyDockerIntrudes`); the program implements `Loan` (`KeepsTheLoan`) |
| `days` | a Docker service, which is stopped, and `docker_daemon`; 2 due days, 1 crash; an old program's file; no verification; fairness | one restic, awaited (`ResticIsAwaited`), under its leases (`RunHoldsItsLeases`, `RepoLeasedDuringRun`), never on a lock known to be stale (`NoStaleLock`), once a day and process (`OncePerDayAndProcess`); `RunEnds`, `OwedIsGivenBack` |
| `build` | all graphs of 3 services with at most 2 entries each | `DependenciesFirst`, `RejectsCycles`, `BlockedByARootCause` |
| `cycles` | the docker daemon's node and a docker service that needs it, an operator, who may trigger cycles, a backup; a ring of 2 | `QuietWhileOpen`, `BreakerTrips`, `NeverForgotten`, `TypeOK` of `Recovery` |
| `outbox` | 2 alerts raised again and again, queue of 1, outbox of 2, 2 attempts, 3 records under a clock of two readings, 1 crash or power loss, a disk that fails in reading and writing, a failing server | memory never owes less than the disk guarantees, but for the named losses (`Kept`), the notifier implements `Outbox` (`KeepsThePromise`), every start tries what it has read undelivered (`ReplayTries`) |
| `gateway` | 2 invocations, one with a remediation and one with any command; 2 tokens; 1 crash, signal or edit of the token | `ToldTheTruth`, `RefusedIsUntouched`, `TokenWorks`, `ServerComesBack`, `Heard` |
| `remediation` | 1 service, ring of 2, orders with and without a target, failing disk, 1 crash or reboot | `LimitHolds`, `FileAgrees`, `AsOrdered` |
| `exec` | 2 services with two kinds of probe, the loop's commands, 1 worker, 1 misbehaviour anywhere | `OneResultEach`, `HealthyIsTrue`, `OwnGroupOnly`, `CallsEnd` |
| `loop` | a daily task and a backup with two schedules, 11 units of time, steps of up to 2 units, 1 hang or crash, 1 event from outside or clock change | `InTime`, `HealthIsHonest`, `CycleIsFresh`, `SparesTheLiving` |
| `init` | 3 inits, 2 failing calls, 2 kills or power losses | `ReviewSurvives`, `TokensAgree`, `Starts` |
| `window` | as `faults`, 1 service | violation of `CrashForgetsNobody` |
| `reboot` | as `remediation`, good disk | violation of `EndedStaysEnded` |

### Bounds

`Backup`: two services are enough for a loop over services to be interrupted in
the middle; two days for a run to meet what the previous one left behind; one
crash because a crash wipes all of `State`, so a second one starts from a file
and a world the first could have left as well (the proofs cover any number).
The symmetry in `faults` is sound: the two services have the same role.

`GraphBuild`: three services are the shortest chain with an ancestor that is not
a parent, and the shortest cycle that is not a pair.

`Recovery`: the restart cooldown and the window span several cycles (of one unit),
the breaker outlives the cooldown, and the ring holds no more than the threshold,
so that every order of their ends occurs.

`Notifier`: an outbox of two with three records evicts, two records of one alert
meet, and a queue of one is full; a crash may fall into each of the system calls.
A clock of two readings makes two records of one date, and one dated before the
other.  A behaviour that has used up its records and its crash may stop: there is
nothing left to take, so deadlock is not checked.

`Gateway`: two invocations are what it takes for one command to wait behind
another, and for the last record of the log to be somebody else's.

`Remediation`: a ring of two forgets after the third record; a limit of one hour
and one of two let records of two windows lie in it at once; three units of time
let a maintenance of two end while the daemon is down.

`Exec`: threads are started and joined in order, so two services show an early
and a late one; one misbehaviour at a time, anywhere, with the others behaving.

`ControlLoop`: a unit is about fifteen seconds where the watchdog is concerned
(`WatchdogSec` is two of them), hours are a few units.  With WATCHDOG=1 in its
middle a turn may last four units, twice `WatchdogSec` (60 s in the source); a
window of five is longer than that, as the five minutes of the source are.  The
window of the configured backup begins one unit before the one in the code, so
the two have four in common, exactly a turn.

`Bootstrap`: an init that is cut short, one that completes it, and one over a
complete set-up; tokens are never used up.

### Fairness

- `Backup`: the command lists and the completions are executed by the main
  thread, which blocks in nothing without a timeout; a restic ends, by its
  timeout at the latest; systemd starts a killed daemon again
  (`Restart=on-failure`), but not one that was shut down.  Nothing is assumed
  of operators, of services or of the clock.
- `Recovery`: a due cycle is executed (the scheduler is asked in every turn of
  the loop), and time passes.
- `Notifier`: the consumer thread runs; retries and timeouts are finite, so each
  of its steps ends.  Nothing is assumed of the server.
- `Gateway`: the HTTP thread and a main thread that is not hung run.  For
  the event in front of the channel strong fairness is assumed: the channel is
  first in, first out, and every turn of the loop ends in `recv_timeout`, so
  other work can come before it, but not for ever.  Nothing is assumed of
  clients.
- `Exec`: threads are scheduled, deadlines pass, the kernel reports the end of a
  child.  No process need end by itself, no helper need write.
- `Bootstrap`: systemd restarts what fails (`RestartSec=5s` is too slow for the
  limit on starts), and a started cratond goes on.  Neither the operator nor an
  init need act.
- `ControlLoop`, `Remediation`, `GraphBuild`: none; what they have to say is
  said of every step, deadlines included.

### Violations

| Run | Claim | What happens |
|---|---|---|
| `window` | was_running is always on file (`CONSTITUTION:618`, `:675`) | it is written after the services have been stopped; a crash in between gives nobody back |
| `reboot` | a maintenance is kept in wall time, and ended ones are dropped at the start (`CONSTITUTION:1016`, `:693`) | its deadline is in seconds of the monotonic clock, which starts again with the host: an ended maintenance comes back, one in force lasts as long as the host had been up |

## Where source and documentation part

Seen while modelling, beside the two above, and not checked by a run.

Backup and recovery:

- The snapshot of what ran is what the last probe cycle saw (`reduce.rs:351`),
  not what runs.
- A restic thread that cannot be created clears the pending command first, so
  its own completion is ignored: the run waits until the next start of the daemon.
- The lease of a service that was not healthy at the stop stays until its TTL.
- The day of the last run is lost with the process: a restart within the five
  minutes may run the backup again.
- Services stopped by a backup or in maintenance count among the failing ones
  that get the docker daemon restarted, and that restart asks for no lease,
  cooldown or breaker (`reduce.rs:281`): a run that has stopped two Docker
  services has the daemon killed and started under its restic by the next cycle,
  and what comes up with it is open while it is copied.  `OnlyDockerIntrudes`
  says that this is the one way, and `KeepsOffWithoutDocker` that there is none
  where fewer than two Docker services and no `docker_daemon` are configured.
- The schedule of the backup is in two places: `check_daily_schedules` makes it
  due on odd days at 04:00 whatever the configuration says (`runtime.rs:999`),
  and `should_start` then looks at `config.backup.schedule` (`policy/backup.rs:20`).
  With `daily:HH:MM`, which `config.example.toml:38` and `policy/backup.rs:4`
  offer, it runs on odd days only, and at `daily:03:00`, or with a schedule that
  does not parse, never; nothing tells.  `InTime` is about the days and minutes
  that both schedules allow.
- `RemediationRestart` asks for no lease, so an operator can start a service
  whose data restic is copying (`CONSTITUTION` 11.4 wants it blocked).
- Failures of retention and verification never add up to the three that
  `CONSTITUTION` 12.5 escalates (`reduce.rs:415`, `reduce.rs:470`).
- `classify_failures` looks at direct parents, `CONSTITUTION` 9.4 at ancestors:
  with 1 <- 2 <- 3 and only 1 and 3 unhealthy, both are root causes.
- An `Open` breaker becomes `HalfOpen` only inside the restart cooldown, so with
  the default settings never, and a healthy probe leaves it `Open`
  (`CONSTITUTION` 10.2); once its first cooldown is over it suppresses nothing.
- The startup probe counts as an attempt, so an info service that is down at
  start-up is `Failed` before it was restarted; the attempts are 1, 2 and 3, not
  the 1, 3 and 5 of `ARCHITECTURE` 7.
- The docker cleanup asks nobody whether a backup runs (`CONSTITUTION` 11.3,
  11.4, 17.5).

Requests:

- `POST /trigger/backup` and `cratonctl backup run` answer 200 "completed",
  though `should_start` still wants the window; `ARCHITECTURE` 10 says 202.  A
  `TriggerBackup` uses up its one a day even if nothing starts.
- A manual trigger sets the day mark and suppresses the scheduled run.
- The client gives up after 5 s, the server after 10 s; either way the command
  stays in the channel and is applied later.  Commands behind a shutdown are
  dropped, and answered with 503.
- `get_json` turns the 503 of /health into an error, so the "warn" of
  `cratonctl doctor` for an unavailable health is never shown.
- The limit of `DockerRestart` is per target, and the target is ignored by the
  action (`CONSTITUTION`: one an hour).  Rejected records count toward a limit;
  the ring of 50 and every restart forget.  `LimitHolds` is therefore about the
  records the ring still holds.
- Actions outside of the list of `CONSTITUTION` 19.2 are accepted, and the modes
  of 19.1 are not consulted.

The loop, health and systemd:

- The comment in the unit says that WATCHDOG=1 is sent every iteration.  At the
  end of one it is sent when 15 s have gone by since the last one sent there;
  besides, the commands of a recovery, and of a completion nobody waits for, end
  with it (`reduce.rs:183`, `reduce.rs:397`).  So a turn may last up to twice
  `WatchdogSec=30`, but no 30 s of it without a message, while `systemctl` alone
  may take 30 s, restic unlock 120 s.
- `TimeoutStopSec=30` against a shutdown grace of 90 s in the source.
- `degraded_reasons` is never cleared: /health is 503 until the next start.  An
  acknowledgement is sent before `PersistMaintenance` is executed.
- /health may report a stale snapshot of a loop that turns (two long batches),
  and takes a hung one for fresh when the wall clock is set back.
- `ARCHITECTURE` 8 has the docker updates on Saturday; weekday 6 is Sunday here.
- `exec_update_llm_context` writes startup_kind unknown and overflow false,
  whatever they are.

Notifier, programs, set-up:

- `mark_delivered` marks the first record with the id (`notify.rs:365`); with two
  of them the one just sent stays undelivered, is sent again at the next start,
  and its eviction raises the overflow flag for an alert that was delivered.
  The queue drops an alert without a flag.
- An outbox that cannot be read counts as an empty one (`notify.rs:315`), no flag
  is raised, and the next write replaces the file: what it held is lost.
  `created_at` is the wall clock in seconds: when an alert is raised again while
  the clock is not past its earlier record, `load` keeps the earlier one
  (`notify.rs:344`), and if that was delivered the alert is not sent by the next
  start; under a clock set back compaction evicts the newer of two alerts first.
  `notify.rs:6` says that undelivered entries are replayed on startup, and knows
  neither.  `Kept` and `Outbox` except these two losses by name, and no others.
- The host of the ntfy URL must be an IP address, and a "200" anywhere in the
  first 256 bytes of the answer counts as success.
- `exec.rs` promises mandatory timeouts, but `run` blocks past its own while a
  descendant holds the pipes (`CallsEnd` excepts it); a child that fills its pipe
  is stuck until the timeout; an error of `try_wait` returns without a kill.  An
  HTTP probe that times out is reported as refused.
- A fresh `cratonctl init` leaves `[ntfy]` commented as "Optional notification
  channel", and cratond refuses to start without it (`config.rs:18`).
- `--state-dir` renders a unit that may not write `/var/lib/craton`, which
  cratond always uses; the example under /tmp is hidden by `PrivateTmp=true`.  A
  rerun after a failed `daemon-reload` reports "skipped" and does not reload.
  Two inits that overlap at the prompt overwrite each other's files, which
  `INIT_HELP` says are left untouched.

## Proofs

Eight modules prove about the components, for every value of the constants and
behaviours of any length.  Each has an inductive invariant `IInv`, one lemma per
action or group of actions, and theorems that follow from it.  Every invariant
and every action property of the passing runs is a theorem, and so are the two
refinements.

`Backup_proofs`, from `BackupAssumption` and `OldPhasesAssumption` (the
constants have their types; the repository is not a service): `TypeCorrect`
(`TypeOK`), `CrashSafe` (`Restorable`), `EverybodyReturns`
(`NobodyLeftBehind`).  `Restorable` is not inductive: that the file names what a
run owes depends on where in which list the process is.  `IInv` adds `Control`
(which positions go with which state of the process and which phase) and
`Accounts` (position by position, why what is owed will be given back: it is in
`todo`, or in the snapshot of the phase, or in the file).

A second invariant, `RunInv` (`RunsInductive`), carries the properties of runs:
`ResticAlone` (`ResticIsAwaited`), `RunKeepsLeases` (`RunHoldsItsLeases`),
`RepoNotLeaked` (`RepoLeasedDuringRun`), `BackupUnlocked` (`NoStaleLock`),
`RecoveryHeldOff` (`OnlyDockerIntrudes`), its corollary `KeepsOffWithoutDocker`
(no command of recovery, where there is no Docker to restart) and `OneRunADay` (`OncePerDayAndProcess`).
To `IInv` it adds `Threads` (a command number is given out once, and its event
comes after its thread), `Chronicle` (a run that is executed or waited for is the
last one this process started, and today's), `RepoHeld` and `ServicesHeld` (where
each list has got to with the leases) and `Unlocked`.  `Chronicle` is why leases
hold: a lease is granted again to the holder it had, expired or not, so an entry
of a run of the same day would never be refreshed.

`BackupRefinesLoan` (`KeepsTheLoan`) maps each step of `Backup` to a step of
`Loan` or to a stutter.  One lemma for each kind of step: a run begins, a service
is taken, the copy begins, restic begins or ends, services are given back, the
run goes on, the process dies, the next one reads the file.  The difficult ones
are those in which a list ends: that nothing is lent as the run goes on is
`Accounts`, that restic has had its turn is `Threads`.

`Recovery_proofs`, from `RecoveryAssumption` (an interval, a restart cooldown, a
threshold and a ring are not empty): `RecoveryTypeCorrect` (`TypeOK`, attempts within their
limit included), `BreakerKeepsQuiet` (`QuietWhileOpen`),
`RestartsKeepTheirDistance` (`RestartsAreSpaced`: a restart cooldown apart, as
triggered cycles keep to no interval), `ThresholdTrips` (`BreakerTrips`).  The strengthening is `RecordsAreOlder`: no record is younger
than what `last_restart_mono` and the last cycle say.  Without it a step could
add a restart too close to one on record.

The second half of `Recovery_proofs` is about the graph that the cycle works on,
for any number of services and any `depends_on`: `SortedByDependency`
(`DependenciesFirst`), `AcyclicIsAccepted` (`RejectsCycles`) and `BlockedByCause`
(`BlockedByARootCause`), from `DepGraphAssumption`.  (The definitions of
`GraphBuild` have names of their own, `BuildSpec` and so on, so that one module
can extend both.)
`SortInv` says that `in_degree` is the number of entries that are not counted
yet, and that who has none left is in the order or the queue, once.  When the
queue is empty, everybody outside of the order has a parent outside of it; one
whose ancestors are fewest (a least one exists, as there are finitely many) has
the same ancestors as that parent, and so is an ancestor of itself.  The walk of
`find_root_cause` is a recursive function: `WalkExists` shows that there is one,
by extending it set by set, and `WalkEnds` that it ends at a root cause, as
nobody it has visited can be met again in a graph without a cycle.

`Notifier_proofs`, from `NotifierAssumption`: `OutboxKeeps` (`Kept`),
`OutboxNeverTorn` (what is read is a whole file that was written) and
`NotifierRefinesOutbox` (`KeepsThePromise`): the initial state maps to the
initial state of `Outbox`, every step to one of its steps or to a stutter; a read
that fails is a step of `Outbox` too, which names what it loses.
`IInv` says what each point of the loop leaves open between memory, the file in
writing and what a power loss may leave of it.

`Remediation_proofs`, from `RemediationAssumption`: `MaintenanceAsOrdered`
(`AsOrdered`), `MaintenanceFiled` (`FileAgrees`) and `RateLimitKept`
(`LimitHolds`).  `IInv` adds that a write in
progress writes what is in memory, and that memory - or the file, while there is
no process - names the deadline of everything ordered and not ended.  For the
limits it is strengthened to the moment: at any time the ring holds no more
accepted records than the limit in the window that ends now.

`Exec_proofs`, from `ExecAssumption`: `OneResultForEach` (`OneResultEach`),
`HealthyMeansHealthy` (`HealthyIsTrue`), `OwnGroupOnlySignalled`
(`OwnGroupOnly`).  `IInv` says what each position of `exec::run` implies of its
process, which results and signals go with it, and how far the cycle is with each
service.

`Bootstrap_proofs`, from `BootstrapAssumption` (no file is not a content):
`ReviewIsKept` (`ReviewSurvives`) and `OneToken` (`TokensAgree`).  `IInv` adds
that a file an init has not seen is not there before that init renames it, and
that, as long as directories are synced, the token is on the disk for good
before there is a unit, a started daemon, or an init at its unit.

`Gateway_proofs`, from `GatewayAssumption` (no reply, no token and no connection
are none of the values there are): `TellsTheTruth` (`ToldTheTruth`),
`RefusalIsFinal` (`RefusedIsUntouched`) and `TokenIsGood` (`TokenWorks`).  `IInv`
says that a connection is with the client, in the backlog or with the thread, and
a command once in the channel at most; that a command has not been applied while
its connection waits or it is in the channel; and that a response, a status or an
outcome agrees with what was applied.  The last is what makes the answer true:
`http_command_response` reads the last record of the log, which is the command's
own only because the loop answers before it takes another event.

`ControlLoop_proofs`, from `ControlLoopAssumption` and `TimingAssumption`:
`TasksInTime` (`InTime`), `HealthHonest` (`HealthIsHonest`), `CycleFresh`
(`CycleIsFresh`), `LivingSpared` (`SparesTheLiving`) and `LoopTypeCorrect`
(`TypeOK`).  `TimingAssumption` states the two relations of the code's numbers
that are needed: a window is no shorter than the longest turn (300 s, and twice
the 30 s of `WatchdogSec`), and /health tolerates a cycle of the longest period
and two such turns (600 s, and 300 + 4 * 30).  All but `HealthHonest` rests on
`Timed`: a turn that is not over has begun no longer ago than `TurnLimit`, twice
`WatchdogSec`.  For systemd last heard of the process before the turn began, or
else by the recovery among its tasks, which was over within `WatchdogSec` of the
beginning; whatever else serves the watchdog is the last command of the turn.  So
a window as long as that has a turn that begins in it, which `TurnMarks` and
`WindowMarks` follow to its end.  `HealthHonest` takes no watchdog at all: the
snapshot is as old as the list of commands the loop is at (`Told`), and /health
looks at its age.

Only model-checked are the liveness properties (`RunEnds`, `OwedIsGivenBack`,
`NeverForgotten`, `ReplayTries`, `ServerComesBack`, `Heard`, `CallsEnd`,
`Starts`), since fairness is out of the prover's reach.

## Not modelled

- Logging, the tables, colours and argument parsing of `cratonctl`, JSON bodies:
  output and syntax.
- The AI bridge, incident files and the LLM context: fire-and-forget writes
  without state that the daemon reads back.  `check_docker_image`, the
  disk prediction and `next_phase` of `policy/backup.rs`: nothing calls them.
- The thresholds of the disk monitor: they choose between two lists of programs
  and an alert; when it runs is in `ControlLoop`, its programs are in `Exec`.
- Configuration values: they are the constants of the modules.  What `validate`
  rejects is modelled as far as the graph and init depend on it.
- The calendar (`WallClock::now`), and the repetition of days of the month.

## Plan

What would come next: the safety that the liveness properties rest on, as
invariants with proofs (an answer is on its way to every run that waits for one;
every call of `exec` has a next step); an abstract request of which `Gateway` is
an implementation; and the thresholds of the disk monitor.
