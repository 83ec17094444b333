---------------------------- MODULE Remediation ----------------------------
(***************************************************************************)
(* The remediations an operator or an agent orders (handle_remediation):   *)
(* the rate limit of each action and target, counted in a ring of records, *)
(* and the maintenance of a service, whose end is kept in seconds of the   *)
(* monotonic clock, in memory and in maintenance.json.                     *)
(*                                                                         *)
(* The monotonic clock starts again with the host: it is now - bootAt.     *)
(* What an accepted restart or reset does to a service is in Recovery,     *)
(* what an accepted unlock or backup does in Backup.                       *)
(***************************************************************************)
EXTENDS Naturals, Sequences, FiniteSets, AtomicWrite

CONSTANTS
    Services,       \* the configured services
    Unknown,        \* a target that is not configured
    None,           \* no target, no maintenance
    Limits,         \* remediation_rate_limited: window and count of an action
    RingSize,       \* the capacity of remediation_log
    MaintenanceTime,
    Requests,       \* bound: the pairs of action and target that are asked for
    MaxTime,        \* bound: the time considered
    MaxFaults,      \* bound: crashes and reboots
    DiskFails       \* reads and writes may fail

Targets == Services \cup {Unknown, None}

NeedsTarget == {"RestartService", "ClearBreaker", "MarkMaintenance",
                "ClearMaintenance", "ClearFlapping"}
Actions == NeedsTarget \cup {"DockerRestart", "ResticUnlock", "TriggerBackup",
                             "RunDiskCleanup"}
Limited == {"RestartService", "DockerRestart", "TriggerBackup", "MarkMaintenance"}

ASSUME RemediationAssumption ==
    /\ None \notin Services \cup Nat /\ Unknown \notin Services
    /\ Limits \in [Limited -> [window : Nat, count : Nat \ {0}]]
    /\ RingSize \in Nat \ {0}
    /\ MaintenanceTime \in Nat \ {0}
    /\ Requests \subseteq Actions \X Targets
    /\ MaxTime \in Nat /\ MaxFaults \in Nat
    /\ DiskFails \in BOOLEAN

VARIABLES
    now,            \* the time of the world
    bootAt,         \* when the host came up
    up,             \* the daemon runs
    log,            \* remediation_log
    maintenance,    \* until_mono of each service in maintenance
    faults,
    \* observers
    meant,          \* the time at which each ordered maintenance should end
    behind,         \* the last write of the file failed
    excused         \* a reboot, or a crash before memory was on file

vars == <<now, bootAt, up, log, maintenance, faults, meant, behind, excused, fileVars>>

Mono == now - bootAt

NoMaintenance == [s \in Services |-> None]

\* state.rs: a maintenance ends by itself; its entry stays.
Active(s) == maintenance[s] # None /\ Mono < maintenance[s]

-----------------------------------------------------------------------------

Init ==
    /\ now = 0 /\ bootAt = 0 /\ up = FALSE
    /\ log = <<>>
    /\ maintenance = NoMaintenance
    /\ faults = 0
    /\ meant = NoMaintenance
    /\ behind = FALSE /\ excused = FALSE
    /\ FileInit(NoMaintenance)

\* (mutant) the record at the limit is let through
RateLimitedOffByOne(action, target) ==
    /\ action \in Limited
    /\ LET recent == {i \in DOMAIN log : /\ log[i].at + Limits[action].window >= Mono
                                         /\ log[i].action = action
                                         /\ log[i].target = target}
       IN  Cardinality(recent) > Limits[action].count

\* Every record of the action and target within the window counts, the
\* rejected ones too.
RateLimited(action, target) ==
    /\ action \in Limited
    /\ LET recent == {i \in DOMAIN log : /\ log[i].at + Limits[action].window >= Mono
                                         /\ log[i].action = action
                                         /\ log[i].target = target}
       IN  Cardinality(recent) >= Limits[action].count

\* What handle_remediation makes of a request.
Verdict(action, target) ==
    CASE RateLimited(action, target) -> "rate limited"
      [] ~RateLimited(action, target) /\ action \in NeedsTarget /\ target = None
            -> "no target"
      [] ~RateLimited(action, target) /\ action = "RestartService" /\ target = Unknown
            -> "unknown service"
      [] OTHER -> "accepted"

\* RingBuffer::push
Push(record) ==
    LET kept == IF Len(log) < RingSize THEN log ELSE Tail(log)
    IN  Append(kept, record)

Record(action, target) ==
    [at |-> Mono, action |-> action, target |-> target,
     verdict |-> Verdict(action, target)]

\* The loop takes no event while it writes a file.
Free == up /\ step = "none"

\* A request that is rejected, or accepted and none of maintenance.
Remediate(action, target) ==
    /\ Free
    /\ Verdict(action, target) = "accepted"
            => action \notin {"MarkMaintenance", "ClearMaintenance"}
    /\ log' = Push(Record(action, target))
    /\ UNCHANGED <<now, bootAt, up, maintenance, faults, meant, behind, excused, fileVars>>

\* A service that is not configured has no state to change.
SetMaintenance(target, until) ==
    maintenance' = [s \in Services |-> IF s = target THEN until ELSE maintenance[s]]

\* (mutant) get_or_insert: a second order leaves the first deadline in place
MarkMaintenanceOnce(target) ==
    /\ Free
    /\ Verdict("MarkMaintenance", target) = "accepted"
    /\ log' = Push(Record("MarkMaintenance", target))
    /\ SetMaintenance(target, IF target \in Services /\ maintenance[target] # None
                              THEN maintenance[target] ELSE Mono + MaintenanceTime)
    /\ meant' = [s \in Services |->
                    IF s = target THEN now + MaintenanceTime ELSE meant[s]]
    /\ Create(maintenance')
    /\ UNCHANGED <<now, bootAt, up, faults, behind, excused>>

MarkMaintenance(target) ==
    /\ Free
    /\ Verdict("MarkMaintenance", target) = "accepted"
    /\ log' = Push(Record("MarkMaintenance", target))
    /\ SetMaintenance(target, Mono + MaintenanceTime)
    /\ meant' = [s \in Services |->
                    IF s = target THEN now + MaintenanceTime ELSE meant[s]]
    /\ Create(maintenance')
    /\ UNCHANGED <<now, bootAt, up, faults, behind, excused>>

\* (mutant) memory is changed and PersistMaintenance forgotten
ClearMaintenanceUnsaved(target) ==
    /\ Free
    /\ Verdict("ClearMaintenance", target) = "accepted"
    /\ log' = Push(Record("ClearMaintenance", target))
    /\ SetMaintenance(target, None)
    /\ meant' = [s \in Services |-> IF s = target THEN None ELSE meant[s]]
    /\ UNCHANGED <<now, bootAt, up, faults, behind, excused, fileVars>>

ClearMaintenance(target) ==
    /\ Free
    /\ Verdict("ClearMaintenance", target) = "accepted"
    /\ log' = Push(Record("ClearMaintenance", target))
    /\ SetMaintenance(target, None)
    /\ meant' = [s \in Services |-> IF s = target THEN None ELSE meant[s]]
    /\ Create(maintenance')
    /\ UNCHANGED <<now, bootAt, up, faults, behind, excused>>

\* exec_persist_maintenance goes on: all entries are written, ended ones too.
PersistStep ==
    /\ Sync \/ Rename
    /\ UNCHANGED <<now, bootAt, up, log, maintenance, faults, meant, behind, excused>>

\* It is over; a failure is logged and makes the runtime degraded.
PersistEnds ==
    /\ \/ SyncDir /\ behind' = FALSE
       \/ DiskFails /\ Fail /\ behind' = TRUE
    /\ UNCHANGED <<now, bootAt, up, log, maintenance, faults, meant, excused>>

\* (mutant) deadlines are compared the other way round
LoadDropsActive ==
    /\ ~up
    /\ up' = TRUE
    /\ maintenance' = [s \in Services |->
                          IF name[s] # None /\ name[s] <= Mono THEN name[s] ELSE None]
    /\ UNCHANGED <<now, bootAt, log, faults, meant, behind, excused, fileVars>>

\* load_persisted_maintenance drops what has ended.
Load ==
    /\ ~up
    /\ up' = TRUE
    /\ maintenance' = [s \in Services |->
                          IF name[s] # None /\ name[s] > Mono THEN name[s] ELSE None]
    /\ UNCHANGED <<now, bootAt, log, faults, meant, behind, excused, fileVars>>

\* The file cannot be read or parsed: the daemon starts without it.
LoadFails ==
    /\ ~up /\ DiskFails
    /\ up' = TRUE
    /\ maintenance' = NoMaintenance
    /\ excused' = TRUE
    /\ UNCHANGED <<now, bootAt, log, faults, meant, behind, fileVars>>

Forget ==
    /\ up' = FALSE
    /\ log' = <<>>
    /\ maintenance' = NoMaintenance
    /\ behind' = FALSE
    /\ faults' = faults + 1
    /\ UNCHANGED <<now, meant>>

\* The daemon ends; what was ordered may not be on file.
Crash ==
    /\ up /\ faults < MaxFaults
    /\ Forget /\ Abandon
    /\ excused' = (excused \/ step # "none" \/ behind)
    /\ UNCHANGED bootAt

\* The host goes down and comes up: its monotonic clock starts at 0.
Reboot ==
    /\ faults < MaxFaults
    /\ Forget
    /\ Abandon \/ PowerLoss
    /\ bootAt' = now
    /\ excused' = TRUE

Tick ==
    /\ now < MaxTime
    /\ now' = now + 1
    /\ UNCHANGED <<bootAt, up, log, maintenance, faults, meant, behind, excused, fileVars>>

Next ==
    \/ \E action \in Actions, target \in Targets :
        /\ <<action, target>> \in Requests
        /\ \/ Remediate(action, target)
           \/ action = "MarkMaintenance" /\ MarkMaintenance(target)
           \/ action = "ClearMaintenance" /\ ClearMaintenance(target)
    \/ PersistStep \/ PersistEnds
    \/ Load \/ LoadFails
    \/ Crash \/ Reboot \/ Tick

Spec == Init /\ [][Next]_vars

-----------------------------------------------------------------------------
(* Properties *)

Deadlines == [Services -> Nat \cup {None}]

Verdicts == {"accepted", "rate limited", "no target", "unknown service"}

TypeOK ==
    /\ now \in Nat /\ bootAt \in 0 .. now /\ up \in BOOLEAN
    /\ log \in Seq([at : Nat, action : Actions, target : Targets, verdict : Verdicts])
    /\ Len(log) <= RingSize
    /\ maintenance \in Deadlines /\ meant \in Deadlines
    /\ faults \in 0 .. MaxFaults
    /\ behind \in BOOLEAN /\ excused \in BOOLEAN
    /\ step \in Steps
    /\ disk \cup {name, tmp} \subseteq Deadlines \cup {Torn}

\* Among the records that the ring still holds, no action was accepted for the
\* same target more often than its limit within its window.
LimitHolds ==
    \A j \in DOMAIN log : log[j].action \in Limited =>
        LET limit == Limits[log[j].action]
            alike == {i \in 1 .. j : /\ log[i].verdict = "accepted"
                                     /\ log[i].action = log[j].action
                                     /\ log[i].target = log[j].target
                                     /\ log[i].at + limit.window >= log[j].at}
        IN  Cardinality(alike) <= limit.count

\* The loop waits for the next event with a file that says what memory says;
\* a load may have left an entry aside that had ended.
FileAgrees ==
    Free /\ ~behind /\ ~excused =>
        \A s \in Services :
            \/ name[s] = maintenance[s]
            \/ maintenance[s] = None /\ name[s] <= Mono

\* Through restarts of the daemon, a service is in maintenance exactly until
\* the time its operator was promised, unless the order did not reach the file
\* or the host came up again.
AsOrdered ==
    up /\ ~excused =>
        \A s \in Services : Active(s) <=> meant[s] # None /\ now < meant[s]

\* A maintenance that has ended stays ended (CONSTITUTION 13.4 drops stale
\* entries at the start; 22 puts the end of a maintenance under wall time).
EndedStaysEnded ==
    \A s \in Services : up /\ meant[s] # None /\ now >= meant[s] => ~Active(s)

=============================================================================
