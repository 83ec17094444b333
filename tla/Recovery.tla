------------------------------ MODULE Recovery ------------------------------
(***************************************************************************)
(* The recovery cycle: probe results in, restarts out.  recovery.rs        *)
(* decides, apply_decisions of reduce.rs changes the state of each service *)
(* (status, breaker, history of restarts), and the remediation actions     *)
(* that clear or suspend it come in between.                               *)
(*                                                                         *)
(* Monotonic times are kept relative to now: what is left until a          *)
(* deadline, how long ago something was.  An age stops growing where the   *)
(* code no longer tells it from a greater one.                             *)
(***************************************************************************)
EXTENDS DepGraph, Breaker, FiniteSets, FiniteSetsExt

CONSTANTS
    Services,           \* ids, in the order of a BTreeMap
    Parents,            \* depends_on of each service
    DockerUnits,        \* the services of kind DockerSystemd
    DockerDaemon,       \* the ids of the virtual node docker_daemon, if any
    BackupStop,         \* the services a backup stops and leases
    Severity,           \* severity of each service
    Interval,           \* time between two cycles
    RestartCooldown,    \* restart_cooldown_secs
    MaxRestarts,        \* max_restarts
    Window,             \* breaker_window_secs
    Cooldown,           \* breaker_cooldown_secs
    RingSize,           \* MAX_RESTART_HISTORY
    MaintenanceTime,    \* duration of MarkMaintenance
    Operator            \* whether an operator sends orders

ASSUME RecoveryAssumption ==
    /\ IsFiniteSet(Services) /\ BackupStop \subseteq Services
    /\ Parents \in [Services -> Seq(Services)]
    /\ Severity \in [Services -> {"info", "warning", "critical"}]
    \* With a cooldown of 0 two cycles an operator asks for could restart a
    \* service twice in one second: two records of one age.
    /\ {Interval, RestartCooldown, RingSize, MaxRestarts} \subseteq Nat \ {0}
    /\ {Window, Cooldown, MaintenanceTime} \subseteq Nat
    /\ Operator \in BOOLEAN

VARIABLES
    down,           \* the world: services whose probe fails
    leased,         \* services whose lease a backup holds
    sinceCycle,     \* last_recovery of the loop: age of its last cycle, up to Interval
    status,         \* SvcState.status
    breaker,        \* SvcState.breaker
    history,        \* SvcState.restart_history: ages of restarts, up to Window
    sinceRestart,   \* age of last_restart_mono, up to RestartCooldown
    maintenance,    \* what is left of the maintenance
    dockerRestart   \* whether the last cycle restarted the docker daemon

vars == <<down, leased, sinceCycle, status, breaker, history, sinceRestart,
          maintenance, dockerRestart>>

-----------------------------------------------------------------------------
(* Decisions: recovery.rs *)

\* ServiceStatus with the number it carries: attempt or consecutive.
Status(tag) == [tag |-> tag, n |-> 0]
Unhealthy(n) == [tag |-> "unhealthy", n |-> n]
Recovering(n) == [tag |-> "recovering", n |-> n]

\* Severity::max_restart_attempts
MaxAttempts(s) ==
    CASE Severity[s] = "info" -> 1
      [] Severity[s] = "warning" -> 2
      [] Severity[s] = "critical" -> 3

BlockedNow == Blocked(Parents, down)

\* Two docker services fail on their own, or the daemon's own node does.
DockerRootCause ==
    LET roots == RootCauses(Parents, down)
    IN  Cardinality(roots \cap DockerUnits) >= 2 \/ roots \cap DockerDaemon # {}

\* (mutant) a service that has failed keeps counting
AttemptAfterFailure(s) ==
    CASE status[s].tag \in {"recovering", "unhealthy"} -> status[s].n + 1
      [] status[s].tag = "failed" -> MaxAttempts(s) + 1
      [] OTHER -> 1

\* current_attempt: a service that has failed, or was blocked, begins anew.
Attempt(s) == IF status[s].tag \in {"recovering", "unhealthy"} THEN status[s].n + 1 ELSE 1

Cooling(s) == sinceRestart[s] < RestartCooldown

\* evaluate_single, in its order, with the lease check of apply_decisions.
Decision(s) ==
    IF s \notin down THEN "healthy"
    ELSE IF maintenance[s] > 0 THEN "in_maintenance"
    ELSE IF s \in BlockedNow THEN "blocked"
    ELSE IF DockerRootCause /\ s \in DockerUnits THEN "docker_root_cause"
    ELSE IF ~AllowsRecovery(breaker[s]) \/ Cooling(s) THEN "breaker_open"
    ELSE IF Attempt(s) > MaxAttempts(s) THEN "failed"
    ELSE IF s \in leased THEN "leased"
    ELSE "restart"

-----------------------------------------------------------------------------
(* Init: after the startup probe (handle_startup_probes), which only looks *)

StartupStatus(s) ==
    IF s \notin down THEN Status("healthy")
    ELSE IF s \in BlockedNow THEN Status("blocked")
    ELSE Unhealthy(1)

Init ==
    /\ down \in SUBSET Services
    /\ leased = {}
    /\ sinceCycle = Interval
    /\ status = [s \in Services |-> StartupStatus(s)]
    /\ breaker = [s \in Services |-> Closed]
    /\ history = [s \in Services |-> {}]
    /\ sinceRestart = [s \in Services |-> RestartCooldown]
    /\ maintenance = [s \in Services |-> 0]
    /\ dockerRestart = FALSE

-----------------------------------------------------------------------------
(* The cycle: handle_probes and apply_decisions *)

\* RingBuf::push of a restart that happens now.
Push(ages) ==
    LET all == ages \cup {0}
    IN  IF Cardinality(all) > RingSize THEN all \ {Max(all)} ELSE all

\* (mutant) the attempt is counted again when it is recorded
NewStatusAhead(s, d) ==
    CASE d = "healthy" -> Status("healthy")
      [] d = "restart" -> Recovering(Attempt(s) + 1)
      [] d = "failed" -> Status("failed")
      [] d = "blocked" -> Status("blocked")
      [] OTHER -> status[s]

NewStatus(s, d) ==
    CASE d = "healthy" -> Status("healthy")
      [] d = "restart" -> Recovering(Attempt(s))
      [] d = "failed" -> Status("failed")
      [] d = "blocked" -> Status("blocked")
      [] OTHER -> status[s]

\* (mutant) the restart is counted before it is recorded
NewBreakerEarly(s, d) ==
    CASE d = "healthy" -> OnHealthyProbe(breaker[s])
      [] d = "restart" -> RecordRestart(breaker[s], Cardinality(history[s]), MaxRestarts, Cooldown)
      [] d = "breaker_open" -> MaybeTransition(breaker[s])
      [] OTHER -> breaker[s]

NewBreaker(s, d) ==
    CASE d = "healthy" -> OnHealthyProbe(breaker[s])
      [] d = "restart" ->
            RecordRestart(breaker[s], Cardinality(Push(history[s])), MaxRestarts, Cooldown)
      [] d = "breaker_open" -> MaybeTransition(breaker[s])
      [] OTHER -> breaker[s]

HandleProbes ==
    /\ status' = [s \in Services |-> NewStatus(s, Decision(s))]
    /\ breaker' = [s \in Services |-> NewBreaker(s, Decision(s))]
    /\ history' = [s \in Services |->
                      IF Decision(s) = "restart" THEN Push(history[s]) ELSE history[s]]
    /\ sinceRestart' = [s \in Services |->
                      IF Decision(s) = "restart" THEN 0 ELSE sinceRestart[s]]
    /\ dockerRestart' = (DockerRootCause /\ down # {})
    /\ UNCHANGED <<down, leased, maintenance>>

\* The cycle of the loop's own rhythm.
Cycle == sinceCycle = Interval /\ sinceCycle' = 0 /\ HandleProbes

\* POST /trigger/recovery: a cycle at any time, which the rhythm of the loop
\* knows nothing of.
TriggerCycle == Operator /\ HandleProbes /\ UNCHANGED sinceCycle

-----------------------------------------------------------------------------
(* Remediation: handle_remediation *)

ClearBreaker(s) ==
    /\ breaker' = [breaker EXCEPT ![s] = Closed]
    /\ UNCHANGED <<down, leased, sinceCycle, status, history, sinceRestart, maintenance,
                   dockerRestart>>

ClearFlapping(s) ==
    /\ breaker' = [breaker EXCEPT ![s] = Closed]
    /\ history' = [history EXCEPT ![s] = {}]
    /\ UNCHANGED <<down, leased, sinceCycle, status, sinceRestart, maintenance, dockerRestart>>

MarkMaintenance(s) ==
    /\ maintenance' = [maintenance EXCEPT ![s] = MaintenanceTime]
    /\ UNCHANGED <<down, leased, sinceCycle, status, breaker, history, sinceRestart,
                   dockerRestart>>

ClearMaintenance(s) ==
    /\ maintenance' = [maintenance EXCEPT ![s] = 0]
    /\ UNCHANGED <<down, leased, sinceCycle, status, breaker, history, sinceRestart,
                   dockerRestart>>

Remediation ==
    /\ Operator
    /\ \E s \in Services :
            ClearBreaker(s) \/ ClearFlapping(s) \/ MarkMaintenance(s) \/ ClearMaintenance(s)

-----------------------------------------------------------------------------
(* The rest of the daemon, the world and the clock *)

daemonVars == <<sinceCycle, status, breaker, history, sinceRestart, maintenance, dockerRestart>>

\* start_backup leases and stops its services in one turn of the loop.
BackupStops ==
    /\ BackupStop # {} /\ leased = {}
    /\ leased' = BackupStop /\ down' = down \cup BackupStop
    /\ UNCHANGED daemonVars

BackupRestores ==
    /\ leased # {}
    /\ leased' = {} /\ down' = down \ leased
    /\ UNCHANGED daemonVars

\* A service fails, or comes back, restarted or not.
ServiceFails(s) ==
    /\ s \notin down /\ down' = down \cup {s}
    /\ UNCHANGED <<leased, daemonVars>>

ServiceReturns(s) ==
    /\ s \in down /\ down' = down \ {s}
    /\ UNCHANGED <<leased, daemonVars>>

CapAge(age, bound) == IF age < bound THEN age + 1 ELSE bound

CountDown(left) == IF left > 0 THEN left - 1 ELSE 0

\* One unit of time; a cycle that is due may be late, since the loop executes
\* commands meanwhile.
Tick ==
    /\ sinceCycle' = CapAge(sinceCycle, Interval)
    /\ breaker' = [s \in Services |-> BreakerAges(breaker[s])]
    /\ history' = [s \in Services |-> {a \in 1 .. Window : a - 1 \in history[s]}]
    /\ sinceRestart' = [s \in Services |-> CapAge(sinceRestart[s], RestartCooldown)]
    /\ maintenance' = [s \in Services |-> CountDown(maintenance[s])]
    /\ UNCHANGED <<down, leased, status, dockerRestart>>

World == BackupStops \/ BackupRestores \/ \E s \in Services : ServiceFails(s) \/ ServiceReturns(s)

Next == Cycle \/ TriggerCycle \/ Remediation \/ World \/ Tick

Spec == Init /\ [][Next]_vars /\ WF_vars(Cycle) /\ WF_vars(Tick)

-----------------------------------------------------------------------------
(* Properties *)

StatusOf(s) ==
    {Status(t) : t \in {"healthy", "failed", "blocked"}} \cup {Unhealthy(1)}
        \cup {Recovering(n) : n \in 1 .. MaxAttempts(s)}

TypeOK ==
    /\ down \subseteq Services /\ leased \in {{}, BackupStop}
    /\ sinceCycle \in 0 .. Interval
    /\ \A s \in Services : status[s] \in StatusOf(s)
    /\ breaker \in [Services -> BreakerStates(Cooldown)]
    /\ history \in [Services -> SUBSET (0 .. Window)]
    /\ sinceRestart \in [Services -> 0 .. RestartCooldown]
    /\ maintenance \in [Services -> 0 .. MaintenanceTime]
    /\ dockerRestart \in BOOLEAN

\* From the restart that trips a breaker until its cooldown is over, the
\* service is left alone (evaluate_single, record_restart).
QuietWhileOpen ==
    \A s \in Services : breaker[s].left > 0 =>
        \A age \in history[s] : age >= Cooldown - breaker[s].left

\* Two restarts of a service are a restart cooldown apart, whatever the
\* service did in between, whatever an operator cleared and however many
\* cycles were asked for.
RestartsAreSpaced ==
    \A s \in Services : \A a, b \in history[s] : a < b => b - a >= RestartCooldown

\* No cycle brings the restarts of a window to the threshold and leaves the
\* breaker closed, whatever reset it and however much of the ring was lost.
BreakerTrips ==
    [][\A s \in Services :
            (0 \in history'[s] \ history[s] /\ Cardinality(history'[s]) >= MaxRestarts)
                => breaker'[s].tag = "open"]_vars

Root(s) == s \in RootCauses(Parents, down)

\* A service that is down for good, is nobody's dependent and is neither
\* leased nor suspended, is restarted again and again: no attempt limit and
\* no breaker gives it up.
NeverForgotten ==
    \A s \in Services :
        <>[](/\ Root(s) /\ s \notin leased /\ maintenance[s] = 0
             /\ ~(DockerRootCause /\ s \in DockerUnits))
            => []<>(0 \in history[s])

=============================================================================
