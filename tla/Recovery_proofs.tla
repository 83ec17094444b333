--------------------------- MODULE Recovery_proofs ---------------------------
(***************************************************************************)
(* What Recovery promises for every graph, severity, interval, threshold,  *)
(* window, cooldown and size of the ring, and what GraphBuild promises of  *)
(* the graph that the cycle works on, for every number of services and     *)
(* every depends_on.                                                       *)
(***************************************************************************)
EXTENDS Recovery, GraphBuild, FiniteSetTheorems, SequenceTheorems, TLAPS

\* The restarts on record are not younger than what the daemon remembers of
\* the last restart.
RecordsAreOlder == \A s \in Services : \A a \in history[s] : a >= sinceRestart[s]

IInv == TypeOK /\ QuietWhileOpen /\ RestartsAreSpaced /\ RecordsAreOlder

-----------------------------------------------------------------------------

\* The bounds are numbers.
LEMMA Bounds ==
    /\ Interval \in Nat /\ Interval > 0
    /\ RestartCooldown \in Nat /\ RestartCooldown > 0 /\ Window \in Nat /\ Cooldown \in Nat
    /\ MaintenanceTime \in Nat
BY RecoveryAssumption

\* A ring keeps a part of what it held, and perhaps what is pushed.
LEMMA PushBound ==
    ASSUME NEW ages
    PROVE  Push(ages) \subseteq ages \cup {0}
<1>. DEFINE all == ages \cup {0}
<1>1. all \ {Max(all)} \subseteq all
  OBVIOUS
<1>. QED
  BY <1>1 DEF Push

\* What the operations on a breaker do to its type and to its deadline.
LEMMA BreakerTypes ==
    ASSUME NEW b \in BreakerStates(Cooldown), NEW n
    PROVE  /\ b.left \in 0 .. Cooldown
           /\ OnHealthyProbe(b) \in BreakerStates(Cooldown)
           /\ OnHealthyProbe(b).left = b.left
           /\ MaybeTransition(b) \in BreakerStates(Cooldown)
           /\ MaybeTransition(b).left = b.left
           /\ RecordRestart(b, n, MaxRestarts, Cooldown) \in BreakerStates(Cooldown)
           /\ RecordRestart(b, n, MaxRestarts, Cooldown).left \in {b.left, Cooldown}
           /\ BreakerAges(b) \in BreakerStates(Cooldown)
           /\ BreakerAges(b).left = IF b.left > 0 THEN b.left - 1 ELSE 0
BY Bounds
   DEF BreakerStates, OnHealthyProbe, MaybeTransition, RecordRestart, BreakerAges,
       Open, Closed, HalfOpen

\* A breaker that has been reset.
LEMMA ClosedType == Closed \in BreakerStates(Cooldown) /\ Closed.left = 0
BY Bounds DEF BreakerStates, Closed

\* A restart is decided only where nothing forbids it.
LEMMA RestartGuards ==
    ASSUME NEW s \in Services, Decision(s) = "restart"
    PROVE  /\ AllowsRecovery(breaker[s]) /\ ~ Cooling(s)
           /\ ~ (Attempt(s) > MaxAttempts(s))
BY DEF Decision

-----------------------------------------------------------------------------

LEMMA InitInv == Init => IInv
<1>. SUFFICES ASSUME Init PROVE IInv
  OBVIOUS
<1>1. TypeOK
  <2>1. \A s \in Services : status[s] \in StatusOf(s)
    BY DEF Init, StartupStatus, StatusOf, Status, Unhealthy
  <2>2. breaker \in [Services -> BreakerStates(Cooldown)]
    BY ClosedType DEF Init
  <2>3. /\ history \in [Services -> SUBSET (0 .. Window)]
        /\ sinceRestart \in [Services -> 0 .. RestartCooldown]
        /\ maintenance \in [Services -> 0 .. MaintenanceTime]
    BY Bounds DEF Init
  <2>4. sinceCycle \in 0 .. Interval
    BY Bounds DEF Init
  <2>5. /\ down \subseteq Services /\ leased \in {{}, BackupStop}
        /\ dockerRestart \in BOOLEAN
    BY Zenon DEF Init
  <2>. QED
    BY <2>1, <2>2, <2>3, <2>4, <2>5 DEF TypeOK
<1>2. QuietWhileOpen /\ RestartsAreSpaced /\ RecordsAreOlder
  BY DEF Init, QuietWhileOpen, RestartsAreSpaced, RecordsAreOlder
<1>. QED
  BY <1>1, <1>2 DEF IInv

\* What one cycle does to one service.
LEMMA CycleStep ==
    ASSUME IInv, HandleProbes, NEW s \in Services
    PROVE  /\ status'[s] \in StatusOf(s)
           /\ breaker'[s] \in BreakerStates(Cooldown)
           /\ history'[s] \in SUBSET (0 .. Window)
           /\ sinceRestart'[s] \in 0 .. RestartCooldown
           /\ \/ /\ Decision(s) = "restart"
                 /\ breaker[s].left = 0 /\ sinceRestart[s] >= RestartCooldown
                 /\ breaker'[s].left \in {0, Cooldown}
                 /\ history'[s] \subseteq history[s] \cup {0} /\ sinceRestart'[s] = 0
              \/ /\ breaker'[s].left = breaker[s].left
                 /\ history'[s] = history[s] /\ sinceRestart'[s] = sinceRestart[s]
<1>. DEFINE d == Decision(s)
            b == breaker[s]
<1>1. /\ status'[s] = NewStatus(s, d)
      /\ breaker'[s] = NewBreaker(s, d)
      /\ history'[s] = IF d = "restart" THEN Push(history[s]) ELSE history[s]
      /\ sinceRestart'[s] = IF d = "restart" THEN 0 ELSE sinceRestart[s]
  BY DEF HandleProbes
<1>2. /\ status[s] \in StatusOf(s)
      /\ b \in BreakerStates(Cooldown)
      /\ history[s] \in SUBSET (0 .. Window)
      /\ sinceRestart[s] \in 0 .. RestartCooldown
  BY DEF IInv, TypeOK
<1>3. MaxAttempts(s) \in {1, 2, 3}
  BY RecoveryAssumption DEF MaxAttempts
<1>4. CASE d = "restart"
  <2>1. AllowsRecovery(b) /\ ~ Cooling(s) /\ ~ (Attempt(s) > MaxAttempts(s))
    BY <1>4, RestartGuards
  <2>2. Attempt(s) \in 1 .. MaxAttempts(s)
    BY <1>2, <1>3, <2>1 DEF Attempt, StatusOf, Status, Unhealthy, Recovering
  <2>3. status'[s] \in StatusOf(s)
    BY <1>1, <1>4, <2>2 DEF NewStatus, StatusOf
  <2>4. b.left = 0 /\ sinceRestart[s] >= RestartCooldown
    BY <1>2, <2>1, Bounds DEF AllowsRecovery, Cooling
  <2>5. /\ breaker'[s] \in BreakerStates(Cooldown)
        /\ breaker'[s].left \in {0, Cooldown}
    BY <1>1, <1>2, <1>4, <2>4, BreakerTypes DEF NewBreaker
  <2>6. history'[s] \subseteq history[s] \cup {0}
    BY <1>1, <1>4, PushBound
  <2>. QED
    BY <1>1, <1>2, <1>4, <2>3, <2>4, <2>5, <2>6, Bounds
<1>5. CASE d # "restart"
  <2>1. status'[s] \in StatusOf(s)
    BY <1>1, <1>2, <1>5 DEF NewStatus, StatusOf
  <2>2. /\ breaker'[s] \in BreakerStates(Cooldown)
        /\ breaker'[s].left = b.left
    BY <1>1, <1>2, <1>5, BreakerTypes DEF NewBreaker
  <2>. QED
    BY <1>1, <1>2, <1>5, <2>1, <2>2
<1>. QED
  BY <1>4, <1>5

\* A cycle, whoever asks for it.
LEMMA CycleInv == IInv /\ (Cycle \/ TriggerCycle) => IInv'
<1>. SUFFICES ASSUME IInv, Cycle \/ TriggerCycle PROVE IInv'
  OBVIOUS
<1>. HandleProbes /\ sinceCycle' \in 0 .. Interval
  BY Bounds DEF Cycle, TriggerCycle, IInv, TypeOK
<1>1. TypeOK'
  <2>1. /\ DOMAIN breaker' = Services /\ DOMAIN history' = Services
        /\ DOMAIN sinceRestart' = Services
        /\ breaker' = [s \in Services |-> breaker'[s]]
        /\ history' = [s \in Services |-> history'[s]]
        /\ sinceRestart' = [s \in Services |-> sinceRestart'[s]]
    BY DEF HandleProbes
  <2>2. breaker' \in [Services -> BreakerStates(Cooldown)]
    BY <2>1, CycleStep
  <2>3. history' \in [Services -> SUBSET (0 .. Window)]
    BY <2>1, CycleStep
  <2>4. sinceRestart' \in [Services -> 0 .. RestartCooldown]
    BY <2>1, CycleStep
  <2>5. \A s \in Services : status'[s] \in StatusOf(s)
    BY CycleStep
  <2>6. dockerRestart' \in BOOLEAN /\ sinceCycle' \in 0 .. Interval
    BY Bounds DEF HandleProbes
  <2>7. /\ down' \subseteq Services /\ leased' \in {{}, BackupStop}
        /\ maintenance' \in [Services -> 0 .. MaintenanceTime]
    BY DEF HandleProbes, IInv, TypeOK
  <2>. QED
    BY <2>2, <2>3, <2>4, <2>5, <2>6, <2>7 DEF TypeOK, StatusOf, MaxAttempts
<1>2. QuietWhileOpen'
  <2>. SUFFICES ASSUME NEW s \in Services, breaker'[s].left > 0, NEW a \in history'[s]
                PROVE  a >= Cooldown - breaker'[s].left
    BY DEF QuietWhileOpen
  <2>1. breaker'[s].left \in 0 .. Cooldown /\ a \in 0 .. Window
    BY CycleStep, BreakerTypes
  <2>2. CASE breaker'[s].left = Cooldown
    BY <2>1, <2>2, Bounds
  <2>3. CASE breaker'[s].left # Cooldown
    <3>1. breaker'[s].left = breaker[s].left /\ history'[s] = history[s]
      BY <2>1, <2>3, CycleStep
    <3>. QED
      BY <3>1 DEF IInv, QuietWhileOpen
  <2>. QED
    BY <2>2, <2>3
<1>3. RestartsAreSpaced'
  <2>. SUFFICES ASSUME NEW s \in Services, NEW a \in history'[s], NEW b \in history'[s], a < b
                PROVE  b - a >= RestartCooldown
    BY DEF RestartsAreSpaced
  <2>1. a \in 0 .. Window /\ b \in 0 .. Window
    BY CycleStep
  <2>2. CASE a \in history[s] /\ b \in history[s]
    BY <2>2 DEF IInv, RestartsAreSpaced
  <2>3. CASE ~(a \in history[s] /\ b \in history[s])
    <3>1. sinceRestart[s] >= RestartCooldown /\ history'[s] \subseteq history[s] \cup {0}
      BY <2>3, CycleStep
    <3>2. a = 0 /\ b \in history[s]
      BY <2>1, <2>3, <3>1
    <3>3. b >= sinceRestart[s]
      BY <3>2 DEF IInv, RecordsAreOlder
    <3>4. sinceRestart[s] \in 0 .. RestartCooldown
      BY DEF IInv, TypeOK
    <3>. QED
      BY <2>1, <3>1, <3>2, <3>3, <3>4, Bounds
  <2>. QED
    BY <2>2, <2>3
<1>4. RecordsAreOlder'
  <2>. SUFFICES ASSUME NEW s \in Services, NEW a \in history'[s]
                PROVE  a >= sinceRestart'[s]
    BY DEF RecordsAreOlder
  <2>1. a \in 0 .. Window
    BY CycleStep
  <2>2. CASE sinceRestart'[s] = 0
    BY <2>1, <2>2
  <2>3. CASE sinceRestart'[s] # 0
    <3>1. history'[s] = history[s] /\ sinceRestart'[s] = sinceRestart[s]
      BY <2>3, CycleStep
    <3>. QED
      BY <2>1, <3>1 DEF IInv, RecordsAreOlder
  <2>. QED
    BY <2>2, <2>3
<1>. QED
  BY <1>1, <1>2, <1>3, <1>4 DEF IInv

LEMMA TickInv == IInv /\ Tick => IInv'
<1>. SUFFICES ASSUME IInv, Tick PROVE IInv'
  OBVIOUS
<1>1. ASSUME NEW s \in Services
      PROVE  /\ breaker'[s] \in BreakerStates(Cooldown)
             /\ breaker[s].left \in 0 .. Cooldown
             /\ breaker'[s].left = IF breaker[s].left > 0 THEN breaker[s].left - 1 ELSE 0
             /\ \A a \in history'[s] : a \in 1 .. Window /\ a - 1 \in history[s]
             /\ sinceRestart[s] \in 0 .. RestartCooldown
             /\ sinceRestart'[s] = CapAge(sinceRestart[s], RestartCooldown)
  <2>1. breaker[s] \in BreakerStates(Cooldown) /\ breaker'[s] = BreakerAges(breaker[s])
    BY DEF IInv, TypeOK, Tick
  <2>. QED
    BY <2>1, BreakerTypes DEF IInv, TypeOK, Tick
<1>2. sinceCycle \in 0 .. Interval /\ sinceCycle' = CapAge(sinceCycle, Interval)
  BY DEF IInv, TypeOK, Tick
<1>3. TypeOK'
  <2>1. breaker' \in [Services -> BreakerStates(Cooldown)]
    BY <1>1 DEF Tick
  <2>2. history' \in [Services -> SUBSET (0 .. Window)]
    BY Bounds DEF Tick
  <2>3. sinceRestart' \in [Services -> 0 .. RestartCooldown]
    BY <1>1, Bounds DEF Tick, CapAge
  <2>4. maintenance' \in [Services -> 0 .. MaintenanceTime]
    BY Bounds DEF Tick, CountDown, IInv, TypeOK
  <2>5. sinceCycle' \in 0 .. Interval
    BY <1>2, Bounds DEF CapAge
  <2>6. /\ down' \subseteq Services /\ leased' \in {{}, BackupStop}
        /\ \A s \in Services : status'[s] \in StatusOf(s)
        /\ dockerRestart' \in BOOLEAN
    BY DEF Tick, IInv, TypeOK
  <2>. QED
    BY <2>1, <2>2, <2>3, <2>4, <2>5, <2>6 DEF TypeOK, StatusOf, MaxAttempts
<1>4. QuietWhileOpen'
  <2>. SUFFICES ASSUME NEW s \in Services, breaker'[s].left > 0, NEW a \in history'[s]
                PROVE  a >= Cooldown - breaker'[s].left
    BY DEF QuietWhileOpen
  <2>1. a \in 1 .. Window /\ a - 1 \in history[s]
    BY <1>1
  <2>2. breaker[s].left \in 0 .. Cooldown /\ breaker[s].left > 0
        /\ breaker'[s].left = breaker[s].left - 1
    BY <1>1, Bounds
  <2>3. a - 1 >= Cooldown - breaker[s].left
    BY <2>1, <2>2 DEF IInv, QuietWhileOpen
  <2>. QED
    BY <2>1, <2>2, <2>3, Bounds
<1>5. RestartsAreSpaced'
  <2>. SUFFICES ASSUME NEW s \in Services, NEW a \in history'[s], NEW b \in history'[s], a < b
                PROVE  b - a >= RestartCooldown
    BY DEF RestartsAreSpaced
  <2>1. /\ a \in 1 .. Window /\ a - 1 \in history[s]
        /\ b \in 1 .. Window /\ b - 1 \in history[s]
    BY <1>1
  <2>2. a - 1 < b - 1
    BY <2>1, Bounds
  <2>3. (b - 1) - (a - 1) >= RestartCooldown
    BY <2>1, <2>2 DEF IInv, RestartsAreSpaced
  <2>. QED
    BY <2>1, <2>3, Bounds
<1>6. RecordsAreOlder'
  <2>. SUFFICES ASSUME NEW s \in Services, NEW a \in history'[s]
                PROVE  a >= sinceRestart'[s]
    BY DEF RecordsAreOlder
  <2>1. a \in 1 .. Window /\ a - 1 \in history[s]
    BY <1>1
  <2>2. a - 1 >= sinceRestart[s]
    BY <2>1 DEF IInv, RecordsAreOlder
  <2>. QED
    BY <1>1, <2>1, <2>2, Bounds DEF CapAge
<1>. QED
  BY <1>3, <1>4, <1>5, <1>6 DEF IInv

\* Whoever neither records a restart nor lets time pass: breakers may be
\* closed and records be forgotten.
LEMMA OtherInv == IInv /\ (Remediation \/ World \/ UNCHANGED vars) => IInv'
<1>. SUFFICES ASSUME IInv, Remediation \/ World \/ UNCHANGED vars PROVE IInv'
  OBVIOUS
<1>1. /\ breaker' \in [Services -> BreakerStates(Cooldown)]
      /\ \A s \in Services : breaker'[s] = breaker[s] \/ breaker'[s].left = 0
      /\ \A s \in Services : history'[s] \subseteq history[s]
      /\ history' \in [Services -> SUBSET (0 .. Window)]
      /\ maintenance' \in [Services -> 0 .. MaintenanceTime]
      /\ UNCHANGED <<sinceCycle, status, sinceRestart, dockerRestart>>
  <2>1. CASE Remediation
    <3>1. PICK s \in Services : \/ ClearBreaker(s) \/ ClearFlapping(s)
                                \/ MarkMaintenance(s) \/ ClearMaintenance(s)
      BY <2>1 DEF Remediation
    <3>2. CASE ClearBreaker(s)
      BY <3>2, ClosedType DEF ClearBreaker, IInv, TypeOK
    <3>3. CASE ClearFlapping(s)
      BY <3>3, ClosedType DEF ClearFlapping, IInv, TypeOK
    <3>4. CASE MarkMaintenance(s)
      BY <3>4, Bounds DEF MarkMaintenance, IInv, TypeOK
    <3>5. CASE ClearMaintenance(s)
      BY <3>5, Bounds DEF ClearMaintenance, IInv, TypeOK
    <3>. QED
      BY <3>1, <3>2, <3>3, <3>4, <3>5
  <2>2. CASE World
    BY <2>2 DEF World, BackupStops, BackupRestores, ServiceFails, ServiceReturns, daemonVars,
                IInv, TypeOK
  <2>3. CASE UNCHANGED vars
    BY <2>3 DEF vars, IInv, TypeOK
  <2>. QED
    BY <2>1, <2>2, <2>3
<1>2. down' \subseteq Services /\ leased' \in {{}, BackupStop}
  <2>1. CASE Remediation
    BY <2>1 DEF Remediation, ClearBreaker, ClearFlapping, MarkMaintenance, ClearMaintenance,
                IInv, TypeOK
  <2>2. CASE World
    BY <2>2, RecoveryAssumption
       DEF World, BackupStops, BackupRestores, ServiceFails, ServiceReturns, IInv, TypeOK
  <2>3. CASE UNCHANGED vars
    BY <2>3 DEF vars, IInv, TypeOK
  <2>. QED
    BY <2>1, <2>2, <2>3
<1>3. TypeOK'
  BY <1>1, <1>2 DEF IInv, TypeOK, StatusOf, MaxAttempts
<1>4. QuietWhileOpen'
  BY <1>1 DEF IInv, QuietWhileOpen
<1>5. RestartsAreSpaced'
  BY <1>1 DEF IInv, RestartsAreSpaced
<1>6. RecordsAreOlder'
  BY <1>1 DEF IInv, RecordsAreOlder
<1>. QED
  BY <1>3, <1>4, <1>5, <1>6 DEF IInv

-----------------------------------------------------------------------------

\* The invariant the results below rest on: what TypeOK, QuietWhileOpen and
\* RestartsAreSpaced need to survive a step is how old the records are.
THEOREM RecoveryInductive == Spec => []IInv
<1>1. IInv /\ [Next]_vars => IInv'
  BY CycleInv, TickInv, OtherInv DEF Next
<1>. QED
  BY InitInv, <1>1, PTL DEF Spec

\* The state of every service keeps its type; no attempt exceeds the limit of
\* its severity (evaluate_single).
THEOREM RecoveryTypeCorrect == Spec => []TypeOK
<1>1. IInv => TypeOK
  BY DEF IInv
<1>. QED
  BY <1>1, RecoveryInductive, PTL

\* From the restart that trips a breaker to the end of its cooldown nothing
\* restarts the service on the daemon's own account (record_restart,
\* allows_recovery).
THEOREM BreakerKeepsQuiet == Spec => []QuietWhileOpen
<1>1. IInv => QuietWhileOpen
  BY DEF IInv
<1>. QED
  BY <1>1, RecoveryInductive, PTL

\* Restarts of a service are a restart cooldown apart, also after
\* ClearBreaker, ClearFlapping and in cycles that POST /trigger/recovery asks
\* for (evaluate_single).
THEOREM RestartsKeepTheirDistance == Spec => []RestartsAreSpaced
<1>1. IInv => RestartsAreSpaced
  BY DEF IInv
<1>. QED
  BY <1>1, RecoveryInductive, PTL

\* Whoever adds a restart to a history is a cycle.
LEMMA OnlyCyclesRestart ==
    ASSUME IInv, [Next]_vars, NEW s \in Services, 0 \in history'[s] \ history[s]
    PROVE  HandleProbes
<1>1. CASE Tick
  <2>1. history'[s] \subseteq 1 .. Window
    BY <1>1 DEF Tick
  <2>. QED
    BY <2>1, Bounds
<1>2. CASE Remediation
  <2>1. PICK t \in Services : \/ ClearBreaker(t) \/ ClearFlapping(t)
                              \/ MarkMaintenance(t) \/ ClearMaintenance(t)
    BY <1>2 DEF Remediation
  <2>2. history'[s] \subseteq history[s]
    BY <2>1 DEF ClearBreaker, ClearFlapping, MarkMaintenance, ClearMaintenance, IInv, TypeOK
  <2>. QED
    BY <2>2
<1>3. CASE World
  BY <1>3 DEF World, BackupStops, BackupRestores, ServiceFails, ServiceReturns, daemonVars
<1>4. CASE UNCHANGED vars
  BY <1>4 DEF vars
<1>. QED
  BY <1>1, <1>2, <1>3, <1>4 DEF Next, Cycle, TriggerCycle

\* The restart that reaches the threshold within the window finds the breaker
\* open, or opens it, however the threshold, the window and the ring relate
\* (apply_decisions, record_restart).
THEOREM ThresholdTrips == Spec => BreakerTrips
<1>. DEFINE Trips ==
        \A s \in Services :
            (0 \in history'[s] \ history[s] /\ Cardinality(history'[s]) >= MaxRestarts)
                => breaker'[s].tag = "open"
<1>1. IInv /\ [Next]_vars => Trips
  <2>. SUFFICES ASSUME IInv, [Next]_vars, NEW s \in Services,
                       0 \in history'[s] \ history[s],
                       Cardinality(history'[s]) >= MaxRestarts
                PROVE  breaker'[s].tag = "open"
    OBVIOUS
  <2>1. HandleProbes
    BY OnlyCyclesRestart
  <2>2. Decision(s) = "restart" /\ history'[s] = Push(history[s])
    BY <2>1 DEF HandleProbes
  <2>3. breaker'[s] = RecordRestart(breaker[s], Cardinality(history'[s]), MaxRestarts, Cooldown)
    BY <2>1, <2>2 DEF HandleProbes, NewBreaker
  <2>4. breaker[s] \in BreakerStates(Cooldown)
    BY DEF IInv, TypeOK
  <2>. QED
    BY <2>3, <2>4 DEF RecordRestart, Open, BreakerStates
<1>2. IInv /\ [Next]_vars => [Trips]_vars
  BY <1>1
<1>. QED
  BY <1>2, RecoveryInductive, PTL DEF Spec, BreakerTrips

-----------------------------------------------------------------------------
(* The graph that the cycle works on, as GraphBuild builds it.             *)

\* The entries of c that are not counted yet: those for a node that has not
\* been taken, and what is left of those for the last one.
Uncounted(c) ==
    {i \in DOMAIN parents[c] : parents[c][i] \notin Range(order)} \cup visits[c]

SortTypes ==
    /\ parents \in [Ids -> Seq(Ids \cup {0})]
    /\ inDegree \in [Ids -> Nat]
    /\ queue \in Seq(Ids) /\ order \in Seq(Ids)
    /\ visits \in [Ids -> SUBSET Nat]
    /\ \A c \in Ids : \A i \in visits[c] :
            i \in DOMAIN parents[c] /\ parents[c][i] \in Range(order)

\* in_degree counts the entries, and who has none left is queued, once.
SortCounts ==
    /\ \A c \in Ids : inDegree[c] = Cardinality(Uncounted(c))
    /\ \A c \in Ids : c \in Range(order) \cup Range(queue) <=> Uncounted(c) = {}
    /\ IsInjective(order) /\ IsInjective(queue)
    /\ Range(order) \cap Range(queue) = {}

SortOrders ==
    \A i \in DOMAIN order : \A p \in Range(parents[order[i]]) :
        \E k \in 1 .. i - 1 : order[k] = p

\* What the result says of the order.
SortEnds ==
    /\ result \in {"sorting", "ok", "cycle"} => \A c \in Ids : parents[c] \in Seq(Ids)
    /\ result # "sorting" => Counted
    /\ result = "ok" => Range(order) = Ids
    /\ result = "cycle" => queue = <<>> /\ Range(order) # Ids

SortInv == SortTypes /\ SortCounts /\ SortOrders /\ SortEnds

\* Sequences that grow at one end and shrink at the other.
LEMMA AppendOnce ==
    ASSUME NEW S, NEW s \in Seq(S), NEW e \in S
    PROVE  /\ Append(s, e) \in Seq(S)
           /\ Range(Append(s, e)) = Range(s) \cup {e}
           /\ IsInjective(s) /\ e \notin Range(s) => IsInjective(Append(s, e))
<1>1. /\ Append(s, e) \in Seq(S) /\ Len(Append(s, e)) = Len(s) + 1
      /\ \A i \in 1 .. Len(s) : Append(s, e)[i] = s[i]
      /\ Append(s, e)[Len(s) + 1] = e
      /\ Len(s) \in Nat
      /\ DOMAIN s = 1 .. Len(s) /\ DOMAIN Append(s, e) = 1 .. Len(s) + 1
  BY AppendProperties, LenProperties
<1>2. Range(Append(s, e)) = Range(s) \cup {e}
  <2>1. ASSUME NEW x \in Range(Append(s, e)) PROVE x \in Range(s) \cup {e}
    <3>1. PICK i \in 1 .. Len(s) + 1 : x = Append(s, e)[i]
      BY <1>1 DEF Range
    <3>2. i \in 1 .. Len(s) \/ i = Len(s) + 1
      BY <1>1
    <3> QED
      BY <1>1, <3>1, <3>2 DEF Range
  <2>2. ASSUME NEW x \in Range(s) PROVE x \in Range(Append(s, e))
    <3>1. PICK i \in 1 .. Len(s) : x = s[i]
      BY <1>1 DEF Range
    <3>2. i \in 1 .. Len(s) + 1
      BY <1>1
    <3> QED
      BY <1>1, <3>1, <3>2 DEF Range
  <2>3. e \in Range(Append(s, e))
    BY <1>1 DEF Range
  <2> QED
    BY <2>1, <2>2, <2>3
<1>3. ASSUME IsInjective(s), e \notin Range(s),
             NEW i \in 1 .. Len(s) + 1, NEW j \in 1 .. Len(s) + 1,
             Append(s, e)[i] = Append(s, e)[j]
      PROVE  i = j
  <2>1. \A k \in 1 .. Len(s) : s[k] # e
    BY <1>1, <1>3 DEF Range
  <2>2. /\ i \in 1 .. Len(s) \/ i = Len(s) + 1
        /\ j \in 1 .. Len(s) \/ j = Len(s) + 1
    BY <1>1
  <2> QED
    BY <1>1, <1>3, <2>1, <2>2 DEF IsInjective
<1> QED
  BY <1>1, <1>2, <1>3 DEF IsInjective

LEMMA TailOnce ==
    ASSUME NEW S, NEW s \in Seq(S), s # <<>>, IsInjective(s)
    PROVE  /\ Head(s) \in S /\ Tail(s) \in Seq(S)
           /\ Range(s) = {Head(s)} \cup Range(Tail(s))
           /\ Head(s) \notin Range(Tail(s))
           /\ IsInjective(Tail(s))
<1>1. /\ Head(s) \in S /\ Tail(s) \in Seq(S) /\ Len(Tail(s)) = Len(s) - 1
      /\ \A i \in 1 .. Len(Tail(s)) : Tail(s)[i] = s[i + 1]
      /\ Len(s) \in Nat /\ Len(s) > 0 /\ Head(s) = s[1]
      /\ DOMAIN s = 1 .. Len(s) /\ DOMAIN Tail(s) = 1 .. Len(s) - 1
  BY HeadTailProperties, LenProperties, EmptySeq
<1>2. \A i \in 1 .. Len(s) - 1 : i + 1 \in 1 .. Len(s) /\ i + 1 # 1 /\ Tail(s)[i] = s[i + 1]
  BY <1>1
<1>3. Range(s) = {Head(s)} \cup Range(Tail(s))
  <2>1. ASSUME NEW x \in Range(s) PROVE x \in {Head(s)} \cup Range(Tail(s))
    <3>1. PICK i \in 1 .. Len(s) : x = s[i]
      BY <1>1 DEF Range
    <3>2. CASE i = 1
      BY <1>1, <3>1, <3>2
    <3>3. CASE i # 1
      <4>1. i - 1 \in 1 .. Len(s) - 1 /\ (i - 1) + 1 = i
        BY <1>1, <3>3
      <4>2. Tail(s)[i - 1] = x
        BY <1>2, <3>1, <4>1
      <4> QED
        BY <1>1, <4>1, <4>2 DEF Range
    <3> QED
      BY <3>2, <3>3
  <2>2. ASSUME NEW x \in Range(Tail(s)) PROVE x \in Range(s)
    BY <1>1, <1>2 DEF Range
  <2>3. Head(s) \in Range(s)
    BY <1>1 DEF Range
  <2> QED
    BY <2>1, <2>2, <2>3
<1>4. Head(s) \notin Range(Tail(s))
  BY <1>1, <1>2 DEF Range, IsInjective
<1>5. ASSUME NEW i \in 1 .. Len(s) - 1, NEW j \in 1 .. Len(s) - 1, Tail(s)[i] = Tail(s)[j]
      PROVE  i = j
  <2>1. i + 1 = j + 1
    BY <1>1, <1>2, <1>5 DEF IsInjective
  <2> QED
    BY <2>1
<1> QED
  BY <1>1, <1>3, <1>4, <1>5 DEF IsInjective

LEMMA ConcatOnce ==
    ASSUME NEW S, NEW s \in Seq(S), NEW t \in Seq(S), IsInjective(s), IsInjective(t),
           Range(s) \cap Range(t) = {}
    PROVE  IsInjective(s \o t)
<1>1. /\ Len(s) \in Nat /\ Len(t) \in Nat
      /\ DOMAIN s = 1 .. Len(s) /\ DOMAIN t = 1 .. Len(t)
      /\ DOMAIN (s \o t) = 1 .. Len(s) + Len(t)
      /\ \A i \in 1 .. Len(s) + Len(t) :
            (s \o t)[i] = IF i <= Len(s) THEN s[i] ELSE t[i - Len(s)]
  BY ConcatProperties, LenProperties
<1>2. \A i \in 1 .. Len(s) : \A j \in 1 .. Len(t) : s[i] # t[j]
  BY <1>1 DEF Range
<1>3. ASSUME NEW i \in 1 .. Len(s) + Len(t), NEW j \in 1 .. Len(s) + Len(t),
             (s \o t)[i] = (s \o t)[j]
      PROVE  i = j
  <2>1. CASE i <= Len(s) /\ j <= Len(s)
    BY <1>1, <1>3, <2>1 DEF IsInjective
  <2>2. CASE i > Len(s) /\ j > Len(s)
    <3>1. i - Len(s) \in 1 .. Len(t) /\ j - Len(s) \in 1 .. Len(t)
      BY <1>1, <2>2
    <3>2. t[i - Len(s)] = t[j - Len(s)]
      BY <1>1, <1>3, <2>2
    <3>3. i - Len(s) = j - Len(s)
      BY <1>1, <3>1, <3>2 DEF IsInjective
    <3> QED
      BY <1>1, <3>3
  <2>3. CASE i <= Len(s) /\ j > Len(s)
    <3>1. i \in 1 .. Len(s) /\ j - Len(s) \in 1 .. Len(t)
      BY <1>1, <2>3
    <3> QED
      BY <1>1, <1>2, <1>3, <2>3, <3>1
  <2>4. CASE i > Len(s) /\ j <= Len(s)
    <3>1. j \in 1 .. Len(s) /\ i - Len(s) \in 1 .. Len(t)
      BY <1>1, <2>4
    <3> QED
      BY <1>1, <1>2, <1>3, <2>4, <3>1
  <2> QED
    BY <1>1, <2>1, <2>2, <2>3, <2>4
<1> QED
  BY <1>1, <1>3 DEF IsInjective

\* A service has finitely many entries, and what is not counted is among them.
LEMMA UncountedFinite ==
    ASSUME SortTypes, NEW c \in Ids
    PROVE  /\ Uncounted(c) \subseteq DOMAIN parents[c]
           /\ IsFiniteSet(Uncounted(c)) /\ Cardinality(Uncounted(c)) \in Nat
           /\ Uncounted(c) = {} <=> Cardinality(Uncounted(c)) = 0
<1>1. parents[c] \in Seq(Ids \cup {0})
  BY DEF SortTypes
<1>2. Len(parents[c]) \in Nat /\ DOMAIN parents[c] = 1 .. Len(parents[c])
  BY <1>1, LenProperties
<1>3. IsFiniteSet(DOMAIN parents[c])
  BY <1>2, FS_Interval
<1>4. Uncounted(c) \subseteq DOMAIN parents[c]
  BY DEF SortTypes, Uncounted
<1>5. IsFiniteSet(Uncounted(c))
  BY <1>3, <1>4, FS_Subset
<1> QED
  BY <1>4, <1>5, FS_CardinalityType, FS_EmptySet

LEMMA SortBegins == BuildInit => SortInv
<1> SUFFICES ASSUME BuildInit PROVE SortInv
  OBVIOUS
<1>1. Count \in Nat /\ MaxDeps \in Nat
  BY DepGraphAssumption
<1> DEFINE seeds == {s \in Ids : Len(parents[s]) = 0}
<1>2. /\ parents \in [Ids -> Seq(Ids \cup {0})]
      /\ inDegree = [s \in Ids |-> Len(parents[s])]
      /\ order = <<>>
      /\ visits = [s \in Ids |-> {}]
      /\ result = IF Invalid = "none" THEN "sorting" ELSE Invalid
  <2>1. ASSUME NEW q \in BoundedSeq(Ids \cup {0}, MaxDeps)
        PROVE  q \in Seq(Ids \cup {0})
    <3>1. PICK n \in 0 .. MaxDeps : q \in [1 .. n -> Ids \cup {0}]
      BY DEF BoundedSeq, SeqOf
    <3>2. n \in Nat
      BY <1>1
    <3> QED
      BY <3>1, <3>2, SeqDef
  <2>2. parents \in [Ids -> BoundedSeq(Ids \cup {0}, MaxDeps)]
    BY DEF BuildInit, Undefined
  <2>3. parents \in [Ids -> Seq(Ids \cup {0})]
    BY <2>1, <2>2
  <2> QED
    BY <2>3 DEF BuildInit
<1>3. \A c \in Ids : Len(parents[c]) \in Nat /\ DOMAIN parents[c] = 1 .. Len(parents[c])
  BY <1>2, LenProperties
<1>4. Range(order) = {} /\ order \in Seq(Ids) /\ IsInjective(order) /\ DOMAIN order = {}
  BY <1>2 DEF Range, IsInjective
<1>5. \A c \in Ids : Uncounted(c) = 1 .. Len(parents[c])
  BY <1>2, <1>3, <1>4 DEF Uncounted
<1>6. IsFiniteSet(seeds) /\ Cardinality(seeds) \in Nat
  <2>1. IsFiniteSet(Ids)
    BY <1>1, FS_Interval DEF Ids
  <2>2. IsFiniteSet(seeds)
    BY <2>1, FS_Subset
  <2> QED
    BY <2>2, FS_CardinalityType
<1>7. /\ queue \in [1 .. Cardinality(seeds) -> seeds]
      /\ IsInjective(queue)
  <2>1. queue \in SetToSeqs(seeds)
    BY DEF BuildInit
  <2> HIDE DEF seeds
  <2>2. /\ queue \in [1 .. Cardinality(seeds) -> seeds]
        /\ \A i, j \in 1 .. Cardinality(seeds) : i # j => queue[i] # queue[j]
    BY <2>1 DEF SetToSeqs
  <2> QED
    BY <2>2 DEF IsInjective
<1>8. queue \in Seq(Ids)
  <2>1. queue \in [1 .. Cardinality(seeds) -> Ids]
    BY <1>7
  <2> HIDE DEF seeds
  <2>2. PICK n \in Nat : n = Cardinality(seeds)
    BY <1>6
  <2>3. queue \in [1 .. n -> Ids]
    BY <2>1, <2>2
  <2> QED
    BY <2>3, SeqDef
<1>9. Range(queue) = seeds
  <2>1. queue \in Injection(1 .. Cardinality(seeds), seeds)
    BY <1>7 DEF Injection
  <2>2. Cardinality(1 .. Cardinality(seeds)) = Cardinality(seeds)
    BY <1>6, FS_Interval
  <2>3. queue \in Surjection(1 .. Cardinality(seeds), seeds)
    BY <1>6, <2>1, <2>2, FS_Injection
  <2> HIDE DEF seeds
  <2> QED
    BY <1>7, <2>3 DEF Surjection, Range
<1>10. SortTypes
  BY <1>2, <1>3, <1>4, <1>8 DEF SortTypes
<1>11. \A c \in Ids : inDegree[c] = Cardinality(Uncounted(c))
  <2> SUFFICES ASSUME NEW c \in Ids PROVE inDegree[c] = Cardinality(1 .. Len(parents[c]))
    BY <1>5
  <2>1. Cardinality(1 .. Len(parents[c])) = Len(parents[c])
    BY <1>3, FS_Interval
  <2> QED
    BY <1>2, <2>1
<1>12. \A c \in Ids : c \in seeds <=> Uncounted(c) = {}
  BY <1>3, <1>5
<1>13. SortCounts
  BY <1>4, <1>7, <1>9, <1>11, <1>12 DEF SortCounts
<1>14. SortOrders
  BY <1>4 DEF SortOrders
<1>15. SortEnds
  <2>1. result \in {"sorting", "unknown", "self"} /\ (result = "sorting" => Invalid = "none")
    BY <1>2 DEF Invalid
  <2>2. ASSUME result = "sorting", NEW c \in Ids PROVE parents[c] \in Seq(Ids)
    <3>1. \A i \in 1 .. Len(parents[c]) : parents[c][i] # 0
      BY <1>3, <2>1, <2>2 DEF Invalid, ToSet, Undefined
    <3>2. parents[c] \in [1 .. Len(parents[c]) -> Ids \cup {0}]
      BY <1>2, LenProperties
    <3>3. parents[c] \in [1 .. Len(parents[c]) -> Ids]
      BY <3>1, <3>2
    <3> QED
      BY <1>3, <3>3
  <2>3. Counted
    BY <1>2 DEF Counted
  <2> QED
    BY <2>1, <2>2, <2>3 DEF SortEnds
<1> QED
  BY <1>10, <1>13, <1>14, <1>15 DEF SortInv

\* The first of the queue has no entry left, so that all it depends on has
\* been taken before; its dependents' entries are now the ones to be counted.
LEMMA SortTake == SortInv /\ Take => SortInv'
<1> SUFFICES ASSUME SortInv, Take PROVE SortInv'
  OBVIOUS
<1> DEFINE node == Head(queue)
<1>1. /\ result = "sorting" /\ queue # <<>>
      /\ \A c \in Ids : visits[c] = {}
      /\ order' = Append(order, node) /\ queue' = Tail(queue)
      /\ visits' = [c \in Ids |-> {i \in DOMAIN parents[c] : parents[c][i] = node}]
      /\ UNCHANGED <<parents, inDegree, result>>
  BY DEF Take, Counted
<1>2. /\ queue \in Seq(Ids) /\ order \in Seq(Ids)
      /\ IsInjective(queue) /\ IsInjective(order) /\ Range(order) \cap Range(queue) = {}
      /\ parents \in [Ids -> Seq(Ids \cup {0})]
  BY DEF SortInv, SortTypes, SortCounts
<1>3. /\ node \in Ids /\ queue' \in Seq(Ids) /\ IsInjective(queue')
      /\ Range(queue) = {node} \cup Range(queue') /\ node \notin Range(queue')
  BY <1>1, <1>2, TailOnce
<1>4. /\ order' \in Seq(Ids) /\ IsInjective(order') /\ Range(order') = Range(order) \cup {node}
  BY <1>1, <1>2, <1>3, AppendOnce
<1> HIDE DEF node
<1>5. \A c \in Ids : /\ Len(parents[c]) \in Nat /\ DOMAIN parents[c] = 1 .. Len(parents[c])
                       /\ visits'[c] = {i \in DOMAIN parents[c] : parents[c][i] = node}
  BY <1>1, <1>2, LenProperties
<1>6. SortTypes'
  <2>1. visits' \in [Ids -> SUBSET Nat]
    BY <1>1, <1>5
  <2>2. \A c \in Ids : \A i \in visits'[c] :
            i \in DOMAIN parents'[c] /\ parents'[c][i] \in Range(order')
    BY <1>1, <1>4, <1>5
  <2>3. inDegree' \in [Ids -> Nat]
    BY <1>1 DEF SortInv, SortTypes
  <2> QED
    BY <1>1, <1>2, <1>3, <1>4, <2>1, <2>2, <2>3 DEF SortTypes
<1>7. ASSUME NEW c \in Ids
      PROVE  {i \in DOMAIN parents'[c] : parents'[c][i] \notin Range(order')} \cup visits'[c]
             = Uncounted(c)
  <2>1. visits[c] = {} /\ node \notin Range(order) /\ parents' = parents
    BY <1>1, <1>2, <1>3
  <2> QED
    BY <1>4, <1>5, <2>1 DEF Uncounted
<1>8. SortCounts'
  <2>1. \A c \in Ids : inDegree'[c] = Cardinality(Uncounted(c))
    BY <1>1 DEF SortInv, SortCounts
  <2>2. Range(order') \cup Range(queue') = Range(order) \cup Range(queue)
    BY <1>3, <1>4
  <2>3. Range(order') \cap Range(queue') = {}
    BY <1>2, <1>3, <1>4
  <2>4. \A c \in Ids : c \in Range(order') \cup Range(queue') <=> Uncounted(c) = {}
    BY <2>2 DEF SortInv, SortCounts
  <2> QED
    BY <1>3, <1>4, <1>7, <2>1, <2>3, <2>4 DEF SortCounts, Uncounted
<1>9. SortOrders'
  <2>1. /\ Len(order) \in Nat /\ DOMAIN order = 1 .. Len(order)
        /\ DOMAIN order' = 1 .. Len(order) + 1
        /\ \A k \in 1 .. Len(order) : order'[k] = order[k]
        /\ order'[Len(order) + 1] = node
    BY <1>1, <1>2, <1>3, <1>4, AppendProperties, LenProperties
  <2>2. ASSUME NEW i \in 1 .. Len(order), NEW p \in Range(parents[order[i]])
        PROVE  \E k \in 1 .. i - 1 : order'[k] = p
    <3>1. PICK k \in 1 .. i - 1 : order[k] = p
      BY <2>1 DEF SortInv, SortOrders
    <3>2. k \in 1 .. Len(order)
      BY <2>1
    <3> QED
      BY <2>1, <3>1, <3>2
  <2>3. ASSUME NEW p \in Range(parents[node])
        PROVE  \E k \in 1 .. Len(order) : order'[k] = p
    <3>1. Uncounted(node) = {}
      BY <1>3 DEF SortInv, SortCounts
    <3>2. p \in Range(order)
      BY <3>1 DEF Uncounted, Range
    <3> QED
      BY <2>1, <3>2 DEF Range
  <2>4. ASSUME NEW i \in 1 .. Len(order) + 1, NEW p \in Range(parents[order'[i]])
        PROVE  \E k \in 1 .. i - 1 : order'[k] = p
    <3>1. CASE i \in 1 .. Len(order)
      BY <2>1, <2>2, <2>4, <3>1
    <3>2. CASE i = Len(order) + 1
      <4>1. p \in Range(parents[node]) /\ i - 1 = Len(order)
        BY <2>1, <2>4, <3>2
      <4> QED
        BY <2>3, <4>1
    <3> QED
      BY <2>1, <3>1, <3>2
  <2> QED
    BY <1>1, <2>1, <2>4 DEF SortOrders
<1>10. SortEnds'
  BY <1>1 DEF SortInv, SortEnds
<1> QED
  BY <1>6, <1>8, <1>9, <1>10 DEF SortInv

\* An entry that is counted is one that was not, and its service is queued by
\* the last of them.
LEMMA SortVisit ==
    ASSUME SortInv, NEW c \in Ids, NEW i \in visits[c], Visit(c, i)
    PROVE  SortInv'
<1>1. /\ visits' = [visits EXCEPT ![c] = @ \ {i}]
      /\ inDegree' = [inDegree EXCEPT ![c] = IF @ > 0 THEN @ - 1 ELSE 0]
      /\ queue' = IF inDegree'[c] = 0 THEN Append(queue, c) ELSE queue
      /\ parents' = parents /\ order' = order /\ result' = result
  BY DEF Visit
<1>2. /\ queue \in Seq(Ids) /\ IsInjective(queue) /\ Range(order) \cap Range(queue) = {}
      /\ visits \in [Ids -> SUBSET Nat] /\ inDegree \in [Ids -> Nat]
      /\ \A d \in Ids : d \in Range(order) \cup Range(queue) <=> Uncounted(d) = {}
      /\ \A d \in Ids : inDegree[d] = Cardinality(Uncounted(d))
      /\ \A d \in Ids : \A k \in visits[d] :
            k \in DOMAIN parents[d] /\ parents[d][k] \in Range(order)
  BY DEF SortInv, SortTypes, SortCounts
<1>3. /\ visits' \in [Ids -> SUBSET Nat]
      /\ visits'[c] = visits[c] \ {i}
      /\ \A d \in Ids \ {c} : visits'[d] = visits[d]
  BY <1>1, <1>2
<1>4. /\ i \in Uncounted(c) /\ c \notin Range(order) /\ c \notin Range(queue)
      /\ IsFiniteSet(Uncounted(c)) /\ Cardinality(Uncounted(c)) \in Nat
      /\ inDegree[c] = Cardinality(Uncounted(c)) /\ Cardinality(Uncounted(c)) # 0
  <2>1. i \in Uncounted(c)
    BY DEF Uncounted
  <2> QED
    BY <1>2, <2>1, UncountedFinite DEF SortInv
<1> DEFINE left(d) == {k \in DOMAIN parents'[d] : parents'[d][k] \notin Range(order')} \cup visits'[d]
<1>5. left(c) = Uncounted(c) \ {i} /\ \A d \in Ids \ {c} : left(d) = Uncounted(d)
  BY <1>1, <1>2, <1>3 DEF Uncounted
<1>6. /\ IsFiniteSet(left(c)) /\ Cardinality(left(c)) = Cardinality(Uncounted(c)) - 1
      /\ left(c) = {} <=> Cardinality(left(c)) = 0
  <2>1. /\ IsFiniteSet(Uncounted(c) \ {i})
        /\ Cardinality(Uncounted(c) \ {i}) = Cardinality(Uncounted(c)) - 1
    BY <1>4, FS_RemoveElement
  <2> HIDE DEF left
  <2>2. IsFiniteSet(left(c)) /\ Cardinality(left(c)) = Cardinality(Uncounted(c)) - 1
    BY <1>5, <2>1
  <2>3. left(c) = {} <=> Cardinality(left(c)) = 0
    BY <2>2, FS_EmptySet
  <2> QED
    BY <2>2, <2>3
<1>7. \A d \in Ids : inDegree'[d] = Cardinality(left(d))
  <2>1. inDegree'[c] = inDegree[c] - 1 /\ \A d \in Ids \ {c} : inDegree'[d] = inDegree[d]
    BY <1>1, <1>2, <1>4
  <2> HIDE DEF left
  <2> QED
    BY <1>2, <1>4, <1>5, <1>6, <2>1
<1>8. inDegree' \in [Ids -> Nat]
  BY <1>1, <1>2
<1>9. /\ queue' \in Seq(Ids) /\ IsInjective(queue')
      /\ Range(queue') = IF left(c) = {} THEN Range(queue) \cup {c} ELSE Range(queue)
  <2>1. inDegree'[c] = 0 <=> left(c) = {}
    BY <1>6, <1>7
  <2> HIDE DEF left
  <2>2. CASE left(c) = {}
    <3>1. queue' = Append(queue, c)
      BY <1>1, <2>1, <2>2
    <3> QED
      BY <1>2, <1>4, <2>2, <3>1, AppendOnce
  <2>3. CASE left(c) # {}
    BY <1>1, <1>2, <2>1, <2>3
  <2> QED
    BY <2>2, <2>3
<1>10. SortTypes'
  <2>1. parents \in [Ids -> Seq(Ids \cup {0})] /\ order \in Seq(Ids)
    BY DEF SortInv, SortTypes
  <2>2. \A d \in Ids : \A k \in visits'[d] :
            k \in DOMAIN parents'[d] /\ parents'[d][k] \in Range(order')
    BY <1>1, <1>2, <1>3
  <2> QED
    BY <1>1, <1>3, <1>8, <1>9, <2>1, <2>2 DEF SortTypes
<1>11. SortCounts'
  <2> HIDE DEF left
  <2>1. IsInjective(order') /\ Range(order') = Range(order)
    BY <1>1 DEF SortInv, SortCounts
  <2>2. Range(order') \cap Range(queue') = {}
    BY <1>2, <1>4, <1>9, <2>1
  <2>3. \A d \in Ids : d \in Range(order') \cup Range(queue') <=> left(d) = {}
    <3> SUFFICES ASSUME NEW d \in Ids
                 PROVE  d \in Range(order') \cup Range(queue') <=> left(d) = {}
      OBVIOUS
    <3>1. CASE d = c
      BY <1>4, <1>9, <2>1, <3>1
    <3>2. CASE d # c
      BY <1>2, <1>5, <1>9, <2>1, <3>2
    <3> QED
      BY <3>1, <3>2
  <2> USE DEF left
  <2> QED
    BY <1>7, <1>9, <2>1, <2>2, <2>3 DEF SortCounts, Uncounted
<1>12. SortOrders'
  <2>1. parents' = parents /\ order' = order
    BY <1>1
  <2>2. SortOrders
    BY DEF SortInv
  <2> QED
    BY ONLY <2>1, <2>2 DEF SortOrders
<1>13. SortEnds'
  <2>1. result = "sorting"
    BY DEF SortInv, SortEnds, Counted
  <2> QED
    BY <1>1, <2>1 DEF SortInv, SortEnds
<1> QED
  BY <1>10, <1>11, <1>12, <1>13 DEF SortInv

\* What the sort works on is all that its invariant says of it.
LEMMA SortFrame ==
    ASSUME SortInv, UNCHANGED <<parents, inDegree, queue, order, visits>>
    PROVE  SortTypes' /\ SortCounts' /\ SortOrders'
<1>1. SortTypes'
  BY DEF SortInv, SortTypes
<1>2. \A c \in Ids : {i \in DOMAIN parents'[c] : parents'[c][i] \notin Range(order')} \cup visits'[c]
                      = Uncounted(c)
  BY DEF Uncounted
<1>3. SortCounts'
  BY <1>2 DEF SortInv, SortCounts, Uncounted
<1>4. SortOrders'
  BY DEF SortInv, SortOrders
<1> QED
  BY <1>1, <1>3, <1>4

\* The order names as many services as there are exactly if it names them all.
LEMMA SortDone == SortInv /\ Done => SortInv'
<1> SUFFICES ASSUME SortInv, Done PROVE SortInv'
  OBVIOUS
<1>1. /\ result = "sorting" /\ Counted /\ queue = <<>>
      /\ result' = IF Len(order) = Count THEN "ok" ELSE "cycle"
      /\ UNCHANGED <<parents, inDegree, queue, order, visits>>
  BY DEF Done
<1>2. order \in Seq(Ids) /\ IsInjective(order)
  BY DEF SortInv, SortTypes, SortCounts
<1>3. PICK n \in Nat : n = Len(order) /\ DOMAIN order = 1 .. n
  BY <1>2, LenProperties
<1>4. order \in Injection(1 .. n, Ids)
  BY <1>2, <1>3 DEF Injection, IsInjective
<1>5. /\ IsFiniteSet(1 .. n) /\ Cardinality(1 .. n) = n
      /\ IsFiniteSet(Ids) /\ Cardinality(Ids) = Count
  BY DepGraphAssumption, FS_Interval DEF Ids
<1>6. n = Count <=> Range(order) = Ids
  <2>1. ASSUME n = Count PROVE Range(order) = Ids
    <3>1. order \in Surjection(1 .. n, Ids)
      BY <1>4, <1>5, <2>1, FS_Injection
    <3> QED
      BY <1>2, <1>3, <3>1 DEF Surjection, Range
  <2>2. ASSUME Range(order) = Ids PROVE n = Count
    <3>1. order \in Surjection(1 .. n, Ids)
      BY <1>3, <1>4, <2>2 DEF Surjection, Injection, Range
    <3>2. Cardinality(1 .. n) = Cardinality(Ids)
      BY <1>4, <1>5, <3>1, FS_Injection
    <3> QED
      BY <1>5, <3>2
  <2> QED
    BY <2>1, <2>2
<1>7. SortEnds'
  <2>1. \A c \in Ids : parents[c] \in Seq(Ids)
    BY <1>1 DEF SortInv, SortEnds
  <2>2. Counted'
    BY <1>1 DEF Counted
  <2>3. (result' = "ok" => Range(order) = Ids) /\ (result' = "cycle" => Range(order) # Ids)
    BY <1>1, <1>3, <1>6
  <2> QED
    BY <1>1, <2>1, <2>2, <2>3 DEF SortEnds
<1> QED
  BY <1>1, <1>7, SortFrame DEF SortInv

\* The sort keeps its invariant, for every graph and every order of the queue.
LEMMA GraphInductive == BuildSpec => []SortInv
<1>1. BuildInit => SortInv
  BY SortBegins
<1>2. SortInv /\ [BuildNext]_(graphVars) => SortInv'
  <2> SUFFICES ASSUME SortInv, [BuildNext]_(graphVars) PROVE SortInv'
    OBVIOUS
  <2>1. CASE Take
    BY <2>1, SortTake
  <2>2. ASSUME NEW c \in Ids, NEW i \in visits[c], Visit(c, i) PROVE SortInv'
    BY <2>2, SortVisit
  <2>3. CASE Done
    BY <2>3, SortDone
  <2>4. CASE UNCHANGED graphVars
    <3>1. UNCHANGED <<parents, inDegree, queue, order, visits>> /\ result' = result
      BY <2>4 DEF graphVars
    <3>2. SortEnds'
      BY <3>1 DEF SortInv, SortEnds, Counted
    <3> QED
      BY <3>1, <3>2, SortFrame DEF SortInv
  <2> QED
    BY <2>1, <2>2, <2>3, <2>4 DEF BuildNext
<1> QED
  BY <1>1, <1>2, PTL DEF BuildSpec

\* While a graph is sorted, nobody is taken or queued twice, and everybody
\* comes after all it depends on (DepGraph::build, topological_sort).
THEOREM SortedByDependency ==
    BuildSpec => []DependenciesFirst
<1>1. SortInv => DependenciesFirst
  <2> SUFFICES ASSUME SortInv PROVE DependenciesFirst
    OBVIOUS
  <2>1. IsInjective(order \o queue)
    BY ConcatOnce DEF SortInv, SortTypes, SortCounts
  <2>2. \A i \in DOMAIN order : \A p \in ToSet(parents[order[i]]) :
            \E k \in 1 .. i - 1 : order[k] = p
    BY DEF SortInv, SortOrders, ToSet, Range
  <2> QED
    BY <2>1, <2>2 DEF DependenciesFirst
<1> QED
  BY <1>1, GraphInductive, PTL

\* What holds of the ancestors of a service, as the smallest set that holds
\* what it depends on and what its members do.
LEMMA AncestorsClosed ==
    ASSUME NEW s \in Ids
    PROVE  /\ Ancestors(s) \in SUBSET Ids
           /\ DependsOn(s) \subseteq Ancestors(s)
           /\ \A a \in Ancestors(s) : DependsOn(a) \subseteq Ancestors(s)
           /\ \A A \in SUBSET Ids :
                 DependsOn(s) \subseteq A /\ (\A a \in A : DependsOn(a) \subseteq A)
                 => Ancestors(s) \subseteq A
<1>1. \A a : DependsOn(a) \subseteq Ids
  BY DEF DependsOn
<1>2. Ancestors(s) =
        {t \in Ids : \A A \in SUBSET Ids :
            DependsOn(s) \subseteq A /\ (\A a \in A : DependsOn(a) \subseteq A) => t \in A}
  BY DEF Ancestors
<1>3. ASSUME NEW a \in Ancestors(s), NEW t \in DependsOn(a)
      PROVE  t \in Ancestors(s)
  <2>1. ASSUME NEW A \in SUBSET Ids, DependsOn(s) \subseteq A,
               \A b \in A : DependsOn(b) \subseteq A
        PROVE  t \in A
    <3>1. a \in A
      BY <1>2, <2>1
    <3> QED
      BY <2>1, <3>1
  <2> QED
    BY <1>1, <1>2, <2>1
<1>4. ASSUME NEW t \in DependsOn(s) PROVE t \in Ancestors(s)
  BY <1>1, <1>2
<1>5. ASSUME NEW A \in SUBSET Ids, DependsOn(s) \subseteq A,
             \A a \in A : DependsOn(a) \subseteq A
      PROVE  Ancestors(s) \subseteq A
  BY <1>2, <1>5
<1>6. Ancestors(s) \in SUBSET Ids
  BY <1>2
<1> QED
  BY <1>3, <1>4, <1>5, <1>6

\* The ancestors of an ancestor are ancestors.
LEMMA AncestorsNest ==
    ASSUME NEW s \in Ids, NEW a \in Ancestors(s)
    PROVE  a \in Ids /\ Ancestors(a) \subseteq Ancestors(s)
<1>1. /\ Ancestors(s) \in SUBSET Ids
      /\ \A b \in Ancestors(s) : DependsOn(b) \subseteq Ancestors(s)
  BY AncestorsClosed
<1>2. a \in Ids
  BY <1>1
<1>3. DependsOn(a) \subseteq Ancestors(s)
  BY <1>1
<1> QED
  BY <1>1, <1>2, <1>3, AncestorsClosed

\* Who is sorted is not its own ancestor.
LEMMA SortedIsNoCycle ==
    ASSUME SortInv, NEW i \in DOMAIN order
    PROVE  order[i] \notin Ancestors(order[i])
<1>1. /\ order \in Seq(Ids) /\ IsInjective(order)
      /\ \A k \in DOMAIN order : \A p \in Range(parents[order[k]]) :
            \E j \in 1 .. k - 1 : order[j] = p
  BY DEF SortInv, SortTypes, SortCounts, SortOrders
<1>2. PICK n \in Nat : DOMAIN order = 1 .. n
  BY <1>1, LenProperties
<1> DEFINE before == {order[k] : k \in 1 .. i - 1}
<1>3. before \in SUBSET Ids /\ order[i] \in Ids
  BY <1>1, <1>2
<1>4. ASSUME NEW k \in 1 .. i PROVE DependsOn(order[k]) \subseteq before
  <2> SUFFICES ASSUME NEW p \in Range(parents[order[k]]) PROVE p \in before
    BY DEF DependsOn, ToSet, Range
  <2>1. k \in DOMAIN order
    BY <1>2
  <2>2. PICK j \in 1 .. k - 1 : order[j] = p
    BY <1>1, <2>1
  <2>3. j \in 1 .. i - 1
    BY <1>2
  <2> QED
    BY <2>2, <2>3
<1>5. DependsOn(order[i]) \subseteq before
  <2>1. i \in 1 .. i
    BY <1>2
  <2> QED
    BY ONLY <1>4, <2>1
<1>6. \A a \in before : DependsOn(a) \subseteq before
  <2> SUFFICES ASSUME NEW k \in 1 .. i - 1 PROVE DependsOn(order[k]) \subseteq before
    OBVIOUS
  <2>1. k \in 1 .. i
    BY <1>2
  <2> QED
    BY ONLY <1>4, <2>1
<1>7. order[i] \notin before
  BY <1>1, <1>2 DEF IsInjective
<1> HIDE DEF before
<1>8. Ancestors(order[i]) \subseteq before
  BY <1>3, <1>5, <1>6, AncestorsClosed
<1> QED
  BY <1>7, <1>8

\* When the queue runs dry, who is not sorted depends on somebody who is not.
LEMMA UnsortedGoesOn ==
    ASSUME SortInv, result = "cycle", NEW c \in Ids \ Range(order)
    PROVE  \E p \in Ids \ Range(order) : p \in DependsOn(c)
<1>1. /\ visits[c] = {} /\ queue = <<>> /\ parents[c] \in Seq(Ids)
  BY DEF SortInv, SortEnds, Counted
<1>2. Range(queue) = {}
  BY <1>1 DEF Range
<1>3. Uncounted(c) # {}
  BY <1>2 DEF SortInv, SortCounts
<1>4. PICK i \in DOMAIN parents[c] : parents[c][i] \notin Range(order)
  BY <1>1, <1>3 DEF Uncounted
<1>5. parents[c][i] \in Ids
  BY <1>1, <1>4
<1> QED
  BY <1>4, <1>5 DEF DependsOn, ToSet

\* A graph is accepted exactly if it has no cycle, whatever entries are
\* named twice and in whatever order the queue is filled (topological_sort).
THEOREM AcyclicIsAccepted ==
    BuildSpec => []RejectsCycles
<1>1. ASSUME SortInv, result = "ok" PROVE ~Cyclic
  <2> SUFFICES ASSUME NEW s \in Ids PROVE s \notin Ancestors(s)
    BY DEF Cyclic
  <2>1. PICK i \in DOMAIN order : order[i] = s
    BY <1>1 DEF SortInv, SortEnds, Range
  <2> QED
    BY <1>1, <2>1, SortedIsNoCycle
<1>2. ASSUME SortInv, result = "cycle" PROVE Cyclic
  <2> DEFINE unsorted == Ids \ Range(order)
             above    == {Ancestors(s) : s \in unsorted}
  <2>1. \A s \in unsorted : \E p \in unsorted : p \in DependsOn(s)
    BY <1>2, UnsortedGoesOn
  <2>2. above \subseteq SUBSET Ids /\ above # {}
    <3>1. \A s \in Ids : Ancestors(s) \in SUBSET Ids
      BY AncestorsClosed
    <3>2. unsorted # {}
      BY <1>2 DEF SortInv, SortEnds, SortTypes, Range
    <3> QED
      BY <3>1, <3>2
  <2>3. IsWellFoundedOn(StrictSubsetOrdering(Ids), SUBSET Ids)
    <3>1. IsFiniteSet(Ids)
      BY DepGraphAssumption, FS_Interval DEF Ids
    <3> QED
      BY <3>1, FS_FiniteSubsetsOfFinite, FS_StrictSubsetOrderingWellFounded
  <2>4. PICK least \in above : \A other \in above : ~(<<other, least>> \in StrictSubsetOrdering(Ids))
    <3> HIDE DEF above
    <3> QED
      BY <2>2, <2>3, WFMin
  <2>5. PICK s \in unsorted : least = Ancestors(s)
    OBVIOUS
  <2>6. PICK p \in unsorted : p \in DependsOn(s)
    BY <2>1
  <2>7. p \in Ancestors(s) /\ Ancestors(p) \subseteq Ancestors(s)
    BY <2>6, AncestorsClosed, AncestorsNest
  <2>8. Ancestors(p) = Ancestors(s)
    <3>1. Ancestors(p) \in above /\ Ancestors(s) \in above
      OBVIOUS
    <3>2. ~(<<Ancestors(p), Ancestors(s)>> \in StrictSubsetOrdering(Ids))
      BY <2>4, <2>5, <3>1
    <3> HIDE DEF above
    <3> QED
      BY <2>2, <2>7, <3>1, <3>2 DEF StrictSubsetOrdering
  <2> QED
    BY <2>7, <2>8 DEF Cyclic
<1>3. SortInv => RejectsCycles
  BY <1>1, <1>2 DEF RejectsCycles
<1> QED
  BY <1>3, GraphInductive, PTL

-----------------------------------------------------------------------------
(* Who is blocked by whom, in a graph that was accepted.                   *)

\* What find_root_cause recurses on, for a set of unhealthy services.
WalkOn(domain, walk, unhealthy) ==
    walk = [visited \in domain |->
              [s \in unhealthy |->
                 IF s \in visited \/ UnhealthyEntries(parents, s, unhealthy) = {} THEN s
                 ELSE walk[visited \cup {s}][FirstUnhealthy(parents, s, unhealthy)]]]

IsWalk(walk, unhealthy) == WalkOn(SUBSET unhealthy, walk, unhealthy)

\* The first unhealthy parent is unhealthy and a parent.
LEMMA FirstIsParent ==
    ASSUME NEW unhealthy \in SUBSET Ids, NEW s \in unhealthy,
           parents[s] \in Seq(Ids), UnhealthyEntries(parents, s, unhealthy) # {}
    PROVE  /\ FirstUnhealthy(parents, s, unhealthy) \in unhealthy
           /\ FirstUnhealthy(parents, s, unhealthy) \in DependsOn(s)
<1> DEFINE entries == UnhealthyEntries(parents, s, unhealthy)
           first   == CHOOSE i \in entries : \A j \in entries : i <= j
<1>1. entries \subseteq Nat /\ entries # {}
  BY LenProperties DEF UnhealthyEntries
<1>2. \A i \in entries : i \in DOMAIN parents[s] /\ parents[s][i] \in unhealthy
  BY DEF UnhealthyEntries
<1>3. \E i \in entries : \A j \in entries : i <= j
  <2> HIDE DEF entries
  <2> DEFINE below == {1 .. i : i \in entries}
  <2>1. PICK least \in below : \A b \in below : ~(<<b, least>> \in StrictSubsetOrdering(Nat))
    <3>1. below \subseteq FiniteSubsetsOf(Nat)
      <4> SUFFICES ASSUME NEW i \in entries PROVE 1 .. i \in FiniteSubsetsOf(Nat)
        OBVIOUS
      <4>1. i \in Int /\ 1 \in Int /\ 1 .. i \in SUBSET Nat
        BY <1>1
      <4>2. IsFiniteSet(1 .. i)
        BY <4>1, FS_Interval
      <4> QED
        BY <4>1, <4>2 DEF FiniteSubsetsOf
    <3>2. below # {}
      BY <1>1
    <3> HIDE DEF below
    <3> QED
      BY <3>1, <3>2, FS_StrictSubsetOrderingWellFounded, WFMin
  <2>2. PICK i \in entries : least = 1 .. i
    OBVIOUS
  <2>3. ASSUME NEW j \in entries PROVE i <= j
    <3>1. ~(<<1 .. j, 1 .. i>> \in StrictSubsetOrdering(Nat))
      BY <2>1, <2>2
    <3>2. 1 .. j \in SUBSET Nat /\ 1 .. i \in SUBSET Nat
      OBVIOUS
    <3>3. ~(1 .. j \subseteq 1 .. i) \/ 1 .. j = 1 .. i
      BY <3>1, <3>2 DEF StrictSubsetOrdering
    <3> QED
      BY <1>1, <3>3
  <2> QED
    BY <2>3
<1>4. first \in entries
  <2> HIDE DEF entries
  <2> QED
    BY <1>3
<1>5. FirstUnhealthy(parents, s, unhealthy) = parents[s][first]
  BY DEF FirstUnhealthy
<1> HIDE DEF first, entries
<1>6. parents[s][first] \in unhealthy /\ first \in DOMAIN parents[s]
  BY <1>2, <1>4
<1> QED
  BY <1>5, <1>6 DEF DependsOn, ToSet

\* There is such a function: one that is defined on some of the sets, with
\* every set that has been reached from them, can be extended by another.
LEMMA WalkExists ==
    ASSUME NEW unhealthy, IsFiniteSet(unhealthy),
           \A s \in unhealthy : UnhealthyEntries(parents, s, unhealthy) # {}
                => FirstUnhealthy(parents, s, unhealthy) \in unhealthy
    PROVE  \E walk : IsWalk(walk, unhealthy)
<1> DEFINE all == SUBSET unhealthy
           Above(D) == \A v \in D : \A s \in unhealthy : v \cup {s} \in D
           Reached(D) == Above(D) /\ \E walk : WalkOn(D, walk, unhealthy)
           missing == {M \in SUBSET all : Reached(all \ M)}
<1>1. IsFiniteSet(all) /\ IsFiniteSet(SUBSET all)
  BY FS_SUBSET
<1>2. all \in missing
  <2>1. Above({})
    OBVIOUS
  <2>2. WalkOn({}, [v \in {} |-> v], unhealthy)
    BY DEF WalkOn
  <2>3. all \ all = {} /\ all \in SUBSET all
    OBVIOUS
  <2>4. Reached({})
    BY <2>1, <2>2
  <2> HIDE DEF Reached, all
  <2> QED
    BY <2>3, <2>4
<1>3. PICK M \in missing : \A N \in missing : ~(<<N, M>> \in StrictSubsetOrdering(all))
  <2>1. IsWellFoundedOn(StrictSubsetOrdering(all), SUBSET all)
    BY <1>1, FS_FiniteSubsetsOfFinite, FS_StrictSubsetOrderingWellFounded
  <2>2. missing \subseteq SUBSET all
    OBVIOUS
  <2> HIDE DEF missing, all
  <2> QED
    BY <1>2, <2>1, <2>2, WFMin
<1>4. M \in SUBSET all /\ Reached(all \ M)
  BY <1>3
<1>5. ASSUME M # {} PROVE FALSE
  <2> DEFINE rest == {unhealthy \ v : v \in M}
  <2>1. PICK r \in rest : \A q \in rest : ~(<<q, r>> \in StrictSubsetOrdering(unhealthy))
    <3>1. IsWellFoundedOn(StrictSubsetOrdering(unhealthy), SUBSET unhealthy)
      <4> HIDE DEF all, Reached, missing, Above, rest
      <4>1. FiniteSubsetsOf(unhealthy) = SUBSET unhealthy
        BY FS_FiniteSubsetsOfFinite
      <4> QED
        BY <4>1, FS_StrictSubsetOrderingWellFounded
    <3>2. rest \subseteq SUBSET unhealthy /\ rest # {}
      <4> HIDE DEF all, Reached, missing, Above
      <4> QED
        BY <1>5
    <3> HIDE DEF rest
    <3> QED
      BY <3>1, <3>2, WFMin
  <2>2. PICK v \in M : r = unhealthy \ v
    OBVIOUS
  <2> DEFINE D == all \ M
             E == all \ (M \ {v})
  <2>3. v \in all /\ v \notin D /\ E = D \cup {v}
    BY <1>4
  <2>4. \A s \in unhealthy : s \notin v => v \cup {s} \in D
    <3> SUFFICES ASSUME NEW s \in unhealthy, s \notin v, v \cup {s} \in M PROVE FALSE
      BY <2>3
    <3>1. unhealthy \ (v \cup {s}) \in rest
      OBVIOUS
    <3>2. /\ unhealthy \ (v \cup {s}) \subseteq r /\ unhealthy \ (v \cup {s}) # r
          /\ unhealthy \ (v \cup {s}) \in SUBSET unhealthy /\ r \in SUBSET unhealthy
      BY <2>2
    <3> HIDE DEF rest
    <3> QED
      BY <2>1, <3>1, <3>2 DEF StrictSubsetOrdering
  <2>5. Above(E)
    <3>1. Above(D)
      BY <1>4
    <3> HIDE DEF D
    <3>2. \A s \in unhealthy : v \cup {s} \in D \cup {v}
      <4> SUFFICES ASSUME NEW s \in unhealthy PROVE v \cup {s} \in D \cup {v}
        OBVIOUS
      <4>1. CASE s \in v
        <5>1. v \cup {s} = v
          BY <4>1
        <5> QED
          BY <5>1
      <4>2. CASE s \notin v
        BY <2>4, <4>2
      <4> QED
        BY <4>1, <4>2
    <3> QED
      BY <2>3, <3>1, <3>2
  <2>6. PICK old : WalkOn(D, old, unhealthy)
    BY <1>4
  <2> DEFINE Step(f, w) ==
               [s \in unhealthy |->
                  IF s \in w \/ UnhealthyEntries(parents, s, unhealthy) = {} THEN s
                  ELSE f[w \cup {s}][FirstUnhealthy(parents, s, unhealthy)]]
             new == [w \in E |-> IF w = v THEN Step(old, v) ELSE old[w]]
  <2>7. old = [w \in D |-> Step(old, w)]
    BY <2>6 DEF WalkOn
  <2>8. \A w \in D : new[w] = old[w]
    <3> HIDE DEF Step, D
    <3> QED
      BY <2>3
  <2>9. ASSUME NEW w \in E, NEW s \in unhealthy, s \notin w PROVE w \cup {s} \in D
    <3>1. Above(D)
      BY <1>4
    <3> HIDE DEF D
    <3> QED
      BY <2>3, <2>4, <2>9, <3>1
  <2>10. ASSUME NEW w \in E PROVE Step(new, w) = Step(old, w)
    <3>1. ASSUME NEW s \in unhealthy, s \notin w
          PROVE  new[w \cup {s}] = old[w \cup {s}]
      <4> HIDE DEF D, new, E
      <4> QED
        BY <2>8, <2>9, <2>10, <3>1
    <3> HIDE DEF new, D, E
    <3> QED
      BY <3>1
  <2>11. ASSUME NEW w \in E PROVE new[w] = Step(new, w)
    <3>1. CASE w = v
      <4>1. new[w] = Step(old, w)
        <5> HIDE DEF Step, E
        <5> QED
          BY <2>11, <3>1
      <4> HIDE DEF Step, new, E
      <4> QED
        BY <2>10, <2>11, <4>1
    <3>2. CASE w # v
      <4>1. w \in D
        BY <2>3, <2>11, <3>2
      <4>2. old[w] = Step(old, w)
        <5> HIDE DEF Step, D
        <5> QED
          BY <2>7, <4>1
      <4> HIDE DEF Step, new, D, E
      <4> QED
        BY <2>8, <2>10, <2>11, <4>1, <4>2
    <3> QED
      BY <3>1, <3>2
  <2>12. new = [w \in E |-> Step(new, w)]
    <3>1. new = [w \in E |-> new[w]]
      <4> HIDE DEF Step, E
      <4> QED
        OBVIOUS
    <3> HIDE DEF Step, new, E
    <3> QED
      BY <2>11, <3>1
  <2>13. WalkOn(E, new, unhealthy)
    <3> HIDE DEF new, E
    <3> QED
      BY <2>12 DEF WalkOn
  <2>14. M \ {v} \in missing
    <3>1. M \ {v} \in SUBSET all
      BY <1>4
    <3>2. Reached(all \ (M \ {v}))
      <4> HIDE DEF new
      <4> QED
        BY <2>5, <2>13
    <3> HIDE DEF Reached, all
    <3> QED
      BY <3>1, <3>2
  <2>15. <<M \ {v}, M>> \in StrictSubsetOrdering(all)
    <3> HIDE DEF all, missing
    <3> QED
      BY <1>4, <2>2 DEF StrictSubsetOrdering
  <2> HIDE DEF missing
  <2> QED
    BY <1>3, <2>14, <2>15
<1>6. Reached(all)
  <2>1. all \ M = all
    BY <1>4, <1>5
  <2> HIDE DEF Reached, all
  <2> QED
    BY <1>4, <2>1
<1> QED
  BY <1>6 DEF IsWalk

\* Finitely many services can be unhealthy.
LEMMA UnhealthyFinite ==
    ASSUME NEW unhealthy \in SUBSET Ids
    PROVE  IsFiniteSet(unhealthy)
<1>1. IsFiniteSet(Ids)
  BY DepGraphAssumption, FS_Interval DEF Ids
<1> QED
  BY <1>1, FS_Subset

\* find_root_cause ends at a root cause that the service depends on: as long
\* as the services visited are not above the one it is at, it has not gone
\* round in a circle, and the next one is one that all of them depend on.
LEMMA WalkEnds ==
    ASSUME SortInv, result = "ok",
           NEW unhealthy \in SUBSET Ids, NEW walk, IsWalk(walk, unhealthy),
           NEW start \in unhealthy
    PROVE  /\ walk[{}][start] \in RootCauses(parents, unhealthy)
           /\ walk[{}][start] \in Ancestors(start) \cup {start}
<1> DEFINE Ends(v, s) == /\ walk[v][s] \in RootCauses(parents, unhealthy)
                         /\ walk[v][s] \in Ancestors(s) \cup {s}
           Above(v, s) == \A w \in v : s \in Ancestors(w)
           wrong == {v \in SUBSET unhealthy : \E s \in unhealthy : Above(v, s) /\ ~Ends(v, s)}
           rest == {unhealthy \ v : v \in wrong}
<1>1. IsFiniteSet(unhealthy)
  BY UnhealthyFinite
<1>2. \A s \in unhealthy : parents[s] \in Seq(Ids) /\ s \notin Ancestors(s)
  <2> SUFFICES ASSUME NEW s \in unhealthy
               PROVE  parents[s] \in Seq(Ids) /\ s \notin Ancestors(s)
    OBVIOUS
  <2>1. PICK i \in DOMAIN order : order[i] = s
    BY DEF SortInv, SortEnds, Range
  <2>2. s \notin Ancestors(s)
    BY <2>1, SortedIsNoCycle
  <2> QED
    BY <2>2 DEF SortInv, SortEnds
<1>3. SUFFICES ASSUME wrong # {} PROVE FALSE
  <2>1. Above({}, start) /\ {} \in SUBSET unhealthy
    OBVIOUS
  <2> HIDE DEF Above
  <2> QED
    BY <1>3, <2>1
<1>4. PICK r \in rest : \A q \in rest : ~(<<q, r>> \in StrictSubsetOrdering(unhealthy))
  <2>1. IsWellFoundedOn(StrictSubsetOrdering(unhealthy), SUBSET unhealthy)
    <3>1. FiniteSubsetsOf(unhealthy) = SUBSET unhealthy
      BY <1>1, FS_FiniteSubsetsOfFinite
    <3> QED
      BY <3>1, FS_StrictSubsetOrderingWellFounded
  <2> HIDE DEF wrong
  <2>2. rest \subseteq SUBSET unhealthy /\ rest # {}
    BY <1>3
  <2> HIDE DEF rest
  <2> QED
    BY <2>1, <2>2, WFMin
<1>5. PICK v \in wrong : r = unhealthy \ v
  <2> HIDE DEF wrong
  <2> QED
    OBVIOUS
<1>6. PICK s \in unhealthy : Above(v, s) /\ ~Ends(v, s)
  <2> HIDE DEF Above, Ends
  <2> QED
    OBVIOUS
<1>7. v \in SUBSET unhealthy
  <2> HIDE DEF Above, Ends
  <2> QED
    OBVIOUS
<1>8. s \notin v
  BY <1>2, <1>6
<1>9. walk[v][s] = IF UnhealthyEntries(parents, s, unhealthy) = {} THEN s
                   ELSE walk[v \cup {s}][FirstUnhealthy(parents, s, unhealthy)]
  <2> DEFINE Body(w) == [t \in unhealthy |->
                           IF t \in w \/ UnhealthyEntries(parents, t, unhealthy) = {} THEN t
                           ELSE walk[w \cup {t}][FirstUnhealthy(parents, t, unhealthy)]]
  <2>1. walk = [w \in SUBSET unhealthy |-> Body(w)]
    BY DEF IsWalk, WalkOn
  <2>2. walk[v] = Body(v)
    <3> HIDE DEF Body, wrong
    <3> QED
      BY <1>7, <2>1
  <2> HIDE DEF wrong, Above, Ends
  <2> QED
    BY <1>8, <2>2
<1>10. CASE UnhealthyEntries(parents, s, unhealthy) = {}
  <2>1. walk[v][s] = s
    BY <1>9, <1>10
  <2> QED
    BY <1>6, <1>10, <2>1 DEF RootCauses
<1>11. CASE UnhealthyEntries(parents, s, unhealthy) # {}
  <2>1. PICK p : p = FirstUnhealthy(parents, s, unhealthy)
    OBVIOUS
  <2>2. p \in unhealthy /\ p \in DependsOn(s)
    BY <1>2, <1>11, <2>1, FirstIsParent
  <2>3. p \in Ancestors(s) /\ s \in Ids
    BY <2>2, AncestorsClosed
  <2>4. Above(v \cup {s}, p)
    <3> SUFFICES ASSUME NEW w \in v PROVE p \in Ancestors(w)
      BY <2>3
    <3>1. w \in Ids /\ s \in Ancestors(w)
      BY <1>6, <1>7
    <3> QED
      BY <2>2, <3>1, AncestorsClosed
  <2>5. Ends(v \cup {s}, p)
    <3> SUFFICES ASSUME ~Ends(v \cup {s}, p) PROVE FALSE
      OBVIOUS
    <3>1. v \cup {s} \in wrong
      <4>1. v \cup {s} \in SUBSET unhealthy
        BY <1>7
      <4> HIDE DEF Above, Ends
      <4> QED
        BY <2>2, <2>4, <4>1
    <3>2. unhealthy \ (v \cup {s}) \in rest
      <4> HIDE DEF wrong
      <4> QED
        BY <3>1
    <3>3. /\ unhealthy \ (v \cup {s}) \subseteq r /\ unhealthy \ (v \cup {s}) # r
          /\ unhealthy \ (v \cup {s}) \in SUBSET unhealthy /\ r \in SUBSET unhealthy
      BY <1>5, <1>6, <1>8
    <3> HIDE DEF rest
    <3> QED
      BY <1>4, <3>2, <3>3 DEF StrictSubsetOrdering
  <2>6. walk[v][s] = walk[v \cup {s}][p]
    BY <1>9, <1>11, <2>1
  <2>7. walk[v][s] \in RootCauses(parents, unhealthy) /\ walk[v][s] \in Ancestors(p) \cup {p}
    BY <2>5, <2>6
  <2>8. Ancestors(p) \subseteq Ancestors(s)
    BY <2>3, AncestorsNest
  <2>9. Ends(v, s)
    BY <2>3, <2>7, <2>8
  <2> QED
    BY <1>6, <2>9
<1> QED
  BY <1>10, <1>11

\* In a graph that was accepted, whatever has failed: who is blocked is blocked
\* by a root cause it depends on (classify_failures, find_root_cause).
THEOREM BlockedByCause ==
    BuildSpec => []BlockedByARootCause
<1>1. ASSUME SortInv, result = "ok", NEW unhealthy \in SUBSET Ids,
             NEW s \in Blocked(parents, unhealthy)
      PROVE  /\ RootCause(parents, s, unhealthy) \in RootCauses(parents, unhealthy)
             /\ RootCause(parents, s, unhealthy) \in Ancestors(s)
  <2>1. s \in unhealthy /\ s \notin RootCauses(parents, unhealthy)
    BY <1>1 DEF Blocked, RootCauses, RootCauses, UnhealthyEntries, UnhealthyEntries
  <2>2. RootCause(parents, s, unhealthy)
        = (CHOOSE walk : IsWalk(walk, unhealthy))[{}][s]
    BY DEF RootCause, IsWalk, WalkOn, UnhealthyEntries, UnhealthyEntries,
           FirstUnhealthy, FirstUnhealthy
  <2>3. \E walk : IsWalk(walk, unhealthy)
    <3>1. IsFiniteSet(unhealthy)
      BY UnhealthyFinite
    <3>2. \A t \in unhealthy : UnhealthyEntries(parents, t, unhealthy) # {}
             => FirstUnhealthy(parents, t, unhealthy) \in unhealthy
      BY <1>1, FirstIsParent DEF SortInv, SortEnds
    <3> QED
      BY <3>1, <3>2, WalkExists
  <2>4. PICK walk : walk = (CHOOSE w : IsWalk(w, unhealthy)) /\ IsWalk(walk, unhealthy)
    BY <2>3
  <2>5. /\ walk[{}][s] \in RootCauses(parents, unhealthy)
        /\ walk[{}][s] \in Ancestors(s) \cup {s}
    BY <1>1, <2>1, <2>4, WalkEnds
  <2>6. walk[{}][s] \in Ancestors(s)
    BY <2>1, <2>5
  <2>7. RootCauses(parents, unhealthy) = RootCauses(parents, unhealthy)
    BY DEF RootCauses, RootCauses, UnhealthyEntries, UnhealthyEntries
  <2> QED
    BY <2>2, <2>4, <2>5, <2>6, <2>7
<1>2. SortInv => BlockedByARootCause
  BY <1>1 DEF BlockedByARootCause
<1> QED
  BY <1>2, GraphInductive, PTL

=============================================================================
