------------------------- MODULE ControlLoop_proofs -------------------------
(***************************************************************************)
(* The control loop in time, proved for any schedules, intervals, work and *)
(* hangs whose constants are in the relations of TimingAssumption.         *)
(*                                                                         *)
(* Most of it rests on one fact of the clock: a turn that is not over has  *)
(* begun no longer ago than TurnLimit, since the watchdog was served no    *)
(* later than its beginning, and once more, by a recovery, before its end. *)
(* What a turn does for a task, for the probes and for the snapshot is     *)
(* then followed from one turn to the next.                                *)
(***************************************************************************)
EXTENDS ControlLoop, SequenceTheorems, TLAPS

Alive == Up /\ pc # "starting"

-----------------------------------------------------------------------------
(* The invariant *)

\* An instant that has been, if it has.
Past(instant) == instant = None \/ (instant \in Nat /\ instant <= now)

Typed ==
    /\ now \in Nat /\ skew \in Int /\ Wall \in Nat
    /\ work \in Seq(Steps) /\ left \in Nat
    /\ readyAt \in Nat /\ readyAt <= now
    /\ lastRecovery \in Nat /\ lastRecovery <= now
    /\ lastWatchdog \in Nat /\ lastWatchdog <= now
    /\ heardAt \in Nat /\ heardAt <= now
    /\ turnedAt \in Nat /\ turnedAt <= now
    /\ busySince \in Nat /\ busySince <= now
    /\ Past(probed) /\ Past(failedAt) /\ Past(setAt) /\ Past(endedAt)
    /\ snapshot # None => /\ snapshot.at \in Nat /\ snapshot.at <= now
                          /\ snapshot.wall \in Int /\ Past(snapshot.probed)
    /\ pc \in {"down", "starting", "turn", "tasks", "recv", "event", "stopped"}

Flags == degraded \in BOOLEAN /\ shuttingDown \in BOOLEAN

\* What can be ahead of the loop: a recovery first, then a backup; in an event
\* one of the two.
TaskWork == {<<>>, <<"commands">>, <<"restarts">>, <<"restarts", "commands">>,
             <<"probes", "restarts">>, <<"probes", "restarts", "commands">>}
EventWork == {<<>>, <<"commands">>, <<"restarts">>, <<"probes", "restarts">>}

\* Time passes in a turn only for work and for the wait, and never beyond what
\* the watchdog allows: it has not heard of the turn before a recovery of the
\* tasks is over, and from then to the end of the turn it does not again.
Timed ==
    /\ Up /\ hung => work # <<>>
    /\ pc \in {"turn", "recv"} => work = <<>>
    /\ pc = "tasks" => work \in TaskWork
    /\ pc = "event" => work \in EventWork
    /\ pc = "turn" => now = turnedAt
    /\ work = <<>> /\ pc # "recv" => left = 0
    /\ Alive => /\ lastWatchdog <= turnedAt /\ turnedAt - lastWatchdog < WatchdogInterval
                /\ lastWatchdog <= heardAt /\ readyAt <= turnedAt
                /\ now <= heardAt + WatchdogSec /\ now <= turnedAt + TurnLimit
                /\ heardAt <= turnedAt + WatchdogSec \/ (pc = "event" /\ work = <<>>)
                /\ pc = "tasks" /\ work \notin {<<>>, <<"commands">>} => heardAt <= turnedAt

\* The probes of this turn are still to be done.
Recovering == pc = "tasks" /\ work # <<>> /\ Head(work) = "probes"

\* The longer of the two delays before probes are due.
Period == IF StartupDelay >= RecoveryInterval THEN StartupDelay ELSE RecoveryInterval

\* How old the cycle in the snapshot was when the turn began.
Cycled ==
    /\ pc = "starting" => /\ work \in {<<>>, <<"probes">>, <<"commands", "probes">>}
                          /\ work = <<>> => probed = now
    /\ Alive =>
        /\ probed # None /\ readyAt <= probed
        /\ lastRecovery <= probed \/ Recovering
        /\ snapshot # None /\ snapshot.probed # None
        /\ pc \in {"turn", "tasks"} => turnedAt - snapshot.probed < Period + TurnLimit
        /\ pc \in {"recv", "event"} => turnedAt - snapshot.probed < Period
        /\ pc = "tasks" => turnedAt - probed < Period \/ Recovering

\* What the snapshot does not say has happened since it was published.
Told ==
    /\ pc = "starting" => snapshot = None
    /\ failedAt # None <=> degraded
    /\ snapshot # None /\ Up /\ ~snapshot.degraded /\ failedAt # None => failedAt >= snapshot.at
    /\ snapshot # None /\ Up => busySince >= snapshot.at
    /\ snapshot # None /\ (setAt = None \/ setAt < snapshot.at) => skew = snapshot.wall - snapshot.at

\* Nothing that excuses a task has been since then.
Unset(since) == setAt = None \/ setAt < since
Idle(t, since) == t = Backup => backupIdle /\ (endedAt = None \/ endedAt < since)

\* This turn began in the window of a task.
InTurn(t) ==
    /\ pc \in {"tasks", "recv", "event"}
    /\ turnedAt - readyAt >= StartupDelay
    /\ Day(Wall) \in DaysOf(t)
    /\ Opens(t) <= TimeOfDay(Wall) - (now - turnedAt)
    /\ TimeOfDay(Wall) - (now - turnedAt) < Closes(t)
    /\ Unset(turnedAt) /\ Idle(t, turnedAt)

\* Some turn did: the window has been open for as long as a turn may take.
Open(t) ==
    /\ Alive
    /\ now - readyAt >= StartupDelay + TurnLimit
    /\ Day(Wall) \in DaysOf(t)
    /\ Opens(t) + TurnLimit <= TimeOfDay(Wall) /\ TimeOfDay(Wall) <= Closes(t)
    /\ Unset(now - TurnLimit) /\ Idle(t, now - TurnLimit)

TurnMarks == \A t \in Scheduled : InTurn(t) => mark[t] = Day(Wall)

WindowMarks == \A t \in Scheduled : Open(t) => mark[t] = Day(Wall)

IInv == Typed /\ Flags /\ Timed /\ Cycled /\ Told /\ TurnMarks /\ WindowMarks

-----------------------------------------------------------------------------
(* Facts *)

LEMMA ConstantFacts ==
    /\ WatchdogSec \in Nat /\ WatchdogInterval \in Nat /\ WatchdogInterval >= 1
    /\ WatchdogSec = 2 * WatchdogInterval
    /\ StartupDelay \in Nat /\ RecoveryInterval \in Nat /\ RecoveryInterval >= 1
    /\ Stale \in Nat /\ ProbeStale \in Nat /\ Window \in Nat /\ MaxBusy \in Nat
    /\ Period \in Nat /\ Period >= 1 /\ Period >= StartupDelay /\ Period >= RecoveryInterval
    /\ Period + 4 * WatchdogSec <= ProbeStale + 1
    /\ TurnLimit \in Nat /\ TurnLimit = 2 * WatchdogSec
    /\ TurnLimit <= Window
    /\ None \notin Int /\ None \notin Snapshots
<1>1. /\ WatchdogInterval \in Nat /\ WatchdogInterval >= 1
      /\ WatchdogSec = 2 * WatchdogInterval
      /\ StartupDelay \in Nat /\ RecoveryInterval \in Nat /\ RecoveryInterval >= 1
      /\ Stale \in Nat /\ ProbeStale \in Nat /\ Window \in Nat /\ MaxBusy \in Nat
      /\ None \notin Int /\ None \notin Snapshots
      /\ TurnLimit \in Nat /\ TurnLimit = 2 * WatchdogSec
  BY ControlLoopAssumption DEF TurnLimit
<1>2. /\ StartupDelay + 4 * WatchdogSec <= ProbeStale + 1
      /\ RecoveryInterval + 4 * WatchdogSec <= ProbeStale + 1
      /\ TurnLimit <= Window
  BY TimingAssumption
<1> QED
  BY <1>1, <1>2 DEF Period

LEMMA TimeOfDayType ==
    ASSUME NEW w \in Nat
    PROVE  TimeOfDay(w) \in Nat
<1>1. DayLength \in Nat /\ DayLength > 0
  BY ControlLoopAssumption
<1>2. ASSUME NEW d \in Nat, d > 0
      PROVE  w % d \in Nat
  BY <1>2
<1> QED
  BY <1>1, <1>2 DEF TimeOfDay

\* The wall clock within a day.
LEMMA DayStep ==
    ASSUME NEW w \in Nat, TimeOfDay(w + 1) >= 1
    PROVE  /\ TimeOfDay(w) \in Nat
           /\ Day(w + 1) = Day(w) /\ TimeOfDay(w + 1) = TimeOfDay(w) + 1
<1>1. DayLength \in Nat /\ DayLength > 0
  BY ControlLoopAssumption
<1>2. ASSUME NEW d \in Nat, d > 0, (w + 1) % d >= 1
      PROVE  /\ w % d \in Nat
             /\ (w + 1) \div d = w \div d /\ (w + 1) % d = (w % d) + 1
  BY <1>2
<1> QED
  BY <1>1, <1>2 DEF Day, TimeOfDay

\* What a label and the steps ahead of the loop become.
LEMMA WorkFacts ==
    ASSUME NEW steps \in Seq(Steps), NEW label, Work(steps, label)
    PROVE  /\ pc' = label /\ work' = steps
           /\ work' \in Seq(Steps) /\ left' \in Nat
           /\ steps = <<>> => left' = 0
BY ConstantFacts DEF Work

LEMMA WorkTypes == TaskWork \subseteq Seq(Steps) /\ EventWork \subseteq TaskWork
<1>1. /\ <<>> \in Seq(Steps) /\ <<"commands">> \in Seq(Steps) /\ <<"restarts">> \in Seq(Steps)
      /\ <<"restarts", "commands">> \in Seq(Steps)
      /\ <<"probes", "restarts">> \in Seq(Steps)
      /\ <<"probes", "restarts", "commands">> \in Seq(Steps)
  BY DEF Steps
<1> QED
  BY <1>1 DEF TaskWork, EventWork

\* What is left of a list when its first step is done.
LEMMA TailFacts ==
    ASSUME NEW w \in TaskWork, w # <<>>
    PROVE  /\ Tail(w) \in TaskWork
           /\ w \in EventWork => Tail(w) \in EventWork
           /\ Head(w) = "restarts" => /\ w \notin {<<>>, <<"commands">>}
                                      /\ Tail(w) \in {<<>>, <<"commands">>}
                                      /\ w \in EventWork => Tail(w) = <<>>
           /\ w = <<"commands">> => Tail(w) = <<>>
           /\ Head(w) = "probes" => w \notin {<<>>, <<"commands">>}
<1>1. CASE w = <<"commands">>
  <2>1. Head(w) = "commands" /\ Tail(w) = <<>>
    BY <1>1
  <2> QED
    BY <2>1 DEF TaskWork, EventWork
<1>2. CASE w = <<"restarts">>
  <2>1. Head(w) = "restarts" /\ Tail(w) = <<>> /\ w # <<"commands">>
    BY <1>2
  <2> QED
    BY <2>1 DEF TaskWork, EventWork
<1>3. CASE w = <<"restarts", "commands">>
  <2>1. Head(w) = "restarts" /\ Tail(w) = <<"commands">> /\ Len(w) = 2 /\ w[1] = "restarts"
    BY <1>3
  <2>2. w \notin EventWork
    <3>1. w # <<>> /\ w # <<"commands">> /\ w # <<"restarts">>
      BY <1>3
    <3>2. w # <<"probes", "restarts">>
      BY <2>1
    <3> QED
      BY <3>1, <3>2 DEF EventWork
  <2>3. w # <<"commands">>
    BY <1>3
  <2> QED
    BY <2>1, <2>2, <2>3 DEF TaskWork
<1>4. CASE w = <<"probes", "restarts">>
  <2>1. Head(w) = "probes" /\ Tail(w) = <<"restarts">> /\ w # <<"commands">>
    BY <1>4
  <2> QED
    BY <2>1 DEF TaskWork, EventWork
<1>5. CASE w = <<"probes", "restarts", "commands">>
  <2>1. Head(w) = "probes" /\ Tail(w) = <<"restarts", "commands">> /\ w # <<"commands">>
    BY <1>5
  <2>2. w \notin EventWork
    BY <1>5 DEF EventWork
  <2> QED
    BY <2>1, <2>2 DEF TaskWork
<1> QED
  BY <1>1, <1>2, <1>3, <1>4, <1>5 DEF TaskWork

\* A list of two steps and one more.
LEMMA OneMore ==
    ASSUME NEW p, NEW r, NEW c
    PROVE  <<p, r>> \o <<c>> = <<p, r, c>>
<1> DEFINE joined == <<p, r>> \o <<c>>
           three == <<p, r, c>>
<1>1. <<p, r>> \in Seq({p, r, c}) /\ <<c>> \in Seq({p, r, c}) /\ three \in Seq({p, r, c})
  OBVIOUS
<1>2. Len(joined) = 3 /\ joined[1] = p /\ joined[2] = r /\ joined[3] = c
  OBVIOUS
<1>3. Len(three) = 3 /\ three[1] = p /\ three[2] = r /\ three[3] = c
  OBVIOUS
<1>4. joined \in Seq({p, r, c})
  BY <1>1, ConcatProperties
<1>5. \A i \in 1 .. 3 : i = 1 \/ i = 2 \/ i = 3
  OBVIOUS
<1> HIDE DEF joined, three
<1>6. \A i \in 1 .. 3 : joined[i] = three[i]
  BY <1>2, <1>3, <1>5
<1> QED
  BY <1>1, <1>2, <1>3, <1>4, <1>6, SeqEqual DEF joined, three

LEMMA WorkOfFacts ==
    ASSUME NEW tasks
    PROVE  /\ WorkOf(tasks) \in TaskWork
           /\ Recovery \in tasks => WorkOf(tasks) # <<>> /\ Head(WorkOf(tasks)) = "probes"
           /\ ~(Recovery \in tasks /\ Backup \in tasks) => WorkOf(tasks) \in EventWork
<1>1. CASE Recovery \in tasks /\ Backup \in tasks /\ BackupStarts
  <2>1. WorkOf(tasks) = <<"probes", "restarts">> \o <<"commands">>
    BY <1>1 DEF WorkOf
  <2>2. <<"probes", "restarts">> \o <<"commands">> = <<"probes", "restarts", "commands">>
    BY OneMore
  <2>3. WorkOf(tasks) = <<"probes", "restarts", "commands">>
    BY <2>1, <2>2
  <2>4. /\ <<"probes", "restarts", "commands">> # <<>>
        /\ Head(<<"probes", "restarts", "commands">>) = "probes"
    OBVIOUS
  <2> QED
    BY <1>1, <2>3, <2>4 DEF TaskWork
<1>2. CASE Recovery \in tasks /\ ~(Backup \in tasks /\ BackupStarts)
  <2>1. WorkOf(tasks) = <<"probes", "restarts">> \o <<>>
    BY <1>2 DEF WorkOf
  <2>2. WorkOf(tasks) = <<"probes", "restarts">>
    BY <2>1
  <2> QED
    BY <2>2 DEF TaskWork, EventWork
<1>3. CASE Recovery \notin tasks /\ Backup \in tasks /\ BackupStarts
  <2>1. WorkOf(tasks) = <<>> \o <<"commands">>
    BY <1>3 DEF WorkOf
  <2>2. WorkOf(tasks) = <<"commands">>
    BY <2>1
  <2> QED
    BY <1>3, <2>2 DEF TaskWork, EventWork
<1>4. CASE Recovery \notin tasks /\ ~(Backup \in tasks /\ BackupStarts)
  <2>1. WorkOf(tasks) = <<>> \o <<>>
    BY <1>4 DEF WorkOf
  <2>2. WorkOf(tasks) = <<>>
    BY <2>1
  <2> QED
    BY <1>4, <2>2 DEF TaskWork, EventWork
<1> QED
  BY <1>1, <1>2, <1>3, <1>4

\* The windows of a task.
LEMMA WindowFacts ==
    ASSUME NEW t \in Scheduled
    PROVE  /\ At[t] \in Nat /\ Opens(t) \in Nat /\ Closes(t) \in Nat
           /\ At[t] <= Opens(t) /\ Closes(t) <= At[t] + Window
           /\ DaysOf(t) \subseteq Days[t]
           /\ t = Backup => /\ BackupAt <= Opens(t) /\ Closes(t) <= BackupAt + Window
                            /\ DaysOf(t) \subseteq BackupDays /\ BackupAt \in Nat
           /\ t # Backup => Opens(t) = At[t] /\ Closes(t) = At[t] + Window
BY ControlLoopAssumption DEF Opens, Closes, DaysOf

\* The steps of a start.
LEMMA StartFacts ==
    ASSUME Start
    PROVE  /\ pc' = "starting" /\ work' \in {<<"probes">>, <<"commands", "probes">>}
           /\ work' \in Seq(Steps) /\ left' \in Nat /\ work' # <<>>
<1>1. PICK steps \in {<<"probes">>, <<"commands", "probes">>} : Work(steps, "starting")
  BY DEF Start
<1>2. steps \in Seq(Steps) /\ steps # <<>>
  <2>1. /\ <<"probes">> \in Seq(Steps)
        /\ <<"commands", "probes">> \in Seq(Steps)
        /\ <<"probes">> # <<>> /\ <<"commands", "probes">> # <<>>
    BY DEF Steps
  <2> QED
    BY <2>1
<1> QED
  BY <1>1, <1>2, WorkFacts

\* A turn looks at the clock, marks what is due and puts its work ahead.
LEMMA TurnFacts ==
    ASSUME Turn
    PROVE  /\ pc = "turn" /\ pc' = "tasks"
           /\ work' = WorkOf(DueTasks) /\ work' \in TaskWork /\ work' \in Seq(Steps)
           /\ left' \in Nat /\ (work' = <<>> => left' = 0)
           /\ lastRecovery' = IF Recovery \in DueTasks THEN now ELSE lastRecovery
           /\ Ticked(DueTasks)
           /\ UNCHANGED <<now, skew, hung, readyAt, lastWatchdog, heardAt, probed, degraded,
                          shuttingDown, snapshot, turnedAt, busySince, failedAt, setAt, endedAt>>
<1>1. WorkOf(DueTasks) \in TaskWork /\ WorkOf(DueTasks) \in Seq(Steps)
  BY WorkOfFacts, WorkTypes
<1>2. Work(WorkOf(DueTasks), "tasks")
  BY DEF Turn
<1>3. /\ pc' = "tasks" /\ work' = WorkOf(DueTasks) /\ left' \in Nat
      /\ work' \in TaskWork /\ work' \in Seq(Steps)
      /\ WorkOf(DueTasks) = <<>> => left' = 0
  BY <1>1, <1>2, WorkFacts
<1> QED
  BY <1>3 DEF Turn, dogVars

\* An event is a tick of a task, the end of restic, or commands.
LEMMA ReceiveFacts ==
    ASSUME Receive
    PROVE  /\ pc = "recv" /\ pc' = "event"
           /\ work' \in EventWork /\ work' \in Seq(Steps)
           /\ left' \in Nat /\ (work' = <<>> => left' = 0)
           /\ \/ backupIdle' = TRUE /\ mark' = mark /\ endedAt' = now
              \/ endedAt' = endedAt /\ \E tasks \in SUBSET (Scheduled \cup {Recovery, DiskMonitor}) : Ticked(tasks)
           /\ shuttingDown' \in BOOLEAN
           /\ heardAt' = heardAt \/ (heardAt' = now /\ work' = <<>>)
           /\ busySince' = now
           /\ UNCHANGED <<now, skew, hung, readyAt, lastRecovery, lastWatchdog, probed,
                          degraded, snapshot, turnedAt, failedAt, setAt>>
<1> DEFINE event == Head(queue)
           tasks == {event} \cap (Scheduled \cup {Recovery, DiskMonitor})
           steps == IF event \in {"completed", "remediate"} THEN <<"commands">> ELSE WorkOf(tasks)
<1>1. steps \in EventWork
  <2>1. ~(Recovery \in tasks /\ Backup \in tasks)
    BY DEF Recovery, Backup
  <2> HIDE DEF tasks
  <2>2. WorkOf(tasks) \in EventWork
    BY <2>1, WorkOfFacts
  <2> QED
    BY <2>2 DEF EventWork
<1>2. steps \in Seq(Steps)
  BY <1>1, WorkTypes
<1>3. Work(steps, "event")
  BY DEF Receive
<1>4. \/ backupIdle' = TRUE /\ mark' = mark /\ endedAt' = now
      \/ endedAt' = endedAt /\ Ticked(tasks)
  BY DEF Receive
<1>5. tasks \in SUBSET (Scheduled \cup {Recovery, DiskMonitor})
  OBVIOUS
<1>6. /\ pc' = "event" /\ work' = steps /\ left' \in Nat
      /\ work' \in EventWork /\ work' \in Seq(Steps)
      /\ steps = <<>> => left' = 0
  <2> HIDE DEF steps
  <2> QED
    BY <1>1, <1>2, <1>3, WorkFacts
<1>7. \/ backupIdle' = TRUE /\ mark' = mark /\ endedAt' = now
      \/ endedAt' = endedAt /\ \E ts \in SUBSET (Scheduled \cup {Recovery, DiskMonitor}) : Ticked(ts)
  <2> HIDE DEF tasks
  <2> QED
    BY <1>4, <1>5
<1>8. /\ pc = "recv" /\ busySince' = now
      /\ UNCHANGED <<now, skew, hung, readyAt, lastRecovery, lastWatchdog, probed,
                     degraded, snapshot, turnedAt, failedAt, setAt>>
  BY DEF Receive
<1>9. shuttingDown' \in BOOLEAN
  <2>1. shuttingDown' = (shuttingDown \/ event = "shutdown")
    BY DEF Receive
  <2> QED
    BY <2>1
<1>10. heardAt' = heardAt \/ (heardAt' = now /\ work' = <<>>)
  <2>1. heardAt' = IF event = "unawaited" THEN now ELSE heardAt
    BY DEF Receive
  <2>2. event = "unawaited" => steps = WorkOf(tasks)
    OBVIOUS
  <2>3. event = "unawaited" => Recovery \notin tasks /\ Backup \notin tasks
    BY DEF Recovery, Backup
  <2> HIDE DEF tasks, event
  <2>4. Recovery \notin tasks /\ Backup \notin tasks => WorkOf(tasks) = <<>>
    <3>1. <<>> \o <<>> = <<>>
      OBVIOUS
    <3> QED
      BY <3>1 DEF WorkOf
  <2> QED
    BY <1>6, <2>1, <2>2, <2>3, <2>4
<1> HIDE DEF steps
<1> QED
  BY <1>6, <1>7, <1>8, <1>9, <1>10

\* A task whose mark moves has been marked today.
LEMMA TickedFacts ==
    ASSUME NEW tasks, Ticked(tasks), NEW t \in Scheduled
    PROVE  /\ mark'[t] = mark[t] \/ mark'[t] = Day(Wall)
           /\ t \in tasks /\ (t = Backup => BackupStarts) => mark'[t] = Day(Wall)
           /\ backupIdle' => backupIdle
BY DEF Ticked

-----------------------------------------------------------------------------
(* Types, and instants that have been *)

LEMMA TypedInit == Init => Typed
<1> SUFFICES ASSUME Init PROVE Typed
  OBVIOUS
<1>1. work = <<>> /\ <<>> \in Seq(Steps)
  BY DEF Init
<1> QED
  BY <1>1, ConstantFacts DEF Init, Typed, Past, Wall

\* A step at one instant notes that instant, or leaves what it noted.
LEMMA TypedAtOnce ==
    ASSUME Typed, now' = now, skew' = skew,
           pc' \in {"down", "starting", "turn", "tasks", "recv", "event", "stopped"},
           work' \in Seq(Steps), left' \in Nat,
           readyAt' = readyAt \/ readyAt' = now,
           lastRecovery' = lastRecovery \/ lastRecovery' = now,
           lastWatchdog' = lastWatchdog \/ lastWatchdog' = now,
           heardAt' = heardAt \/ heardAt' = now,
           turnedAt' = turnedAt \/ turnedAt' = now,
           busySince' = busySince \/ busySince' = now,
           probed' = probed \/ probed' = now \/ probed' = None,
           failedAt' = failedAt \/ failedAt' = now \/ failedAt' = None,
           setAt' = setAt, endedAt' = endedAt \/ endedAt' = now \/ endedAt' = None,
           snapshot' = snapshot \/ snapshot' = None \/ snapshot' = Published
    PROVE  Typed'
<1>1. /\ readyAt' \in Nat /\ readyAt' <= now /\ lastRecovery' \in Nat /\ lastRecovery' <= now
      /\ lastWatchdog' \in Nat /\ lastWatchdog' <= now /\ turnedAt' \in Nat /\ turnedAt' <= now
      /\ heardAt' \in Nat /\ heardAt' <= now /\ busySince' \in Nat /\ busySince' <= now
  BY DEF Typed
<1>2. Past(probed)' /\ Past(failedAt)' /\ Past(setAt)' /\ Past(endedAt)'
  BY DEF Typed, Past
<1>3. snapshot' # None => /\ snapshot'.at \in Nat /\ snapshot'.at <= now'
                          /\ snapshot'.wall \in Int /\ Past(snapshot.probed)'
  <2>1. CASE snapshot' = snapshot
    BY <2>1 DEF Typed, Past
  <2>2. CASE snapshot' = None
    BY <2>2
  <2>3. CASE snapshot' = Published
    <3>1. snapshot'.at = now /\ snapshot'.wall = now + skew /\ snapshot'.probed = probed
      BY <2>3 DEF Published, Wall
    <3> QED
      BY <3>1 DEF Typed, Past
  <2> QED
    BY <2>1, <2>2, <2>3
<1>4. Wall' \in Nat /\ now' \in Nat /\ skew' \in Int
  BY DEF Typed, Wall
<1> QED
  BY <1>1, <1>2, <1>3, <1>4 DEF Typed

LEMMA TypedStep ==
    ASSUME Typed, Next \/ UNCHANGED vars
    PROVE  Typed'
<1>1. CASE Start
  <2>1. /\ pc' = "starting" /\ work' \in Seq(Steps) /\ left' \in Nat
    BY <1>1, StartFacts
  <2> QED
    BY <1>1, <2>1, TypedAtOnce DEF Start, Typed
<1>2. CASE Ready
  BY <1>2, TypedAtOnce DEF Typed, Ready, Publish, stateVars
<1>3. CASE Turn
  <2>1. lastRecovery' = lastRecovery \/ lastRecovery' = now
    BY <1>3, TurnFacts
  <2> QED
    BY <1>3, <2>1, TurnFacts, TypedAtOnce
<1>4. CASE TasksDone
  <2>1. left' \in Nat
    BY <1>4, ControlLoopAssumption DEF TasksDone
  <2> QED
    BY <1>4, <2>1, TypedAtOnce DEF Typed, TasksDone, Publish, stateVars, schedVars, dogVars
<1>5. CASE Receive
  <2>1. endedAt' = endedAt \/ endedAt' = now
    BY <1>5, ReceiveFacts
  <2> QED
    BY <1>5, <2>1, ReceiveFacts, TypedAtOnce
<1>6. CASE NothingReceived \/ EventDone
  <2>1. /\ lastWatchdog' = lastWatchdog \/ lastWatchdog' = now
        /\ heardAt' = heardAt \/ heardAt' = now
        /\ pc' = "turn" /\ turnedAt' = now /\ busySince' = now
        /\ UNCHANGED <<now, skew, work, left, readyAt, lastRecovery, probed, failedAt, setAt,
                       endedAt, snapshot>>
    BY <1>6 DEF NothingReceived, EventDone, EndTurn, schedVars, dogVars, stateVars
  <2> QED
    BY <2>1, TypedAtOnce DEF Typed
<1>7. CASE LoopEnds
  BY <1>7, TypedAtOnce DEF Typed, LoopEnds, Publish, schedVars, dogVars, stateVars
<1>8. CASE StepDone
  <2>1. Tail(work) \in Seq(Steps) /\ Work(Tail(work), pc)
    BY <1>8 DEF StepDone, Typed
  <2>2. pc' = pc /\ work' \in Seq(Steps) /\ left' \in Nat
    BY <2>1, WorkFacts
  <2>3. /\ probed' = probed \/ probed' = now
        /\ failedAt' = failedAt \/ failedAt' = now
        /\ heardAt' = heardAt \/ heardAt' = now
        /\ UNCHANGED <<now, skew, readyAt, lastRecovery, lastWatchdog, turnedAt, busySince,
                       setAt, endedAt, snapshot>>
    BY <1>8 DEF StepDone, schedVars
  <2> QED
    BY <2>2, <2>3, TypedAtOnce DEF Typed
<1>9. CASE Hang \/ Input \/ UNCHANGED vars
  <2>1. UNCHANGED <<now, skew, pc, work, left, readyAt, lastRecovery, lastWatchdog, heardAt,
                    turnedAt, busySince, probed, failedAt, setAt, endedAt, snapshot>>
    BY <1>9 DEF Hang, Input, vars, schedVars, dogVars, stateVars
  <2> QED
    BY <2>1, TypedAtOnce DEF Typed
<1>10. CASE WatchdogKills \/ StartKilled \/ Crash
  <2>1. Killed
    BY <1>10 DEF WatchdogKills, StartKilled, Crash
  <2>2. work' \in Seq(Steps)
    BY <2>1 DEF Killed
  <2> QED
    BY <2>1, <2>2, TypedAtOnce DEF Typed, Killed, schedVars, dogVars, stateVars
<1>11. CASE SetClock
  <2>1. PICK d \in ClockSteps : Wall + d >= 0 /\ skew' = skew + d
    BY <1>11 DEF SetClock
  <2>2. d \in Int
    BY <2>1, ControlLoopAssumption
  <2>3. skew' \in Int /\ now + skew' \in Nat
    BY <2>1, <2>2 DEF Typed, Wall
  <2>4. /\ setAt' = now
        /\ UNCHANGED <<now, pc, work, left, readyAt, lastRecovery, lastWatchdog, heardAt, probed,
                       snapshot, turnedAt, busySince, failedAt, endedAt>>
    BY <1>11 DEF SetClock, schedVars, dogVars, stateVars
  <2>5. Wall' \in Nat
    BY <2>3, <2>4 DEF Wall
  <2>6. Past(probed)' /\ Past(failedAt)' /\ Past(endedAt)' /\ Past(setAt)'
    BY <2>4 DEF Typed, Past
  <2>7. snapshot' # None => /\ snapshot'.at \in Nat /\ snapshot'.at <= now'
                            /\ snapshot'.wall \in Int /\ Past(snapshot.probed)'
    BY <2>4 DEF Typed, Past
  <2> QED
    BY <2>3, <2>4, <2>5, <2>6, <2>7 DEF Typed
<1>12. CASE Tick
  <2>1. /\ now' = now + 1 /\ left' \in Nat
        /\ UNCHANGED <<skew, pc, work, readyAt, lastRecovery, lastWatchdog, heardAt, probed,
                       snapshot, turnedAt, busySince, failedAt, setAt, endedAt>>
    BY <1>12 DEF Tick, schedVars, dogVars, stateVars, Typed
  <2>2. Wall' \in Nat
    BY <2>1 DEF Typed, Wall
  <2>3. Past(probed)' /\ Past(failedAt)' /\ Past(endedAt)' /\ Past(setAt)'
    BY <2>1 DEF Typed, Past
  <2>4. snapshot' # None => /\ snapshot'.at \in Nat /\ snapshot'.at <= now'
                            /\ snapshot'.wall \in Int /\ Past(snapshot.probed)'
    BY <2>1 DEF Typed, Past
  <2> QED
    BY <2>1, <2>2, <2>3, <2>4 DEF Typed
<1> QED
  BY <1>1, <1>2, <1>3, <1>4, <1>5, <1>6, <1>7, <1>8, <1>9, <1>10, <1>11, <1>12 DEF Next

LEMMA FlagsStep ==
    ASSUME Flags, Next \/ UNCHANGED vars
    PROVE  Flags'
<1>1. CASE UNCHANGED <<degraded, shuttingDown>>
  BY <1>1 DEF Flags
<1>2. CASE Start
  <2>1. degraded' = FALSE /\ shuttingDown' = FALSE
    BY <1>2 DEF Start
  <2> QED
    BY <2>1 DEF Flags
<1>3. CASE StepDone
  <2>1. (degraded' = degraded \/ degraded' = TRUE) /\ shuttingDown' = shuttingDown
    BY <1>3 DEF StepDone
  <2> QED
    BY <2>1 DEF Flags
<1>4. CASE Receive
  <2>1. degraded' = degraded /\ shuttingDown' \in BOOLEAN
    BY <1>4, ReceiveFacts
  <2> QED
    BY <2>1 DEF Flags
<1>5. CASE Ready \/ Turn \/ TasksDone \/ NothingReceived \/ EventDone \/ LoopEnds \/ Hang
           \/ Input \/ WatchdogKills \/ StartKilled \/ Crash \/ SetClock \/ Tick
           \/ UNCHANGED vars
  <2>1. UNCHANGED <<degraded, shuttingDown>>
    BY <1>5 DEF Ready, Turn, TasksDone, NothingReceived, EventDone, LoopEnds, Hang, Input,
       WatchdogKills, StartKilled, Crash, Killed, SetClock, Tick, vars, stateVars
  <2> QED
    BY <1>1, <2>1
<1> QED
  BY <1>2, <1>3, <1>4, <1>5 DEF Next

\* What is published is a snapshot.
LEMMA PublishedFacts ==
    ASSUME Typed, Flags
    PROVE  /\ Published \in Snapshots /\ Published # None
           /\ Published.wall = now + skew /\ Published.at = now
           /\ Published.probed = probed /\ Published.degraded = degraded
<1>1. probed \in Int \cup {None} /\ Wall \in Int /\ now \in Int
  BY DEF Typed, Past
<1>2. Published \in Snapshots
  BY <1>1 DEF Published, Snapshots, Flags
<1> QED
  BY <1>2, ConstantFacts DEF Published, Wall

-----------------------------------------------------------------------------
(* A turn in time *)

LEMMA TimedFrame ==
    ASSUME Timed, UNCHANGED <<now, pc, work, left, hung, readyAt, lastWatchdog, heardAt, turnedAt>>
    PROVE  Timed'
BY DEF Timed, Alive, Up

\* The watchdog is served, if it is time, as a turn ends.
LEMMA TimedEndTurn ==
    ASSUME Typed, Timed, NothingReceived \/ EventDone
    PROVE  Timed'
<1> USE DEF Typed, Timed, Alive, Up
<1> USE ConstantFacts
<1>1. /\ pc \in {"recv", "event"} /\ work = <<>> /\ left = 0 /\ ~hung
      /\ pc' = "turn" /\ turnedAt' = now
      /\ lastWatchdog' = IF now - lastWatchdog >= WatchdogInterval THEN now ELSE lastWatchdog
      /\ heardAt' = IF now - lastWatchdog >= WatchdogInterval THEN now ELSE heardAt
      /\ UNCHANGED <<now, work, left, hung, readyAt>>
  BY DEF NothingReceived, EventDone, EndTurn, schedVars, dogVars
<1>2. /\ lastWatchdog <= heardAt /\ now <= heardAt + WatchdogSec /\ readyAt <= now
      /\ heardAt \in Nat /\ heardAt <= now /\ lastWatchdog \in Nat
  BY <1>1
<1>3. /\ lastWatchdog' <= turnedAt' /\ turnedAt' - lastWatchdog' < WatchdogInterval
      /\ lastWatchdog' <= heardAt' /\ readyAt' <= turnedAt'
      /\ now' <= heardAt' + WatchdogSec /\ now' <= turnedAt' + TurnLimit
      /\ heardAt' <= turnedAt' + WatchdogSec
  BY <1>1, <1>2
<1> QED
  BY <1>1, <1>3

\* A recovery among the tasks serves it, and one in an event.
LEMMA TimedStepDone ==
    ASSUME Typed, Timed, StepDone
    PROVE  Timed'
<1> USE DEF Typed, Timed, Alive, Up
<1> USE ConstantFacts
<1>1. /\ work # <<>> /\ ~hung /\ Work(Tail(work), pc) /\ Tail(work) \in Seq(Steps)
      /\ heardAt' = IF Head(work) = "restarts" THEN now ELSE heardAt
      /\ UNCHANGED <<now, hung, readyAt, lastWatchdog, turnedAt>>
  BY DEF StepDone, schedVars
<1>2. pc' = pc /\ work' = Tail(work) /\ (work' = <<>> => left' = 0)
  BY <1>1, WorkFacts
<1>3. pc = "tasks" => /\ work' \in TaskWork
                      /\ Head(work) = "restarts" => /\ work \notin {<<>>, <<"commands">>}
                                                    /\ work' \in {<<>>, <<"commands">>}
                      /\ work = <<"commands">> => work' = <<>>
  BY <1>1, <1>2, TailFacts
<1>4. pc = "event" => work' \in EventWork /\ (Head(work) = "restarts" => work' = <<>>)
  <2>1. pc = "event" => work \in TaskWork /\ work \in EventWork
    BY WorkTypes
  <2> QED
    BY <1>1, <1>2, <2>1, TailFacts
<1>5. pc \notin {"turn", "recv"}
  BY <1>1
<1>6. ASSUME Alive
      PROVE  /\ lastWatchdog' <= heardAt' /\ now' <= heardAt' + WatchdogSec
             /\ heardAt' <= turnedAt' + WatchdogSec \/ (pc' = "event" /\ work' = <<>>)
             /\ pc' = "tasks" /\ work' \notin {<<>>, <<"commands">>} => heardAt' <= turnedAt'
  <2>1. pc \in {"tasks", "event"}
    BY <1>5, <1>6
  <2>2. CASE Head(work) = "restarts"
    <3>1. heardAt' = now
      BY <1>1, <2>2
    <3>2. CASE pc = "tasks"
      <4>1. heardAt <= turnedAt /\ now <= turnedAt + WatchdogSec
        BY <1>3, <1>6, <2>2, <3>2
      <4> QED
        BY <1>1, <1>2, <1>3, <1>6, <2>2, <3>1, <3>2, <4>1
    <3>3. CASE pc = "event"
      <4>1. work' = <<>> /\ pc' = "event" /\ now' = now
        BY <1>1, <1>2, <1>4, <2>2, <3>3
      <4>2. lastWatchdog' <= heardAt' /\ now' <= heardAt' + WatchdogSec
        BY <1>1, <1>6, <3>1, <4>1
      <4> QED
        BY <4>1, <4>2
    <3> QED
      BY <2>1, <3>2, <3>3
  <2>3. CASE Head(work) # "restarts"
    <3>1. heardAt' = heardAt
      BY <1>1, <2>3
    <3>2. heardAt <= turnedAt + WatchdogSec
      BY <1>1, <1>6
    <3>3. pc = "tasks" /\ work' \notin {<<>>, <<"commands">>} => work \notin {<<>>, <<"commands">>}
      BY <1>1, <1>3
    <3> QED
      BY <1>1, <1>2, <1>6, <3>1, <3>2, <3>3
  <2> QED
    BY <2>2, <2>3
<1>7. Alive' => Alive
  BY <1>2
<1> QED
  BY <1>1, <1>2, <1>3, <1>4, <1>5, <1>6, <1>7

LEMMA TimedTick ==
    ASSUME Typed, Timed, Tick
    PROVE  Timed'
<1> USE DEF Typed, Timed, Alive, Up
<1> USE ConstantFacts
<1>1. /\ ~Unheard /\ Idling /\ now' = now + 1
      /\ UNCHANGED <<pc, work, hung, readyAt, lastWatchdog, heardAt, turnedAt>>
      /\ (left = 0 => left' = 0)
  BY DEF Tick, schedVars, dogVars
<1>2. pc # "turn" /\ ~(pc = "event" /\ work = <<>>)
  BY <1>1 DEF Idling
<1>3. ASSUME Alive
      PROVE  now + 1 <= heardAt + WatchdogSec /\ now + 1 <= turnedAt + TurnLimit
  <2>1. now + 1 <= heardAt + WatchdogSec
    BY <1>1, <1>3 DEF Unheard
  <2>2. heardAt <= turnedAt + WatchdogSec
    BY <1>2, <1>3
  <2>3. now \in Nat /\ heardAt \in Nat /\ turnedAt \in Nat
    OBVIOUS
  <2>4. WatchdogSec \in Nat /\ TurnLimit = 2 * WatchdogSec
    BY ConstantFacts
  <2>5. now + 1 <= turnedAt + TurnLimit
    BY ONLY <2>1, <2>2, <2>3, <2>4
  <2> QED
    BY <2>1, <2>5
<1> QED
  BY <1>1, <1>2, <1>3

LEMMA TimedStep ==
    ASSUME Typed, Timed, Next \/ UNCHANGED vars
    PROVE  Timed'
<1> USE DEF Typed, Timed, Alive, Up
<1> USE ConstantFacts
<1>1. CASE Start
  BY <1>1, StartFacts
<1>2. CASE Ready
  BY <1>2 DEF Ready
<1>3. CASE Turn
  <2>1. heardAt <= turnedAt
    BY <1>3, TurnFacts
  <2> QED
    BY <1>3, <2>1, TurnFacts
<1>4. CASE TasksDone
  <2>1. /\ pc = "tasks" /\ work = <<>> /\ pc' = "recv"
        /\ UNCHANGED <<now, work, hung, readyAt, lastWatchdog, heardAt, turnedAt>>
    BY <1>4 DEF TasksDone, schedVars, dogVars
  <2> QED
    BY <2>1
<1>5. CASE Receive
  <2>1. /\ pc = "recv" /\ pc' = "event" /\ work = <<>> /\ work' \in EventWork
        /\ UNCHANGED <<now, hung, readyAt, lastWatchdog, turnedAt>>
        /\ work' = <<>> => left' = 0
        /\ heardAt' = heardAt \/ (heardAt' = now /\ work' = <<>>)
    BY <1>5, ReceiveFacts
  <2> QED
    BY <2>1
<1>6. CASE NothingReceived \/ EventDone
  BY <1>6, TimedEndTurn
<1>7. CASE LoopEnds
  BY <1>7 DEF LoopEnds
<1>8. CASE StepDone
  BY <1>8, TimedStepDone
<1>9. CASE Hang
  BY <1>9 DEF Hang, schedVars, dogVars
<1>10. CASE WatchdogKills \/ StartKilled \/ Crash
  BY <1>10 DEF WatchdogKills, StartKilled, Crash, Killed
<1>11. CASE Input \/ SetClock \/ UNCHANGED vars
  <2>1. UNCHANGED <<now, pc, work, left, hung, readyAt, lastWatchdog, heardAt, turnedAt>>
    BY <1>11 DEF Input, SetClock, vars, schedVars, dogVars
  <2> QED
    BY <2>1, TimedFrame
<1>12. CASE Tick
  BY <1>12, TimedTick
<1> QED
  BY <1>1, <1>2, <1>3, <1>4, <1>5, <1>6, <1>7, <1>8, <1>9, <1>10, <1>11, <1>12 DEF Next

-----------------------------------------------------------------------------
(* Probes, from one cycle to the next *)

LEMMA CycledFrame ==
    ASSUME Cycled, UNCHANGED <<now, pc, work, readyAt, lastRecovery, probed, turnedAt, snapshot>>
    PROVE  Cycled'
BY DEF Cycled, Recovering, Alive, Up

\* Probes are due in a turn, or they have been done since.
LEMMA CycledStep ==
    ASSUME Typed, Flags, Timed, Cycled, Next \/ UNCHANGED vars
    PROVE  Cycled'
<1> USE DEF Typed, Past, Timed, Alive, Up
<1> USE ConstantFacts
<1>1. CASE Start
  <2>1. /\ pc' = "starting" /\ work' # <<>>
        /\ work' \in {<<"probes">>, <<"commands", "probes">>}
    BY <1>1, StartFacts
  <2> QED
    BY <2>1 DEF Cycled
<1>2. CASE Ready
  <2>1. /\ pc = "starting" /\ work = <<>> /\ pc' = "turn"
        /\ snapshot' = Published
        /\ readyAt' = now /\ lastRecovery' = now /\ turnedAt' = now
        /\ UNCHANGED <<now, work, probed>>
    BY <1>2 DEF Ready, Publish, stateVars
  <2>2. probed = now
    BY <2>1 DEF Cycled
  <2>3. snapshot' # None /\ snapshot'.probed = now
    BY <2>1, <2>2, PublishedFacts
  <2> QED
    BY <2>1, <2>2, <2>3 DEF Cycled
<1>3. CASE Turn
  <2>1. /\ pc = "turn" /\ pc' = "tasks" /\ work' = WorkOf(DueTasks)
        /\ lastRecovery' = IF Recovery \in DueTasks THEN now ELSE lastRecovery
        /\ UNCHANGED <<now, readyAt, probed, turnedAt, snapshot>>
    BY <1>3, TurnFacts
  <2>2. /\ probed # None /\ readyAt <= probed /\ lastRecovery <= probed
        /\ snapshot # None /\ snapshot.probed # None
        /\ turnedAt - snapshot.probed < Period + TurnLimit
    BY <2>1 DEF Cycled, Recovering
  <2>3. CASE Recovery \in DueTasks
    <3>1. WorkOf(DueTasks) # <<>> /\ Head(WorkOf(DueTasks)) = "probes"
      BY <2>3, WorkOfFacts
    <3>2. pc' = "tasks" /\ work' # <<>> /\ Head(work') = "probes"
      BY ONLY <2>1, <3>1
    <3>3. Recovering'
      BY ONLY <3>2 DEF Recovering
    <3>4. pc' # "starting" /\ pc' \notin {"recv", "event"}
      BY ONLY <3>2
    <3>5. /\ probed' # None /\ readyAt' <= probed'
          /\ snapshot' # None /\ (snapshot.probed)' # None
          /\ (turnedAt - snapshot.probed)' < Period + TurnLimit
      BY ONLY <2>1, <2>2
    <3> QED
      BY ONLY <3>3, <3>4, <3>5 DEF Cycled
  <2>4. CASE Recovery \notin DueTasks
    <3>1. now - readyAt < StartupDelay \/ now - lastRecovery < RecoveryInterval
      <4>1. now \in Nat /\ readyAt \in Nat /\ lastRecovery \in Nat
        OBVIOUS
      <4>2. StartupDelay \in Nat /\ RecoveryInterval \in Nat
        BY ConstantFacts
      <4>3. now - readyAt < StartupDelay \/ ~(now - lastRecovery >= RecoveryInterval)
        BY ONLY <2>4 DEF DueTasks
      <4> QED
        BY ONLY <4>1, <4>2, <4>3
    <3>2. /\ now \in Nat /\ probed \in Nat /\ readyAt \in Nat /\ lastRecovery \in Nat
          /\ now = turnedAt
      BY <2>1, <2>2
    <3>3. /\ Period \in Nat /\ Period >= StartupDelay /\ Period >= RecoveryInterval
          /\ StartupDelay \in Nat /\ RecoveryInterval \in Nat
      BY ConstantFacts
    <3>4. now - probed < Period
      BY ONLY <2>2, <3>1, <3>2, <3>3
    <3>5. pc' = "tasks" /\ pc' # "starting" /\ pc' \notin {"recv", "event"}
      BY ONLY <2>1
    <3>6. /\ probed' # None /\ readyAt' <= probed' /\ lastRecovery' <= probed'
          /\ snapshot' # None /\ (snapshot.probed)' # None
          /\ (turnedAt - snapshot.probed)' < Period + TurnLimit
          /\ (turnedAt - probed)' < Period
      BY ONLY <2>1, <2>2, <2>4, <3>2, <3>4
    <3> QED
      BY ONLY <3>5, <3>6 DEF Cycled
  <2> QED
    BY <2>3, <2>4
<1>4. CASE TasksDone
  <2>1. /\ pc = "tasks" /\ work = <<>> /\ pc' = "recv" /\ snapshot' = Published
        /\ UNCHANGED <<now, work, readyAt, lastRecovery, probed, turnedAt>>
    BY <1>4 DEF TasksDone, Publish, stateVars, schedVars
  <2>2. /\ probed # None /\ readyAt <= probed /\ lastRecovery <= probed
        /\ turnedAt - probed < Period
    BY <2>1 DEF Cycled, Recovering
  <2>3. snapshot' # None /\ snapshot'.probed = probed
    BY <2>1, PublishedFacts
  <2> QED
    BY <2>1, <2>2, <2>3 DEF Cycled
<1>5. CASE Receive
  <2>1. /\ pc = "recv" /\ pc' = "event"
        /\ UNCHANGED <<now, readyAt, lastRecovery, probed, turnedAt, snapshot>>
    BY <1>5, ReceiveFacts
  <2> QED
    BY <2>1 DEF Cycled, Recovering
<1>6. CASE NothingReceived \/ EventDone
  <2>1. /\ pc \in {"recv", "event"} /\ pc' = "turn" /\ turnedAt' = now
        /\ UNCHANGED <<now, work, readyAt, lastRecovery, probed, snapshot>>
    BY <1>6 DEF NothingReceived, EventDone, EndTurn, schedVars, stateVars
  <2>2. /\ probed # None /\ readyAt <= probed /\ lastRecovery <= probed
        /\ snapshot # None /\ snapshot.probed # None
        /\ turnedAt - snapshot.probed < Period
    BY <2>1 DEF Cycled, Recovering
  <2>3. now <= turnedAt + TurnLimit
    BY <2>1
  <2>4. snapshot.probed \in Nat
    BY <2>2
  <2>5. now - snapshot.probed < Period + TurnLimit
    BY <2>2, <2>3, <2>4
  <2> QED
    BY <2>1, <2>2, <2>5 DEF Cycled
<1>7. CASE LoopEnds \/ WatchdogKills \/ StartKilled \/ Crash
  <2>1. pc' \in {"down", "stopped"}
    BY <1>7 DEF LoopEnds, WatchdogKills, StartKilled, Crash, Killed
  <2> QED
    BY <2>1 DEF Cycled
<1>8. CASE StepDone
  <2>1. /\ work # <<>> /\ Work(Tail(work), pc)
        /\ probed' = IF Head(work) = "probes" THEN now ELSE probed
        /\ UNCHANGED <<now, readyAt, lastRecovery, turnedAt, snapshot>>
    BY <1>8 DEF StepDone, schedVars
  <2>2. pc' = pc /\ work' = Tail(work)
    BY <2>1 DEF Work
  <2>3. CASE pc = "starting"
    <3>1. CASE work = <<"probes">>
      BY <2>1, <2>2, <2>3, <3>1 DEF Cycled
    <3>2. CASE work = <<"commands", "probes">>
      BY <2>1, <2>2, <2>3, <3>2 DEF Cycled
    <3> QED
      BY <2>1, <2>3, <3>1, <3>2 DEF Cycled
  <2>4. CASE Alive /\ Head(work) = "probes"
    BY <2>1, <2>2, <2>4 DEF Cycled
  <2>5. CASE Alive /\ Head(work) # "probes"
    <3>1. probed' = probed /\ ~Recovering
      BY <2>1, <2>5 DEF Recovering
    <3> QED
      BY <2>1, <2>2, <2>5, <3>1 DEF Cycled
  <2>6. CASE ~Up
    BY <2>2, <2>6 DEF Cycled
  <2> QED
    BY <2>3, <2>4, <2>5, <2>6
<1>9. CASE Hang \/ Input \/ SetClock \/ UNCHANGED vars
  <2>1. UNCHANGED <<now, pc, work, readyAt, lastRecovery, probed, turnedAt, snapshot>>
    BY <1>9 DEF Hang, Input, SetClock, vars, schedVars, stateVars
  <2> QED
    BY <2>1, CycledFrame
<1>10. CASE Tick
  <2>1. /\ Idling
        /\ UNCHANGED <<pc, work, readyAt, lastRecovery, probed, turnedAt, snapshot>>
    BY <1>10 DEF Tick, schedVars, stateVars
  <2>2. ~(pc = "starting" /\ work = <<>>)
    <3> SUFFICES ASSUME pc = "starting", work = <<>>
                 PROVE  FALSE
      OBVIOUS
    <3>1. Up /\ ~hung /\ left = 0
      OBVIOUS
    <3>2. ~(left > 0)
      BY <3>1
    <3> QED
      BY <2>1, <3>1, <3>2 DEF Idling
  <2> QED
    BY <2>1, <2>2 DEF Cycled, Recovering
<1> QED
  BY <1>1, <1>2, <1>3, <1>4, <1>5, <1>6, <1>7, <1>8, <1>9, <1>10 DEF Next

-----------------------------------------------------------------------------
(* What the snapshot does not say *)

LEMMA ToldFrame ==
    ASSUME Told, UNCHANGED <<skew, pc, degraded, busySince, failedAt, setAt, snapshot>>
    PROVE  Told'
BY DEF Told, Up

LEMMA ToldPublish ==
    ASSUME Typed, Flags, Told, snapshot' = Published, UNCHANGED <<now, skew, degraded, failedAt, setAt>>,
           pc' # "starting", busySince' = now \/ pc' = "stopped"
    PROVE  Told'
<1>1. /\ snapshot'.degraded = degraded /\ snapshot'.at = now /\ snapshot'.wall = now + skew
  BY PublishedFacts
<1>2. now \in Nat /\ skew \in Int
  BY DEF Typed
<1> QED
  BY <1>1, <1>2 DEF Told, Up

\* A failure after the snapshot is not older than it, and a clock that was not
\* set since tells its age.
LEMMA ToldStep ==
    ASSUME Typed, Flags, Told, Next \/ UNCHANGED vars
    PROVE  Told'
<1> USE DEF Typed, Past
<1> USE ConstantFacts
<1>1. CASE Start
  <2>1. /\ snapshot' = None /\ failedAt' = None /\ degraded' = FALSE
    BY <1>1 DEF Start
  <2> QED
    BY <2>1 DEF Told
<1>2. CASE Ready \/ TasksDone \/ LoopEnds
  <2>1. snapshot' = Published /\ pc' # "starting" /\ (busySince' = now \/ pc' = "stopped")
        /\ UNCHANGED <<now, skew, degraded, failedAt, setAt>>
    BY <1>2 DEF Ready, TasksDone, LoopEnds, Publish, stateVars
  <2> QED
    BY <2>1, ToldPublish
<1>3. CASE Turn \/ Receive \/ NothingReceived \/ EventDone
  <2>1. /\ pc # "starting" /\ pc \notin {"down", "stopped"} /\ pc' # "starting"
        /\ UNCHANGED <<skew, degraded, failedAt, setAt, snapshot>>
        /\ busySince' = busySince \/ busySince' = now
    BY <1>3, TurnFacts, ReceiveFacts DEF NothingReceived, EventDone, EndTurn, stateVars
  <2> QED
    BY <2>1 DEF Told, Up
<1>4. CASE StepDone
  <2>1. /\ Work(Tail(work), pc) /\ UNCHANGED <<skew, busySince, setAt, snapshot>>
        /\ \/ UNCHANGED <<degraded, failedAt>>
           \/ degraded' = TRUE /\ failedAt' = IF failedAt = None THEN now ELSE failedAt
    BY <1>4 DEF StepDone
  <2>2. pc' = pc
    BY <2>1 DEF Work
  <2>3. CASE UNCHANGED <<degraded, failedAt>>
    BY <2>1, <2>2, <2>3, ToldFrame
  <2>4. CASE degraded' = TRUE /\ failedAt' = IF failedAt = None THEN now ELSE failedAt
    <3>1. CASE failedAt = None
      BY <2>1, <2>2, <2>4, <3>1 DEF Told, Up
    <3>2. CASE failedAt # None
      BY <2>1, <2>2, <2>4, <3>2 DEF Told, Up
    <3> QED
      BY <3>1, <3>2
  <2> QED
    BY <2>1, <2>3, <2>4
<1>5. CASE Hang \/ Input \/ Tick \/ UNCHANGED vars
  <2>1. UNCHANGED <<skew, pc, degraded, busySince, failedAt, setAt, snapshot>>
    BY <1>5 DEF Hang, Input, Tick, vars, stateVars
  <2> QED
    BY <2>1, ToldFrame
<1>6. CASE WatchdogKills \/ StartKilled \/ Crash
  <2>1. pc' = "down" /\ UNCHANGED <<skew, degraded, failedAt, setAt, snapshot>>
    BY <1>6 DEF WatchdogKills, StartKilled, Crash, Killed, stateVars
  <2> QED
    BY <2>1 DEF Told, Up
<1>7. CASE SetClock
  <2>1. setAt' = now /\ UNCHANGED <<pc, degraded, busySince, failedAt, snapshot>>
    BY <1>7 DEF SetClock, stateVars
  <2>2. setAt' # None
    BY <2>1
  <2>3. snapshot # None => ~(setAt' < snapshot.at)
    BY <2>1
  <2> QED
    BY <2>1, <2>2, <2>3 DEF Told, Up
<1> QED
  BY <1>1, <1>2, <1>3, <1>4, <1>5, <1>6, <1>7 DEF Next

-----------------------------------------------------------------------------
(* Windows and marks *)

\* What a step at one instant may do to marks, and to the idleness of the
\* backup.
Marking ==
    /\ UNCHANGED <<now, skew, readyAt, setAt>>
    /\ \A t \in Scheduled : mark'[t] = mark[t] \/ mark'[t] = Day(Wall)
    /\ \/ endedAt' = now
       \/ endedAt' = endedAt /\ (backupIdle' => backupIdle)

LEMMA MarkingSteps ==
    ASSUME Turn \/ Receive \/ TasksDone \/ NothingReceived \/ EventDone \/ StepDone
           \/ Hang \/ Input \/ UNCHANGED vars
    PROVE  Marking
<1>1. CASE Turn
  <2>1. /\ UNCHANGED <<now, skew, readyAt, setAt, endedAt>>
        /\ Ticked(DueTasks)
    BY <1>1, TurnFacts
  <2>2. \A t \in Scheduled : mark'[t] = mark[t] \/ mark'[t] = Day(Wall)
    BY <2>1, TickedFacts
  <2>3. backupIdle' => backupIdle
    BY <2>1 DEF Ticked
  <2> QED
    BY <2>1, <2>2, <2>3 DEF Marking
<1>2. CASE Receive
  <2>1. /\ UNCHANGED <<now, skew, readyAt, setAt>>
        /\ \/ backupIdle' = TRUE /\ mark' = mark /\ endedAt' = now
           \/ endedAt' = endedAt /\ \E tasks \in SUBSET (Scheduled \cup {Recovery, DiskMonitor}) : Ticked(tasks)
    BY <1>2, ReceiveFacts
  <2>2. CASE backupIdle' = TRUE /\ mark' = mark /\ endedAt' = now
    BY <2>1, <2>2 DEF Marking
  <2>3. CASE endedAt' = endedAt /\ \E tasks \in SUBSET (Scheduled \cup {Recovery, DiskMonitor}) : Ticked(tasks)
    <3>1. PICK tasks \in SUBSET (Scheduled \cup {Recovery, DiskMonitor}) : Ticked(tasks)
      BY <2>3
    <3>2. \A t \in Scheduled : mark'[t] = mark[t] \/ mark'[t] = Day(Wall)
      BY <3>1, TickedFacts
    <3>3. backupIdle' => backupIdle
      BY <3>1 DEF Ticked
    <3> QED
      BY <2>1, <2>3, <3>2, <3>3 DEF Marking
  <2> QED
    BY <2>1, <2>2, <2>3
<1>3. CASE TasksDone \/ NothingReceived \/ EventDone \/ StepDone \/ Hang \/ Input \/ UNCHANGED vars
  <2>1. UNCHANGED <<now, skew, readyAt, setAt, mark, endedAt, backupIdle>>
    BY <1>3 DEF TasksDone, NothingReceived, EventDone, StepDone, Hang, Input, vars, schedVars,
       stateVars
  <2> QED
    BY <2>1 DEF Marking
<1> QED
  BY <1>1, <1>2, <1>3

\* A backup that is idle after such a step, and has not ended since, was.
LEMMA IdleKept ==
    ASSUME Typed, Marking, NEW t \in Scheduled, NEW since \in Int, since <= now, Idle(t, since)'
    PROVE  Idle(t, since)
<1>1. now \in Nat /\ now # None
  BY ConstantFacts DEF Typed
<1> QED
  BY <1>1 DEF Marking, Idle

LEMMA TurnMarksKept ==
    ASSUME Typed, TurnMarks, Marking, UNCHANGED turnedAt, pc \in {"tasks", "recv", "event"}
    PROVE  TurnMarks'
<1> SUFFICES ASSUME NEW t \in Scheduled, InTurn(t)'
             PROVE  mark'[t] = Day(Wall')
  BY DEF TurnMarks
<1>1. Wall' = Wall /\ now' = now /\ readyAt' = readyAt /\ setAt' = setAt
  BY DEF Marking, Wall
<1>2. Idle(t, turnedAt)'
  BY DEF InTurn
<1>3. Idle(t, turnedAt)
  BY <1>2, IdleKept DEF Typed, Idle
<1>4. InTurn(t)
  BY <1>1, <1>3 DEF InTurn, Unset
<1>5. mark[t] = Day(Wall)
  BY <1>4 DEF TurnMarks
<1> QED
  BY <1>1, <1>5 DEF Marking

LEMMA WindowMarksKept ==
    ASSUME Typed, WindowMarks, Marking, Alive
    PROVE  WindowMarks'
<1> SUFFICES ASSUME NEW t \in Scheduled, Open(t)'
             PROVE  mark'[t] = Day(Wall')
  BY DEF WindowMarks
<1>1. Wall' = Wall /\ now' = now /\ readyAt' = readyAt /\ setAt' = setAt
  BY DEF Marking, Wall
<1>2. PICK since \in Int : since = now - TurnLimit /\ since <= now
  BY ConstantFacts DEF Typed
<1>3. Idle(t, now - TurnLimit)'
  BY DEF Open
<1>4. Idle(t, since)'
  BY <1>1, <1>2, <1>3 DEF Idle
<1>5. Idle(t, now - TurnLimit)
  BY <1>2, <1>4, IdleKept
<1>6. Open(t)
  BY <1>1, <1>5 DEF Open, Unset
<1>7. mark[t] = Day(Wall)
  BY <1>6 DEF WindowMarks
<1> QED
  BY <1>1, <1>7 DEF Marking

\* What is due as a turn begins is marked, if the backup does not hold it up.
LEMMA TurnMarksTurn ==
    ASSUME Typed, Timed, Turn
    PROVE  TurnMarks'
<1> SUFFICES ASSUME NEW t \in Scheduled, InTurn(t)'
             PROVE  mark'[t] = Day(Wall')
  BY DEF TurnMarks
<1>1. /\ pc = "turn" /\ Ticked(DueTasks)
      /\ UNCHANGED <<now, skew, readyAt, turnedAt, setAt, endedAt>>
  BY TurnFacts
<1>2. Wall' = Wall /\ turnedAt = now
  BY <1>1 DEF Wall, Timed
<1>3. /\ now - readyAt >= StartupDelay
      /\ Day(Wall) \in DaysOf(t)
      /\ TimeOfDay(Wall) \in Nat
      /\ Opens(t) <= TimeOfDay(Wall) /\ TimeOfDay(Wall) < Closes(t)
  <2>1. TimeOfDay(Wall) \in Nat /\ now \in Nat
    BY TimeOfDayType DEF Typed
  <2> QED
    BY <1>1, <1>2, <2>1, WindowFacts, ConstantFacts DEF InTurn
<1>4. CASE mark[t] = Day(Wall)
  BY <1>1, <1>2, <1>4, TickedFacts
<1>5. CASE mark[t] # Day(Wall)
  <2>1. IsDue(t)
    BY <1>3, <1>5, WindowFacts, ConstantFacts DEF IsDue, InWindow
  <2>2. t \in DueTasks
    <3>1. ~(now - readyAt < StartupDelay)
      BY <1>3, ConstantFacts DEF Typed
    <3> QED
      BY <2>1, <3>1 DEF DueTasks
  <2>3. t = Backup => BackupStarts
    <3>1. t = Backup => backupIdle'
      BY DEF InTurn, Idle
    <3>2. t = Backup => backupIdle
      BY <1>1, <3>1, TickedFacts
    <3>3. t = Backup => InWindow(BackupDays, BackupAt)
      BY <1>3, WindowFacts, ConstantFacts DEF InWindow
    <3> QED
      BY <1>5, <3>2, <3>3 DEF BackupStarts
  <2> QED
    BY <1>1, <1>2, <2>2, <2>3, TickedFacts
<1> QED
  BY <1>4, <1>5

\* As time passes within a turn, the beginning of the turn stays where it was.
LEMMA TurnMarksTick ==
    ASSUME Typed, Timed, TurnMarks, Tick
    PROVE  TurnMarks'
<1> SUFFICES ASSUME NEW t \in Scheduled, InTurn(t)'
             PROVE  mark'[t] = Day(Wall')
  BY DEF TurnMarks
<1>1. /\ now' = now + 1
      /\ UNCHANGED <<skew, pc, readyAt, turnedAt, setAt, endedAt, mark, backupIdle>>
  BY DEF Tick, schedVars, stateVars
<1>2. Wall \in Nat /\ Wall' = Wall + 1 /\ now \in Nat /\ turnedAt \in Nat /\ turnedAt <= now
  BY <1>1 DEF Typed, Wall
<1>3. Opens(t) \in Nat /\ TimeOfDay(Wall + 1) \in Nat /\ TimeOfDay(Wall) \in Nat
  BY <1>2, TimeOfDayType, WindowFacts
<1>4. TimeOfDay(Wall + 1) - (now + 1 - turnedAt) >= Opens(t)
  BY <1>1, <1>2, <1>3 DEF InTurn
<1>5. TimeOfDay(Wall + 1) >= 1
  BY <1>2, <1>3, <1>4
<1>6. Day(Wall + 1) = Day(Wall) /\ TimeOfDay(Wall + 1) = TimeOfDay(Wall) + 1
  BY <1>2, <1>5, DayStep
<1>7. TimeOfDay(Wall + 1) - (now + 1 - turnedAt) = TimeOfDay(Wall) - (now - turnedAt)
  BY <1>2, <1>3, <1>6
<1>8. InTurn(t)
  <2>1. /\ pc \in {"tasks", "recv", "event"} /\ turnedAt - readyAt >= StartupDelay
        /\ Unset(turnedAt) /\ Idle(t, turnedAt)
    BY <1>1 DEF InTurn, Unset, Idle
  <2>2. Day(Wall) \in DaysOf(t)
    BY <1>2, <1>6 DEF InTurn
  <2>3. TimeOfDay(Wall + 1) - (now + 1 - turnedAt) < Closes(t)
    BY <1>1, <1>2 DEF InTurn
  <2> QED
    BY <1>4, <1>7, <2>1, <2>2, <2>3 DEF InTurn
<1>9. mark[t] = Day(Wall)
  BY <1>8 DEF TurnMarks
<1> QED
  BY <1>1, <1>2, <1>6, <1>9

LEMMA TurnMarksStep ==
    ASSUME Typed, Timed, TurnMarks, Next \/ UNCHANGED vars
    PROVE  TurnMarks'
<1>1. CASE pc' \notin {"tasks", "recv", "event"}
  BY <1>1 DEF TurnMarks, InTurn
<1>2. CASE Turn
  BY <1>2, TurnMarksTurn
<1>3. CASE Receive \/ TasksDone \/ StepDone \/ Hang \/ Input \/ UNCHANGED vars
  <2>1. Marking
    BY <1>3, MarkingSteps
  <2>2. UNCHANGED turnedAt
    BY <1>3, ReceiveFacts DEF TasksDone, StepDone, Hang, Input, vars
  <2>3. pc' \in {"tasks", "recv", "event"} => pc \in {"tasks", "recv", "event"}
    BY <1>3, ReceiveFacts DEF TasksDone, StepDone, Work, Hang, Input, vars
  <2> QED
    BY <1>1, <2>1, <2>2, <2>3, TurnMarksKept
<1>4. CASE Start \/ Ready \/ NothingReceived \/ EventDone \/ LoopEnds \/ WatchdogKills
           \/ StartKilled \/ Crash
  <2>1. pc' \notin {"tasks", "recv", "event"}
    BY <1>4, StartFacts DEF Ready, NothingReceived, EventDone, EndTurn, LoopEnds,
       WatchdogKills, StartKilled, Crash, Killed
  <2> QED
    BY <1>1, <2>1
<1>5. CASE SetClock
  <2>1. setAt' = now /\ turnedAt' = turnedAt
    BY <1>5 DEF SetClock
  <2>2. ~Unset(turnedAt)'
    BY <2>1, ConstantFacts DEF Unset, Typed
  <2> QED
    BY <2>2 DEF TurnMarks, InTurn, Unset
<1>6. CASE Tick
  BY <1>6, TurnMarksTick
<1> QED
  BY <1>2, <1>3, <1>4, <1>5, <1>6 DEF Next

\* The turn in progress began no longer ago than TurnLimit, and so within a
\* window that has been open for that long.
LEMMA WindowMarksTick ==
    ASSUME Typed, Timed, Timed', TurnMarks, Tick
    PROVE  WindowMarks'
<1> SUFFICES ASSUME NEW t \in Scheduled, Open(t)'
             PROVE  mark'[t] = Day(Wall')
  BY DEF WindowMarks
<1>1. /\ now' = now + 1 /\ Idling
      /\ UNCHANGED <<skew, pc, readyAt, lastWatchdog, turnedAt, setAt, endedAt, mark, backupIdle>>
  BY DEF Tick, schedVars, dogVars, stateVars
<1>2. /\ Wall \in Nat /\ Wall' = Wall + 1 /\ now \in Nat /\ turnedAt \in Nat
      /\ turnedAt <= now /\ readyAt \in Nat
  BY <1>1 DEF Typed, Wall
<1>3. Opens(t) \in Nat /\ TimeOfDay(Wall + 1) \in Nat /\ TimeOfDay(Wall) \in Nat
  BY <1>2, TimeOfDayType, WindowFacts
<1>4. pc \in {"tasks", "recv", "event"}
  <2>1. Alive
    BY <1>1 DEF Open, Alive, Up
  <2>2. pc # "turn"
    BY <1>1, <2>1, ConstantFacts DEF Timed, Idling, Alive, Up, Typed
  <2> QED
    BY <2>1, <2>2 DEF Alive, Up, Typed
<1>5. now + 1 <= turnedAt + TurnLimit
  BY <1>1, <1>4 DEF Timed, Alive, Up
<1>6. /\ now + 1 - readyAt >= StartupDelay + TurnLimit
      /\ Day(Wall + 1) \in DaysOf(t)
      /\ Opens(t) + TurnLimit <= TimeOfDay(Wall + 1)
      /\ TimeOfDay(Wall + 1) <= Closes(t)
  BY <1>1, <1>2 DEF Open
<1>7. /\ setAt = None \/ setAt < now + 1 - TurnLimit
      /\ t = Backup => backupIdle /\ (endedAt = None \/ endedAt < now + 1 - TurnLimit)
  <2>1. PICK since \in Int : since = now + 1 - TurnLimit /\ since = now' - TurnLimit
    BY <1>1, <1>2, ConstantFacts
  <2>2. /\ setAt' = None \/ setAt' < since
        /\ t = Backup => backupIdle' /\ (endedAt' = None \/ endedAt' < since)
    BY <2>1 DEF Open, Unset, Idle
  <2>3. setAt' = setAt /\ endedAt' = endedAt /\ backupIdle' = backupIdle
    BY <1>1
  <2>4. /\ setAt = None \/ setAt < since
        /\ t = Backup => backupIdle /\ (endedAt = None \/ endedAt < since)
    BY ONLY <2>2, <2>3, Zenon
  <2> QED
    BY <2>1, <2>4
<1>8. TimeOfDay(Wall + 1) >= 1
  BY <1>3, <1>6, ConstantFacts
<1>9. Day(Wall + 1) = Day(Wall) /\ TimeOfDay(Wall + 1) = TimeOfDay(Wall) + 1
  BY <1>2, <1>8, DayStep
<1>10. InTurn(t)
  <2>1. turnedAt - readyAt >= StartupDelay
    BY <1>2, <1>5, <1>6, ConstantFacts
  <2>2. Opens(t) <= TimeOfDay(Wall) - (now - turnedAt)
    BY <1>2, <1>3, <1>5, <1>6, <1>9, ConstantFacts
  <2>3. TimeOfDay(Wall) - (now - turnedAt) < Closes(t)
    <3>1. Closes(t) \in Nat
      BY WindowFacts
    <3> QED
      BY <1>2, <1>3, <1>6, <1>9, <3>1
  <2>4. Unset(turnedAt)
    BY <1>2, <1>5, <1>7, ConstantFacts DEF Unset, Typed, Past
  <2>5. Idle(t, turnedAt)
    BY <1>2, <1>5, <1>7, ConstantFacts DEF Idle, Typed, Past
  <2> QED
    BY <1>4, <1>6, <1>9, <2>1, <2>2, <2>3, <2>4, <2>5 DEF InTurn
<1>11. mark[t] = Day(Wall)
  BY <1>10 DEF TurnMarks
<1> QED
  BY <1>1, <1>2, <1>9, <1>11

LEMMA WindowMarksStep ==
    ASSUME Typed, Timed, Timed', TurnMarks, WindowMarks, Next \/ UNCHANGED vars
    PROVE  WindowMarks'
<1>1. CASE ~Alive'
  BY <1>1 DEF WindowMarks, Open
<1>2. CASE Turn \/ Receive \/ TasksDone \/ NothingReceived \/ EventDone \/ StepDone
           \/ Hang \/ Input \/ UNCHANGED vars
  <2>1. Marking
    BY <1>2, MarkingSteps
  <2>2. Alive' => Alive
    BY <1>2, TurnFacts, ReceiveFacts DEF TasksDone, NothingReceived, EventDone, StepDone,
       Work, Hang, Input, vars, Alive, Up
  <2> QED
    BY <1>1, <2>1, <2>2, WindowMarksKept
<1>3. CASE Start \/ LoopEnds \/ WatchdogKills \/ StartKilled \/ Crash
  <2>1. ~Alive'
    BY <1>3, StartFacts DEF LoopEnds, WatchdogKills, StartKilled, Crash, Killed, Alive, Up
  <2> QED
    BY <1>1, <2>1
<1>4. CASE Ready
  <2>1. readyAt' = now /\ now' = now
    BY <1>4 DEF Ready
  <2>2. ~(now' - readyAt' >= StartupDelay + TurnLimit)
    BY <2>1, ConstantFacts DEF Typed
  <2> QED
    BY <2>2 DEF WindowMarks, Open
<1>5. CASE SetClock
  <2>1. setAt' = now /\ now' = now
    BY <1>5 DEF SetClock
  <2>2. ~Unset(now - TurnLimit)'
    BY <2>1, ConstantFacts DEF Unset, Typed
  <2> QED
    BY <2>2 DEF WindowMarks, Open, Unset
<1>6. CASE Tick
  BY <1>6, WindowMarksTick
<1> QED
  BY <1>2, <1>3, <1>4, <1>5, <1>6 DEF Next

-----------------------------------------------------------------------------
(* The theorems *)

LEMMA InvInit == Init => IInv
<1> SUFFICES ASSUME Init PROVE IInv
  OBVIOUS
<1>1. Typed
  BY TypedInit
<1>2. pc = "down" /\ snapshot = None /\ failedAt = None /\ degraded = FALSE /\ shuttingDown = FALSE
      /\ work = <<>> /\ left = 0
  BY DEF Init
<1>3. Flags /\ Timed
  BY <1>2 DEF Flags, Timed, Alive, Up
<1>4. Cycled /\ Told
  BY <1>2 DEF Cycled, Told, Alive, Up
<1>5. TurnMarks /\ WindowMarks
  BY <1>2 DEF TurnMarks, WindowMarks, InTurn, Open, Alive, Up
<1> QED
  BY <1>1, <1>3, <1>4, <1>5 DEF IInv

LEMMA InvNext == IInv /\ [Next]_vars => IInv'
<1> SUFFICES ASSUME IInv, Next \/ UNCHANGED vars PROVE IInv'
  OBVIOUS
<1>1. Typed' /\ Flags'
  BY TypedStep, FlagsStep DEF IInv
<1>2. Timed'
  BY TimedStep DEF IInv
<1>3. Cycled' /\ Told'
  BY CycledStep, ToldStep DEF IInv
<1>4. TurnMarks' /\ WindowMarks'
  BY <1>2, TurnMarksStep, WindowMarksStep DEF IInv
<1> QED
  BY <1>1, <1>2, <1>3, <1>4 DEF IInv

\* Every state of the loop, however long its work and however its steps hang,
\* is in the invariant.
THEOREM LoopInductive == Spec => []IInv
<1> QED
  BY InvInit, InvNext, PTL DEF Spec

\* run_control_loop skips the window of no task: not by a long turn that the
\* watchdog tolerates, and for a backup not by the run before it.
THEOREM TasksInTime == Spec => []InTime
<1>1. IInv => InTime
  <2> SUFFICES ASSUME IInv, NEW t \in Scheduled,
                      Up, pc # "starting",
                      Day(Wall) \in DaysOf(t), TimeOfDay(Wall) = Closes(t),
                      now - readyAt >= StartupDelay + TurnLimit,
                      setAt = None \/ now - setAt > TurnLimit,
                      t = Backup => /\ Opens(t) + TurnLimit <= Closes(t)
                                    /\ backupIdle
                                    /\ endedAt = None \/ now - endedAt > TurnLimit
               PROVE  mark[t] = Day(Wall)
    BY DEF InTime
  <2>1. Opens(t) + TurnLimit <= TimeOfDay(Wall) /\ TimeOfDay(Wall) <= Closes(t)
    BY WindowFacts, ConstantFacts
  <2>2. Unset(now - TurnLimit) /\ Idle(t, now - TurnLimit)
    BY ConstantFacts DEF Unset, Idle, IInv, Typed, Past
  <2>3. Open(t)
    BY <2>1, <2>2 DEF Open, Alive
  <2> QED
    BY <2>3 DEF IInv, WindowMarks
<1> QED
  BY <1>1, LoopInductive, PTL

\* health_response says ok of no loop that has been in one list of commands,
\* or in its wait, for longer than the limit, and of none whose command failed
\* before the limit: whether or not the watchdog hears of it meanwhile.
THEOREM HealthHonest == Spec => []HealthIsHonest
<1>1. IInv => HealthIsHonest
  <2> SUFFICES ASSUME IInv, Up, Health = "ok", setAt = None \/ setAt < snapshot.at
               PROVE  /\ now - busySince <= Stale
                      /\ failedAt = None \/ now - failedAt <= Stale
    BY DEF HealthIsHonest
  <2>1. /\ snapshot # None /\ ~(Wall - snapshot.wall > Stale) /\ ~snapshot.degraded
    BY DEF Health
  <2>2. /\ now \in Nat /\ skew \in Int /\ busySince \in Nat
        /\ snapshot.at \in Nat /\ snapshot.wall \in Int
        /\ failedAt = None \/ failedAt \in Nat
    BY <2>1 DEF IInv, Typed, Past
  <2>3. skew = snapshot.wall - snapshot.at /\ busySince >= snapshot.at
    BY <2>1 DEF IInv, Told
  <2>4. now - snapshot.at <= Stale
    BY <2>1, <2>2, <2>3, ConstantFacts DEF Wall
  <2>5. now - busySince <= Stale
    BY <2>2, <2>3, <2>4, ConstantFacts
  <2>6. ASSUME failedAt # None
        PROVE  now - failedAt <= Stale
    <3>1. failedAt >= snapshot.at
      BY <2>1, <2>6 DEF IInv, Told
    <3> QED
      BY <2>2, <2>4, <2>6, <3>1, ConstantFacts
  <2> QED
    BY <2>5, <2>6
<1> QED
  BY <1>1, LoopInductive, PTL

\* Probes come often enough for health_response, as long as the watchdog lets
\* the process live.
THEOREM CycleFresh == Spec => []CycleIsFresh
<1>1. IInv => CycleIsFresh
  <2> SUFFICES ASSUME IInv, Up, pc # "starting", Health = "stale_health_cycle"
               PROVE  FALSE
    BY DEF CycleIsFresh
  <2>1. snapshot # None /\ (snapshot.probed = None \/ now - snapshot.probed > ProbeStale)
    BY DEF Health
  <2>2. /\ snapshot.probed # None /\ turnedAt - snapshot.probed < Period + TurnLimit
        /\ now <= turnedAt + TurnLimit
    <3>1. pc \in {"turn", "tasks", "recv", "event"}
      BY DEF IInv, Typed, Up
    <3>2. /\ now \in Nat /\ turnedAt \in Nat /\ snapshot.probed \in Nat \cup {None}
      BY <2>1 DEF IInv, Typed, Past
    <3>3. snapshot.probed # None
      BY DEF IInv, Cycled, Alive
    <3> QED
      BY <3>1, <3>2, <3>3, ConstantFacts DEF IInv, Cycled, Timed, Alive
  <2>3. /\ now \in Nat /\ turnedAt \in Nat /\ snapshot.probed \in Nat
    BY <2>1, <2>2 DEF IInv, Typed, Past
  <2> QED
    BY <2>1, <2>2, <2>3, ConstantFacts
<1> QED
  BY <1>1, LoopInductive, PTL

\* Whom the watchdog kills has been in one turn for longer than the half of
\* WatchdogSec that should_send_watchdog leaves.
THEOREM LivingSpared == Spec => SparesTheLiving
<1>1. IInv /\ [Next]_vars => [WatchdogKills => now - turnedAt > WatchdogSec - WatchdogInterval]_vars
  <2> SUFFICES ASSUME IInv, WatchdogKills
               PROVE  now - turnedAt > WatchdogSec - WatchdogInterval
    OBVIOUS
  <2>1. Alive /\ now - heardAt >= WatchdogSec
    BY DEF WatchdogKills, Unheard, Alive
  <2>2. turnedAt - lastWatchdog < WatchdogInterval /\ lastWatchdog <= heardAt
    BY <2>1 DEF IInv, Timed
  <2> QED
    BY <2>1, <2>2, ConstantFacts DEF IInv, Typed
<1> QED
  BY <1>1, LoopInductive, PTL DEF Spec, SparesTheLiving

-----------------------------------------------------------------------------
(* Types *)

\* What TypeOK says beyond the invariant.
Stored ==
    /\ hung \in BOOLEAN /\ backupIdle \in BOOLEAN
    /\ lastDisk \in Nat /\ lastDisk <= now
    /\ mark \in [Scheduled -> Int \cup {None}]
    /\ snapshot = None \/ snapshot \in Snapshots
    /\ inputs \in 0 .. MaxInputs /\ faults \in 0 .. MaxFaults

LEMMA DayType ==
    ASSUME NEW w \in Nat
    PROVE  Day(w) \in Int
<1>1. DayLength \in Nat /\ DayLength > 0
  BY ControlLoopAssumption
<1>2. ASSUME NEW d \in Nat, d > 0
      PROVE  w \div d \in Int
  BY <1>2
<1> QED
  BY <1>1, <1>2 DEF Day

LEMMA TickedTypes ==
    ASSUME NEW tasks, Ticked(tasks), Typed, Stored
    PROVE  mark' \in [Scheduled -> Int \cup {None}] /\ backupIdle' \in BOOLEAN
<1>1. mark' \in [Scheduled -> Int \cup {None}]
  <2>1. Day(Wall) \in Int
    BY DayType DEF Typed
  <2>2. \A t \in Scheduled : mark[t] \in Int \cup {None}
    BY DEF Stored
  <2>3. mark' = [t \in Scheduled |->
                    IF t \in tasks /\ (t = Backup => Backup \in tasks /\ BackupStarts)
                    THEN Day(Wall) ELSE mark[t]]
    BY DEF Ticked
  <2> QED
    BY <2>1, <2>2, <2>3
<1>2. backupIdle' \in BOOLEAN
  <2>1. backupIdle' = (backupIdle /\ ~(Backup \in tasks /\ BackupStarts))
    BY DEF Ticked
  <2> QED
    BY <2>1
<1> QED
  BY <1>1, <1>2

LEMMA StoredStep ==
    ASSUME Typed, Flags, Stored, Next \/ UNCHANGED vars
    PROVE  Stored'
<1>1. MaxInputs \in Nat /\ MaxFaults \in Nat
  BY ControlLoopAssumption
<1>2. CASE Start
  <2>1. /\ hung' = FALSE /\ backupIdle' = TRUE /\ mark' = [t \in Scheduled |-> None]
        /\ snapshot' = None /\ lastDisk' = now /\ UNCHANGED <<now, inputs, faults>>
    BY <1>2 DEF Start
  <2>2. lastDisk' \in Nat /\ lastDisk' <= now'
    BY <2>1 DEF Typed
  <2> QED
    BY <2>1, <2>2 DEF Stored
<1>3. CASE Ready \/ TasksDone \/ LoopEnds
  <2>1. /\ snapshot' = Published /\ UNCHANGED <<now, hung, backupIdle, mark, inputs, faults>>
        /\ lastDisk' = lastDisk \/ lastDisk' = now
    BY <1>3 DEF Ready, TasksDone, LoopEnds, Publish, schedVars, stateVars
  <2>2. snapshot' \in Snapshots
    BY <2>1, PublishedFacts
  <2>3. lastDisk' \in Nat /\ lastDisk' <= now'
    BY <2>1 DEF Stored, Typed
  <2> QED
    BY <2>1, <2>2, <2>3 DEF Stored
<1>4. CASE Turn
  <2>1. /\ Ticked(DueTasks)
        /\ UNCHANGED <<now, hung, snapshot, inputs, faults>>
        /\ lastDisk' = lastDisk \/ lastDisk' = now
    BY <1>4, TurnFacts DEF Turn
  <2>2. mark' \in [Scheduled -> Int \cup {None}] /\ backupIdle' \in BOOLEAN
    BY <2>1, TickedTypes
  <2>3. lastDisk' \in Nat /\ lastDisk' <= now'
    BY <2>1 DEF Stored, Typed
  <2> QED
    BY <2>1, <2>2, <2>3 DEF Stored
<1>5. CASE Receive
  <2>1. /\ UNCHANGED <<now, hung, lastDisk, snapshot, inputs, faults>>
        /\ \/ backupIdle' = TRUE /\ mark' = mark
           \/ \E tasks \in SUBSET (Scheduled \cup {Recovery, DiskMonitor}) : Ticked(tasks)
    BY <1>5, ReceiveFacts DEF Receive
  <2>2. mark' \in [Scheduled -> Int \cup {None}] /\ backupIdle' \in BOOLEAN
    <3>1. CASE backupIdle' = TRUE /\ mark' = mark
      BY <3>1 DEF Stored
    <3>2. CASE \E tasks \in SUBSET (Scheduled \cup {Recovery, DiskMonitor}) : Ticked(tasks)
      <4>1. PICK tasks \in SUBSET (Scheduled \cup {Recovery, DiskMonitor}) : Ticked(tasks)
        BY <3>2
      <4> QED
        BY <4>1, TickedTypes
    <3> QED
      BY <2>1, <3>1, <3>2
  <2> QED
    BY <2>1, <2>2 DEF Stored
<1>6. CASE NothingReceived \/ EventDone \/ StepDone \/ UNCHANGED vars
  <2>1. UNCHANGED <<now, hung, backupIdle, lastDisk, mark, snapshot, inputs, faults>>
    BY <1>6 DEF NothingReceived, EventDone, StepDone, vars, schedVars, stateVars
  <2> QED
    BY <2>1 DEF Stored
<1>7. CASE Hang
  <2>1. /\ hung' = TRUE /\ UNCHANGED <<now, backupIdle, lastDisk, mark, snapshot, inputs>>
        /\ faults < MaxFaults /\ faults' = faults + 1
    BY <1>7 DEF Hang, schedVars, stateVars
  <2> QED
    BY <1>1, <2>1 DEF Stored
<1>8. CASE Input
  <2>1. /\ UNCHANGED <<now, hung, backupIdle, lastDisk, mark, snapshot, faults>>
        /\ inputs < MaxInputs /\ inputs' = inputs + 1
    BY <1>8 DEF Input, schedVars, stateVars
  <2> QED
    BY <1>1, <2>1 DEF Stored
<1>11. CASE SetClock
  <2>1. /\ UNCHANGED <<now, hung, backupIdle, lastDisk, mark, snapshot, faults>>
        /\ inputs < MaxInputs /\ inputs' = inputs + 1
    BY <1>11 DEF SetClock, schedVars, stateVars
  <2> QED
    BY <1>1, <2>1 DEF Stored
<1>9. CASE WatchdogKills \/ StartKilled \/ Crash
  <2>1. /\ UNCHANGED <<now, hung, backupIdle, lastDisk, mark, snapshot, inputs>>
        /\ faults' = faults \/ (faults < MaxFaults /\ faults' = faults + 1)
    BY <1>9 DEF WatchdogKills, StartKilled, Crash, Killed, schedVars, stateVars
  <2> QED
    BY <1>1, <2>1 DEF Stored
<1>10. CASE Tick
  <2>1. /\ UNCHANGED <<hung, backupIdle, lastDisk, mark, snapshot, inputs, faults>>
        /\ now' = now + 1
    BY <1>10 DEF Tick, schedVars, stateVars
  <2>2. lastDisk' \in Nat /\ lastDisk' <= now'
    BY <2>1 DEF Stored, Typed
  <2> QED
    BY <2>1, <2>2 DEF Stored
<1> QED
  BY <1>2, <1>3, <1>4, <1>5, <1>6, <1>7, <1>8, <1>9, <1>10, <1>11 DEF Next

\* The state of the loop and its snapshot have their types.
THEOREM LoopTypeCorrect == Spec => []TypeOK
<1>1. Init => Stored
  <2> SUFFICES ASSUME Init PROVE Stored
    OBVIOUS
  <2>1. MaxInputs \in Nat /\ MaxFaults \in Nat
    BY ControlLoopAssumption
  <2>2. mark \in [Scheduled -> Int \cup {None}]
    <3>1. mark = [t \in Scheduled |-> None]
      BY DEF Init
    <3> QED
      BY <3>1
  <2>3. /\ hung = FALSE /\ backupIdle = TRUE /\ now = 0 /\ lastDisk = 0 /\ snapshot = None
        /\ inputs = 0 /\ faults = 0
    BY DEF Init
  <2>4. hung \in BOOLEAN /\ backupIdle \in BOOLEAN
    BY <2>3
  <2>5. lastDisk \in Nat /\ lastDisk <= now /\ inputs \in 0 .. MaxInputs /\ faults \in 0 .. MaxFaults
    BY <2>1, <2>3
  <2> QED
    BY <2>2, <2>3, <2>4, <2>5 DEF Stored
<1>2. IInv /\ Stored /\ [Next]_vars => Stored'
  BY StoredStep DEF IInv
<1>3. IInv /\ Stored => TypeOK
  <2> SUFFICES ASSUME IInv, Stored PROVE TypeOK
    OBVIOUS
  <2>1. {readyAt, lastRecovery, lastDisk, lastWatchdog, heardAt, turnedAt,
         busySince} \subseteq 0 .. now
    BY DEF IInv, Typed, Stored
  <2>2. {probed, failedAt, setAt, endedAt} \subseteq 0 .. now \cup {None}
    BY DEF IInv, Typed, Past
  <2>3. {backupIdle, degraded, shuttingDown} \subseteq BOOLEAN
    BY DEF IInv, Flags, Stored
  <2> QED
    BY <2>1, <2>2, <2>3 DEF IInv, Typed, Stored, TypeOK
<1> QED
  BY <1>1, <1>2, <1>3, LoopInductive, PTL DEF Spec

=============================================================================
