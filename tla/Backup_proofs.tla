---------------------------- MODULE Backup_proofs ----------------------------
(***************************************************************************)
(* Proofs about Backup, for every set of services, every number of days    *)
(* and crashes, with and without failures of the disk and of threads.      *)
(*                                                                         *)
(* Restorable is not inductive: that a file names the services a run owes  *)
(* follows from where in which command list the process is.  IInv adds,    *)
(* position by position, what the list has done so far.                    *)
(***************************************************************************)
EXTENDS Backup, TLAPS

\* Which positions a process in each state of its life can be at, and with
\* which phase: the lists of the reducer.
Control ==
    /\ proc = "up" <=> pc \in {"loop", "probeFirst", "lock", "unlock", "stop", "persist", "spawn",
                               "release", "restore"}
    /\ proc = "booting" <=> pc \in {"recUnlock", "recStart", "recPersist", "probe"}
    /\ proc \in {"down", "stopped"} <=> pc = "off"
    /\ phase.tag \in {"Idle", "ResticRunning", "RetentionRunning", "Verifying"}
    /\ proc # "up" => phase.tag = "Idle"
    /\ pc \in {"probeFirst", "lock", "unlock", "stop"} => phase.tag = "ResticRunning"
    /\ pc = "restore" => phase.tag \in {"Idle", "RetentionRunning"}
    /\ pc = "spawn" => phase.tag # "Idle"
    /\ pc = "release" => phase.tag = "Idle"

\* What is owed, and by which means it will be given back.
Accounts ==
    /\ phase.tag = "ResticRunning" => owed \subseteq phase.pre
    /\ pc \in {"probeFirst", "lock", "unlock"} => owed = {}
    /\ pc \in {"restore", "recUnlock", "recStart"} => owed \subseteq todo
    /\ pc \in {"persist", "spawn", "release", "loop"} /\ phase.tag # "ResticRunning" => owed = {}
    /\ pc \in {"recPersist", "probe"} => owed = {}
    /\ pc \in {"off", "recUnlock", "recStart"} => owed \subseteq CompensationStarts(disk)
    /\ pc = "restore" /\ WritesSucceeded => owed \subseteq CompensationStarts(disk)
    /\ pc \in {"spawn", "loop"} /\ phase.tag = "ResticRunning" /\ WritesSucceeded => disk = phase

IInv == TypeOK /\ Control /\ Accounts

-----------------------------------------------------------------------------
(* Type correctness *)

\* Every entry of the arbiter stays an entry, whatever is done to it.
LEMMA LeaseTypes ==
    ASSUME NEW l \in Lease(Nat), NEW h \in Nat
    PROVE  /\ Acquire(l, h) \in Lease(Nat)
           /\ ForceRelease(l) \in Lease(Nat)
           /\ Expire(l) \in Lease(Nat)
BY DEF Lease, IsFree, Acquire, ForceRelease, Expire, Unheld, HeldBy

\* Phases made by the reducer, and what the compensation takes from one.
LEMMA PhaseTypes ==
    /\ Idle \in BackupPhase
    /\ \A t \in PhaseTags, d \in Nat, S \in SUBSET Services : Phase(t, d, S) \in BackupPhase
    /\ \A p \in BackupPhase : /\ p.run \in Nat
                              /\ p.pre \in SUBSET Services
                              /\ PreBackupServices(p) \in SUBSET Services
                              /\ CompensationStarts(p) \in SUBSET Services
BY DEF Idle, Phase, BackupPhase, PhaseTags, PreBackupServices, CompensationStarts,
       NeedsServiceRecovery

LEMMA InitType == Init => TypeOK
<1> SUFFICES ASSUME Init PROVE TypeOK
  OBVIOUS
<1>1. [r \in Resources |-> Unheld] \in [Resources -> Lease(Nat)]
  BY DEF Unheld, Lease
<1> QED
  BY <1>1, OldPhasesAssumption, PhaseTypes DEF Init, TypeOK, Positions

\* The steps of the command lists.
LEMMA ExecuteType == TypeOK /\ Control /\ Execute => TypeOK'
<1> SUFFICES ASSUME TypeOK, Control, Execute PROVE TypeOK'
  OBVIOUS
<1> USE BackupAssumption, PhaseTypes, LeaseTypes DEF TypeOK, Positions, Resources, PhaseTags,
        stateVars, threadVars, clockVars, observed
<1>1. CASE LockRun
  <2>1. Phase("Locked", phase.run, {}) \in BackupPhase
    OBVIOUS
  <2>2. leases' \in [Resources -> Lease(Nat)]
    BY <1>1 DEF LockRun
  <2> HIDE LeaseTypes, PhaseTypes DEF Resources
  <2> QED
    BY <1>1, <2>1, <2>2 DEF LockRun, Persist
<1>2. CASE UnlockRepo
  BY <1>2 DEF UnlockRepo, ResticUnlock
<1>3. ASSUME NEW s \in Services, StopService(s) PROVE TypeOK'
  BY <1>3 DEF StopService
<1>4. CASE PersistPhase
  BY <1>4 DEF PersistPhase, Persist
<1>5. CASE SpawnRestic
  <2>1. StageOf(phase) \in {"backup", "forget", "check"}
    BY <1>5 DEF SpawnRestic, StageOf, Control
  <2>2. [id |-> nextCmd, stage |-> StageOf(phase)] \in
            [id : Nat, stage : {"backup", "forget", "check"}]
    BY <2>1
  <2> HIDE LeaseTypes, PhaseTypes DEF Resources
  <2> QED
    BY <1>5, <2>2 DEF SpawnRestic
<1>6. CASE SpawnFails
  <2>1. [id |-> nextCmd, ok |-> FALSE] \in [id : Nat, ok : BOOLEAN]
    OBVIOUS
  <2>2. events' \in SUBSET [id : Nat, ok : BOOLEAN]
    BY <1>6, <2>1 DEF SpawnFails
  <2>3. nextCmd' \in Nat
    BY <1>6 DEF SpawnFails
  <2> HIDE LeaseTypes, PhaseTypes DEF Resources
  <2> QED
    BY <1>6, <2>2, <2>3, Zenon DEF SpawnFails
<1>7. CASE ReleaseRepo
  BY <1>7 DEF ReleaseRepo
<1>8. ASSUME NEW s \in Services, RestoreService(s) PROVE TypeOK'
  BY <1>8 DEF RestoreService, SystemctlStart
<1>9. CASE RecoverUnlock
  BY <1>9 DEF RecoverUnlock, ResticUnlock
<1>10. ASSUME NEW s \in Services, RecoverStart(s) PROVE TypeOK'
  BY <1>10 DEF RecoverStart, SystemctlStart
<1>11. CASE RecoverPersist
  BY <1>11 DEF RecoverPersist, Persist
<1>12. CASE StartupProbe
  BY <1>12 DEF StartupProbe
<1>13. CASE TickProbes
  <2>1. PICK seen \in SUBSET running, restart \in SUBSET Services : Recover(seen, restart)
    BY <1>13 DEF TickProbes
  <2>2. /\ healthy' \in SUBSET Services
        /\ running' \in SUBSET Services /\ owed' \in SUBSET Services
        /\ intruded' \in SUBSET {"RestartService", "RestartDockerDaemon"}
    BY <2>1 DEF Recover, RestartServices, RestartServicesAndDocker, SystemctlStart, Intrusion
  <2>3. /\ pc' \in Positions
        /\ UNCHANGED <<proc, todo, phase, lastDay, pending, nextCmd, leases, degraded, workers,
                       events, disk, staleLock, day, window, crashes, forgotten, lastStart>>
    BY <1>13, <2>1 DEF TickProbes, Recover
  <2> HIDE LeaseTypes, PhaseTypes DEF Resources, Positions
  <2> QED
    BY <2>2, <2>3
<1> QED
  BY <1>1, <1>2, <1>3, <1>4, <1>5, <1>6, <1>7, <1>8, <1>9, <1>10, <1>11, <1>12, <1>13 DEF Execute

\* The threads, the completions, and the lives of the process.
LEMMA OtherType == TypeOK /\ Control /\ Next => Execute \/ TypeOK'
<1> SUFFICES ASSUME TypeOK, Control, Next PROVE Execute \/ TypeOK'
  OBVIOUS
<1> USE BackupAssumption, PhaseTypes, LeaseTypes
    DEF TypeOK, Positions, Resources, PhaseTags, stateVars, threadVars, clockVars, observed
<1>1. CASE StartBackup
  BY <1>1 DEF StartBackup
<1>2. ASSUME NEW w \in workers, NEW ok \in BOOLEAN, ResticEnds(w, ok) PROVE TypeOK'
  <2>1. [id |-> w.id, ok |-> ok] \in [id : Nat, ok : BOOLEAN]
    OBVIOUS
  <2>2. staleLock' \in BOOLEAN
    BY <1>2, Zenon DEF ResticEnds
  <2> QED
    BY <1>2, <2>1, <2>2 DEF ResticEnds
<1>3. ASSUME NEW e \in events, EffectCompleted(e) PROVE TypeOK'
  <2>0. /\ Idle \in BackupPhase
        /\ Phase("RetentionRunning", phase.run, {}) \in BackupPhase
        /\ Phase("Verifying", phase.run, {}) \in BackupPhase
        /\ phase.pre \in SUBSET Services /\ PreBackupServices(phase) \in SUBSET Services
    OBVIOUS
  <2> HIDE LeaseTypes, PhaseTypes DEF Resources
  <2>1. /\ phase' \in BackupPhase
        /\ pc' \in Positions /\ todo' \in SUBSET Services
    <3>1. CASE BackupFailure
      BY <3>1, <2>0 DEF BackupFailure, RestoreThenPersist
    <3>2. CASE ResticCompleted(e.ok) /\ ~BackupFailure
      BY <3>2, <2>0 DEF ResticCompleted, RestoreThenPersist
    <3>3. CASE RetentionCompleted(e.ok) /\ ~BackupFailure
      BY <3>3, <2>0 DEF RetentionCompleted
    <3>4. CASE VerifyCompleted
      BY <3>4, <2>0 DEF VerifyCompleted
    <3> QED
      BY <1>3, <3>1, <3>2, <3>3, <3>4 DEF EffectCompleted
  <2>4. /\ events' \subseteq events /\ pending' = NoCmd
        /\ UNCHANGED <<proc, lastDay, nextCmd, leases, healthy, degraded, workers,
                       disk, staleLock, running, clockVars, crashes, observed>>
    BY <1>3 DEF EffectCompleted
  <2> HIDE DEF Positions
  <2> QED
    BY <2>1, <2>4 DEF observed
<1>4. ASSUME NEW e \in events, UnexpectedEffect(e) PROVE TypeOK'
  BY <1>4 DEF UnexpectedEffect
<1>5. CASE ProbeCycle
  BY <1>5 DEF ProbeCycle, Recover, RestartServices, RestartServicesAndDocker, SystemctlStart,
              Intrusion
<1>10. CASE RemediationUnlock
  BY <1>10 DEF RemediationUnlock, ResticUnlock
<1>6. ASSUME NEW s \in Services, RemediationRestart(s) PROVE TypeOK'
  BY <1>6 DEF RemediationRestart, SystemctlStart
<1>7. CASE Crash \/ Shutdown
  <2>1. Unheld \in Lease(Nat)
    BY DEF Lease, Unheld
  <2>2. leases' \in [Resources -> Lease(Nat)]
    BY <1>7, <2>1 DEF Crash, Shutdown, ProcessEnds
  <2>3. staleLock' \in BOOLEAN /\ forgotten' \in BOOLEAN
    BY <1>7, Zenon DEF Crash, Shutdown, ProcessEnds
  <2>4. Idle \in BackupPhase
    OBVIOUS
  <2>5. owed' \in SUBSET Services /\ crashes' \in Nat /\ proc' \in {"down", "stopped"}
    BY <1>7 DEF Crash, Shutdown, ProcessEnds
  <2>6. UNCHANGED <<disk, running, day, window, lastStart>>
    BY <1>7 DEF Crash, Shutdown, ProcessEnds
  <2>7. /\ pc' = "off" /\ todo' = {} /\ phase' = Idle /\ lastDay' = 0
        /\ pending' = NoCmd /\ nextCmd' = 1 /\ healthy' = {} /\ degraded' = {}
        /\ workers' = {} /\ events' = {} /\ intruded' = {}
    BY <1>7 DEF Crash, Shutdown, ProcessEnds
  <2> HIDE LeaseTypes, PhaseTypes DEF Resources
  <2> QED
    BY <2>2, <2>3, <2>4, <2>5, <2>6, <2>7
<1>8. CASE Boot
  <2>1. forgotten' \in BOOLEAN
    BY <1>8, Zenon DEF Boot
  <2>2. PICK p \in {disk} \cup (IF DiskMayFail THEN {Idle} ELSE {}) :
             /\ todo' = CompensationStarts(p)
             /\ pc' = CASE IsIdle(p) -> "probe"
                        [] NeedsResticUnlock(p) -> "recUnlock"
                        [] todo' # {} -> "recStart"
                        [] OTHER -> "recPersist"
    BY <1>8 DEF Boot
  <2>3. p \in BackupPhase
    OBVIOUS
  <2>4. todo' \in SUBSET Services /\ pc' \in Positions
    BY <2>2, <2>3
  <2>5. owed' \in SUBSET Services
    BY <1>8 DEF Boot
  <2> HIDE LeaseTypes, PhaseTypes
  <2> QED
    BY <1>8, <2>1, <2>4, <2>5 DEF Boot
<1>9. CASE World
  <2>1. ASSUME NEW s \in Services, ServiceStops(s) PROVE TypeOK'
    BY <2>1 DEF ServiceStops
  <2>4. ASSUME NEW s \in Services, ServiceComesUp(s) PROVE TypeOK'
    BY <2>4 DEF ServiceComesUp
  <2>2. CASE WindowCloses
    BY <2>2 DEF WindowCloses
  <2>3. CASE LeasesExpire \/ NextDay
    <3>1. leases' \in [Resources -> Lease(Nat)]
      <4> SUFFICES ASSUME NEW r \in Resources PROVE Expire(leases[r]) \in Lease(Nat)
        BY <2>3 DEF LeasesExpire, NextDay, ExpireAll
      <4> QED
        OBVIOUS
    <3>2. day' \in Nat
      BY <2>3 DEF LeasesExpire, NextDay
    <3>4. window' \in BOOLEAN
      BY <2>3, Zenon DEF LeasesExpire, NextDay
    <3>3. UNCHANGED <<proc, pc, todo, phase, lastDay, pending, nextCmd, healthy,
                      degraded, workers, events, disk, staleLock, running, crashes, owed,
                      forgotten, intruded, lastStart>>
      BY <2>3 DEF LeasesExpire, NextDay
    <3> HIDE LeaseTypes, PhaseTypes DEF Resources
    <3> QED
      BY <3>1, <3>2, <3>3, <3>4
  <2> QED
    BY <1>9, <2>1, <2>2, <2>3, <2>4 DEF World
<1> QED
  BY <1>1, <1>2, <1>3, <1>4, <1>5, <1>6, <1>7, <1>8, <1>9, <1>10
     DEF Next, Restic, Completion, Remediation

LEMMA StutterInv == ASSUME IInv, UNCHANGED vars PROVE IInv'
<1>1. TypeOK'
  BY DEF IInv, TypeOK, vars, stateVars, threadVars, clockVars, observed
<1>2. Control'
  BY DEF IInv, Control, vars, stateVars, threadVars, clockVars, observed
<1>3. Accounts'
  BY DEF IInv, Accounts, WritesSucceeded, CompensationStarts, vars, stateVars, threadVars,
         clockVars, observed
<1> QED
  BY <1>1, <1>2, <1>3 DEF IInv

\* Every type-correct step leaves the state well typed.
LEMMA NextType == TypeOK /\ Control /\ Next => TypeOK'
BY ExecuteType, OtherType

-----------------------------------------------------------------------------
(* Where the process is *)

\* The command lists are worked through in their order, and no action but a
\* crash leaves a list before its end.
LEMMA ControlStep == TypeOK /\ Control /\ Next => Control'
<1> SUFFICES ASSUME TypeOK, Control, Next PROVE Control'
  OBVIOUS
<1>0. UNCHANGED <<proc, pc, phase>> => Control'
  BY DEF Control
<1> USE DEF Control, stateVars, threadVars, clockVars, observed
<1>1. CASE StartBackup
  BY <1>1 DEF StartBackup, AtLoop, Phase
<1>2. CASE Execute
  <2>1. CASE LockRun
    BY <2>1 DEF LockRun
  <2>2. CASE UnlockRepo
    BY <2>2 DEF UnlockRepo
  <2>3. ASSUME NEW s \in Services, StopService(s) PROVE Control'
    BY <2>3 DEF StopService
  <2>4. CASE PersistPhase
    BY <2>4 DEF PersistPhase, IsIdle
  <2>5. CASE SpawnRestic
    BY <2>5 DEF SpawnRestic
  <2>6. CASE SpawnFails
    BY <2>6 DEF SpawnFails
  <2>7. CASE ReleaseRepo
    BY <2>7 DEF ReleaseRepo
  <2>8. ASSUME NEW s \in Services, RestoreService(s) PROVE Control'
    BY <2>8 DEF RestoreService
  <2>9. CASE RecoverUnlock
    BY <2>9 DEF RecoverUnlock
  <2>10. ASSUME NEW s \in Services, RecoverStart(s) PROVE Control'
    BY <2>10 DEF RecoverStart
  <2>11. CASE RecoverPersist
    BY <2>11 DEF RecoverPersist
  <2>12. CASE StartupProbe
    BY <2>12 DEF StartupProbe
  <2>13. CASE TickProbes
    BY <2>13 DEF TickProbes, Recover
  <2> QED
    BY <1>2, <2>1, <2>2, <2>3, <2>4, <2>5, <2>6, <2>7, <2>8, <2>9, <2>10, <2>11, <2>12, <2>13
       DEF Execute
<1>3. CASE Restic
  BY <1>0, <1>3 DEF Restic, ResticEnds
<1>4. ASSUME NEW e \in events, EffectCompleted(e) PROVE Control'
  <2>0. AtLoop /\ UNCHANGED proc
    BY <1>4 DEF EffectCompleted
  <2>1. CASE BackupFailure
    BY <2>0, <2>1 DEF BackupFailure, AtLoop, RestoreThenPersist, Idle, Phase
  <2>2. CASE ResticCompleted(e.ok) /\ ~BackupFailure
    BY <2>0, <2>2 DEF ResticCompleted, AtLoop, RestoreThenPersist, Phase
  <2>3. CASE RetentionCompleted(e.ok) /\ ~BackupFailure
    <3>1. pc' = "persist" /\ (phase' = Idle \/ phase' = Phase("Verifying", phase.run, {}))
      BY <2>3, Zenon DEF RetentionCompleted
    <3> QED
      BY <2>0, <3>1 DEF AtLoop, Idle, Phase
  <2>4. CASE VerifyCompleted
    BY <2>0, <2>4 DEF VerifyCompleted, AtLoop, Idle, Phase
  <2> QED
    BY <1>4, <2>1, <2>2, <2>3, <2>4 DEF EffectCompleted
<1>5. ASSUME NEW e \in events, UnexpectedEffect(e) PROVE Control'
  BY <1>0, <1>5 DEF UnexpectedEffect
<1>6. CASE ProbeCycle \/ Remediation
  BY <1>0, <1>6 DEF ProbeCycle, Recover, Remediation, RemediationRestart, RemediationUnlock
<1>7. CASE Crash \/ Shutdown
  BY <1>7 DEF Crash, Shutdown, ProcessEnds, Idle, Phase
<1>8. CASE Boot
  BY <1>8 DEF Boot
<1>9. CASE World
  BY <1>0, <1>9 DEF World, ServiceStops, ServiceComesUp, WindowCloses, LeasesExpire, NextDay
<1> QED
  BY <1>1, <1>2, <1>3, <1>4, <1>5, <1>6, <1>7, <1>8, <1>9 DEF Next, Completion

-----------------------------------------------------------------------------
(* What is owed *)

\* The compensation of the phases the reducer moves to.
LEMMA CompensationFacts ==
    \A p \in BackupPhase :
        /\ p.tag = "ResticRunning" => CompensationStarts(p) = p.pre
        /\ p.tag = "Idle" => CompensationStarts(p) = {}
BY DEF CompensationStarts, PreBackupServices, NeedsServiceRecovery, BackupPhase

\* The lists that start a run and the ones that end a stage.
LEMMA AccountsExecute == TypeOK /\ Control /\ Accounts /\ Execute => Accounts'
<1> SUFFICES ASSUME TypeOK, Control, Accounts, Execute PROVE Accounts'
  OBVIOUS
<1>0. /\ phase \in BackupPhase /\ disk \in BackupPhase
      /\ owed \in SUBSET Services /\ todo \in SUBSET Services
  BY DEF TypeOK
<1> USE DEF Control, Accounts, WritesSucceeded, stateVars, threadVars, clockVars, observed
<1>1. CASE LockRun
  BY <1>1 DEF LockRun, Persist
<1>2. CASE UnlockRepo
  BY <1>2 DEF UnlockRepo, ResticUnlock
<1>3. ASSUME NEW s \in Services, StopService(s) PROVE Accounts'
  BY <1>3 DEF StopService
<1>4. CASE PersistPhase
  BY <1>4 DEF PersistPhase, Persist, IsIdle
<1>5. CASE SpawnRestic
  BY <1>5 DEF SpawnRestic
<1>6. CASE SpawnFails
  BY <1>6 DEF SpawnFails
<1>7. CASE ReleaseRepo
  BY <1>7 DEF ReleaseRepo
<1>8. ASSUME NEW s \in Services, RestoreService(s) PROVE Accounts'
  BY <1>0, <1>8 DEF RestoreService, SystemctlStart
<1>9. CASE RecoverUnlock
  BY <1>9 DEF RecoverUnlock, ResticUnlock
<1>10. ASSUME NEW s \in Services, RecoverStart(s) PROVE Accounts'
  BY <1>0, <1>10 DEF RecoverStart, SystemctlStart
<1>11. CASE RecoverPersist
  BY <1>11 DEF RecoverPersist, Persist
<1>12. CASE StartupProbe
  BY <1>12 DEF StartupProbe
<1>13. CASE TickProbes
  BY <1>13 DEF TickProbes, Recover, RestartServices, RestartServicesAndDocker, SystemctlStart
<1> QED
  BY <1>1, <1>2, <1>3, <1>4, <1>5, <1>6, <1>7, <1>8, <1>9, <1>10, <1>11, <1>12, <1>13 DEF Execute

LEMMA AccountsOther == TypeOK /\ Control /\ Accounts /\ Next => Execute \/ Accounts'
<1> SUFFICES ASSUME TypeOK, Control, Accounts, Next PROVE Execute \/ Accounts'
  OBVIOUS
<1>0. /\ phase \in BackupPhase /\ disk \in BackupPhase
      /\ owed \in SUBSET Services /\ todo \in SUBSET Services
  BY DEF TypeOK
<1> USE DEF Accounts, WritesSucceeded, stateVars, threadVars, clockVars, observed
\* most steps touch neither the list nor the file, and owe nothing new
<1>a. ASSUME UNCHANGED <<pc, todo, phase, disk, degraded>>, owed' \subseteq owed PROVE Accounts'
  BY <1>a DEF CompensationStarts, Control
<1>1. CASE StartBackup
  BY <1>1 DEF StartBackup, ShouldStart, AtLoop, IsIdle, Phase, Control
<1>2. CASE Restic
  BY <1>a, <1>2 DEF Restic, ResticEnds
<1>3. ASSUME NEW e \in events, EffectCompleted(e) PROVE Accounts'
  <2>0. /\ AtLoop /\ UNCHANGED <<disk, degraded, owed>>
    BY <1>3 DEF EffectCompleted
  <2> USE DEF AtLoop, RestoreThenPersist, Idle, Phase, PreBackupServices, Control
  <2>1. CASE ResticCompleted(e.ok)
    <3>1. CompensationStarts(phase) = phase.pre /\ PreBackupServices(phase) = phase.pre
      BY <1>0, <2>1, CompensationFacts DEF ResticCompleted
    <3>2. /\ owed' = owed /\ todo' = phase.pre /\ pc' \in {"persist", "restore"}
          /\ phase'.tag \in {"Idle", "RetentionRunning"}
          /\ pc' = "persist" => phase.pre = {}
      BY <2>0, <2>1, <3>1 DEF ResticCompleted, BackupFailure
    <3>3. owed \subseteq phase.pre
      BY <2>1 DEF ResticCompleted
    <3>4. WritesSucceeded => disk = phase
      BY <2>0, <2>1 DEF ResticCompleted
    <3> QED
      BY <2>0, <3>1, <3>2, <3>3, <3>4
  <2>2. CASE RetentionCompleted(e.ok) \/ VerifyCompleted
    <3>1. owed' = {}
      BY <2>0, <2>2 DEF RetentionCompleted, VerifyCompleted, BackupFailure
    <3>2. pc' = "persist" \/ pc' = "restore"
      BY <2>0, <2>2 DEF RetentionCompleted, VerifyCompleted, BackupFailure
    <3> QED
      BY <3>1, <3>2
  <2> QED
    BY <1>3, <2>1, <2>2 DEF EffectCompleted
<1>4. ASSUME NEW e \in events, UnexpectedEffect(e) PROVE Accounts'
  BY <1>a, <1>4 DEF UnexpectedEffect
<1>5. CASE ProbeCycle \/ \E s \in Services : RemediationRestart(s)
  BY <1>a, <1>5 DEF ProbeCycle, Recover, RestartServices, RestartServicesAndDocker,
                    RemediationRestart, SystemctlStart
<1>9. CASE RemediationUnlock
  <2>1. /\ UNCHANGED <<pc, todo, phase, disk, owed>>
        /\ WritesSucceeded' => WritesSucceeded
    BY <1>9 DEF RemediationUnlock, ResticUnlock
  <2> QED
    BY <2>1 DEF CompensationStarts, Control
<1>6. CASE Crash \/ Shutdown
  BY <1>6 DEF Crash, Shutdown, ProcessEnds, Idle, Phase, Control, CompensationStarts
<1>7. CASE Boot
  <2>1. PICK p \in {disk} \cup (IF DiskMayFail THEN {Idle} ELSE {}) :
             /\ todo' = CompensationStarts(p)
             /\ pc' = CASE IsIdle(p) -> "probe"
                        [] NeedsResticUnlock(p) -> "recUnlock"
                        [] todo' # {} -> "recStart"
                        [] OTHER -> "recPersist"
    BY <1>7 DEF Boot
  <2>2. /\ owed' = owed \cap todo' /\ UNCHANGED <<phase, disk, degraded>>
        /\ phase.tag = "Idle"
    BY <1>7 DEF Boot, Control
  <2>3. IsIdle(p) => todo' = {}
    BY <2>1, <1>0, PhaseTypes, CompensationFacts DEF IsIdle
  <2>4. todo' \subseteq CompensationStarts(disk)
    BY <2>1, <1>0, PhaseTypes, CompensationFacts DEF Idle, Phase
  <2>5. pc' \in {"probe", "recUnlock", "recStart", "recPersist"}
    BY <2>1
  <2>6. pc' \in {"probe", "recPersist"} => todo' = {}
    BY <2>1, <2>3
  <2>7. CompensationStarts(disk)' = CompensationStarts(disk)
    BY <2>2 DEF CompensationStarts
  <2> QED
    BY <2>2, <2>4, <2>5, <2>6, <2>7
<1>8. CASE World
  BY <1>a, <1>8 DEF World, ServiceStops, ServiceComesUp, WindowCloses, LeasesExpire, NextDay
<1> QED
  BY <1>1, <1>2, <1>3, <1>4, <1>5, <1>6, <1>7, <1>8, <1>9 DEF Next, Completion, Remediation

-----------------------------------------------------------------------------
(* The theorems *)

\* The strengthened invariant holds in every state the daemon can be in.
THEOREM Inductive == Spec => []IInv
<1>1. Init => IInv
  <2> SUFFICES ASSUME Init PROVE IInv
    OBVIOUS
  <2>1. TypeOK
    BY InitType
  <2>2. Control
    BY DEF Init, Control, Idle, Phase
  <2>3. Accounts
    BY DEF Init, Accounts, Idle, Phase
  <2> QED
    BY <2>1, <2>2, <2>3 DEF IInv
<1>2. IInv /\ [Next]_vars => IInv'
  BY StutterInv, NextType, ControlStep, AccountsExecute, AccountsOther DEF IInv
<1> QED
  BY <1>1, <1>2, PTL DEF Spec

\* The state of the daemon, of the disk and of the world keeps its type.
THEOREM TypeCorrect == Spec => []TypeOK
<1>1. IInv => TypeOK
  BY DEF IInv
<1> QED
  BY <1>1, Inductive, PTL

\* For any set of services, however often the daemon is killed and wherever:
\* outside the stop window the file names everything a run has stopped and
\* not given back, unless a write of it failed.
THEOREM CrashSafe == Spec => []Restorable
<1>1. IInv => Restorable
  <2> SUFFICES ASSUME IInv, WritesSucceeded, ~InStopWindow
               PROVE  owed \subseteq CompensationStarts(disk)
    BY DEF Restorable
  <2>0. disk \in BackupPhase /\ pc \in Positions /\ phase \in BackupPhase
    BY DEF IInv, TypeOK
  <2>1. CASE phase.tag = "ResticRunning"
    <3>1. pc \in {"spawn", "loop"}
      BY <2>0, <2>1 DEF IInv, Control, InStopWindow, Positions
    <3>2. disk = phase /\ owed \subseteq phase.pre
      BY <2>1, <3>1 DEF IInv, Accounts
    <3> QED
      BY <2>0, <2>1, <3>2, CompensationFacts
  <2>2. CASE phase.tag # "ResticRunning"
    <3>1. pc \notin {"probeFirst", "lock", "unlock", "stop"}
      BY <2>2 DEF IInv, Control
    <3> QED
      BY <2>0, <2>2, <3>1 DEF IInv, Accounts, Positions
  <2> QED
    BY <2>1, <2>2
<1> QED
  BY <1>1, Inductive, PTL

\* However a run ends, and whatever fails on the way, when the loop takes its
\* next event after restic backup nothing the run stopped is still owed.
THEOREM EverybodyReturns == Spec => []NobodyLeftBehind
<1>1. IInv => NobodyLeftBehind
  BY DEF IInv, Accounts, NobodyLeftBehind, AtLoop
<1> QED
  BY <1>1, Inductive, PTL

-----------------------------------------------------------------------------
(* The run: its thread, its day, its leases, its repository.               *)
(*                                                                         *)
(* None of the properties about restic is inductive.  That a thread is the *)
(* one the phase waits for rests on the numbers of commands and events,    *)
(* that a run holds its leases on the day they were granted: a lease is    *)
(* granted again to the holder it had, expired or not, so an old entry of  *)
(* the same day would never be refreshed.                                  *)

\* The command the phase waits for, the threads and the events in the channel.
Threads ==
    /\ pending # NoCmd => pc = "loop" /\ ~IsIdle(phase) /\ pending < nextCmd
    /\ \A e \in events : e.id < nextCmd
    /\ \A w \in workers : /\ pc = "loop" /\ ~IsIdle(phase)
                          /\ pending = w.id /\ w.stage = StageOf(phase)
                          /\ \A e \in events : e.id # w.id

\* A run that is executed or waited for is the one of today, and it was the
\* last one this process has started.
Chronicle ==
    /\ lastDay <= day
    /\ ~NothingPending /\ proc = "up" => lastDay = day
    /\ ~IsIdle(phase) => phase.run = lastDay
    /\ lastStart[1] <= crashes /\ lastStart[2] <= day
    /\ lastStart = <<crashes, day>> => lastDay = day

\* AcquireLease for the run of today will be granted, and anew.
Claimable(r) == IsFree(leases[r]) /\ leases[r].holder # day

\* The commands of a run that stand after its AcquireLease(BackupRepo).
InRun == pc \in {"unlock", "stop", "restore", "persist", "spawn"} \/ pending # NoCmd

\* Where the reducer's lists have got to with the lease of the repository.
RepoHeld ==
    /\ IsIdle(phase) /\ pc \notin {"restore", "persist", "release"} =>
            leases[Repo].holder = NoHolder
    /\ ~IsIdle(phase) /\ pc = "loop" => leases[Repo].holder = phase.run
    /\ ~IsIdle(phase) /\ InRun => leases[Repo] = HeldBy(phase.run)
    /\ pc \in {"probeFirst", "lock"} => Claimable(Repo)

\* And with those of the services.
ServicesHeld ==
    /\ \A r \in Resources : leases[r].holder # NoHolder => leases[r].holder <= day
    /\ lastDay # day /\ IsIdle(phase) => \A s \in StopServices : Claimable(s)
    /\ pc \in {"probeFirst", "lock", "unlock"} => \A s \in StopServices : Claimable(s)
    /\ pc = "stop" => \A s \in StopServices :
            IF s \in todo THEN Claimable(s) ELSE leases[s] = HeldBy(phase.run)
    /\ phase.tag = "ResticRunning" /\ (pc \in {"persist", "spawn"} \/ pending # NoCmd) =>
            \A s \in StopServices : leases[s] = HeldBy(phase.run)

\* The unlock of a run has been tried before its services are stopped.
Unlocked ==
    phase.tag = "ResticRunning" /\ pc \in {"stop", "persist", "spawn"} =>
        ~staleLock \/ "restic_unlock_failed" \in degraded

RunInv == IInv /\ Threads /\ Chronicle /\ RepoHeld /\ ServicesHeld /\ Unlocked

-----------------------------------------------------------------------------
(* The thread of a run *)

LEMMA ThreadsFrame ==
    ASSUME Threads, UNCHANGED <<pc, phase, pending, nextCmd, workers, events>>
    PROVE  Threads'
BY DEF Threads, StageOf, IsIdle

\* A command's number is given out once, so the event of the command the phase
\* waits for is there only when its thread has ended.
LEMMA ThreadsStep == IInv /\ Threads /\ Next => Threads'
<1> SUFFICES ASSUME IInv, Threads, Next PROVE Threads'
  OBVIOUS
<1>0. /\ nextCmd \in Nat /\ NoCmd \notin Nat /\ pending \in Nat \cup {NoCmd}
      /\ workers \in SUBSET [id : Nat, stage : {"backup", "forget", "check"}]
      /\ events \in SUBSET [id : Nat, ok : BOOLEAN]
      /\ Control
  BY BackupAssumption DEF IInv, TypeOK
<1> USE DEF stateVars, threadVars, clockVars, observed
<1>a. ASSUME pc # "loop", pending' = pending, UNCHANGED <<workers, events, nextCmd>>
      PROVE  Threads'
  BY <1>a DEF Threads
<1>1. CASE StartBackup
  BY <1>1 DEF StartBackup, ShouldStart, Threads, IsIdle
<1>2. CASE Execute
  <2>1. CASE SpawnRestic
    <3>1. pending = NoCmd /\ workers = {} /\ ~IsIdle(phase)
      BY <1>0, <2>1 DEF SpawnRestic, Threads, Control, IsIdle
    <3>2. workers' = {[id |-> nextCmd, stage |-> StageOf(phase)]}
      BY <2>1, <3>1 DEF SpawnRestic
    <3>3. /\ pending' = nextCmd /\ nextCmd' = nextCmd + 1 /\ pc' = "loop"
          /\ UNCHANGED <<phase, events>>
      BY <2>1 DEF SpawnRestic
    <3>4. \A e \in events' : e.id < nextCmd
      BY <3>3 DEF Threads
    <3>5. StageOf(phase)' = StageOf(phase) /\ IsIdle(phase)' = IsIdle(phase)
      BY <3>3 DEF StageOf, IsIdle
    <3>6. \A e \in events' : e.id \in Nat
      BY <1>0, <3>3
    <3> QED
      BY <1>0, <3>1, <3>2, <3>3, <3>4, <3>5, <3>6 DEF Threads
  <2>2. CASE SpawnFails
    <3>1. workers = {}
      BY <2>2 DEF SpawnFails, Threads
    <3>2. \A e \in events : e.id < nextCmd /\ e.id \in Nat
      BY <1>0 DEF Threads
    <3>3. \A e \in events' : e.id < nextCmd'
      BY <1>0, <2>2, <3>2 DEF SpawnFails
    <3> QED
      BY <2>2, <3>1, <3>3 DEF SpawnFails, Threads
  <2>3. CASE ~SpawnRestic /\ ~SpawnFails
    BY <1>a, <1>2, <2>3
       DEF Execute, TickProbes, Recover, LockRun, UnlockRepo, StopService, PersistPhase,
           ReleaseRepo, RestoreService, RecoverUnlock, RecoverStart, RecoverPersist, StartupProbe
  <2> QED
    BY <2>1, <2>2, <2>3
<1>3. ASSUME NEW w \in workers, NEW ok \in BOOLEAN, ResticEnds(w, ok) PROVE Threads'
  <2>1. workers' = {}
    <3>1. \A v \in workers : v = w
      BY <1>0 DEF Threads
    <3> QED
      BY <1>3, <3>1 DEF ResticEnds
  <2>2. \A e \in events' : e \in events \/ e.id = w.id
    BY <1>3 DEF ResticEnds
  <2>3. w.id < nextCmd
    BY <1>0 DEF Threads
  <2> QED
    BY <1>3, <2>1, <2>2, <2>3 DEF ResticEnds, Threads, IsIdle
<1>4. ASSUME NEW e \in events, EffectCompleted(e) PROVE Threads'
  <2>1. workers = {}
    BY <1>4 DEF EffectCompleted, Threads
  <2> QED
    BY <1>4, <2>1 DEF EffectCompleted, Threads
<1>5. ASSUME NEW e \in events, UnexpectedEffect(e) PROVE Threads'
  BY <1>5 DEF UnexpectedEffect, Threads, StageOf, IsIdle
<1>6. CASE ProbeCycle \/ Remediation
  BY <1>6, ThreadsFrame
     DEF ProbeCycle, Recover, Remediation, RemediationRestart, RemediationUnlock
<1>7. CASE Crash \/ Shutdown
  BY <1>7 DEF Crash, Shutdown, ProcessEnds, Threads
<1>8. CASE Boot
  BY <1>a, <1>0, <1>8 DEF Boot, Control
<1>9. CASE World
  BY <1>9, ThreadsFrame
     DEF World, ServiceStops, ServiceComesUp, WindowCloses, LeasesExpire, NextDay
<1> QED
  BY <1>1, <1>2, <1>3, <1>4, <1>5, <1>6, <1>7, <1>8, <1>9 DEF Next, Restic, Completion

-----------------------------------------------------------------------------
(* The day of a run *)

LEMMA ChronicleFrame ==
    ASSUME Chronicle, UNCHANGED <<proc, pc, pending, phase, lastDay, day, crashes, lastStart>>
    PROVE  Chronicle'
BY DEF Chronicle, NothingPending, IsIdle

\* The clock reaches another due day only while no command is executed or
\* waited for, and what a process remembers of its last run ends with it.
LEMMA ChronicleStep == IInv /\ Threads /\ Chronicle /\ Next => Chronicle'
<1> SUFFICES ASSUME IInv, Threads, Chronicle, Next PROVE Chronicle'
  OBVIOUS
<1>0. /\ day \in Nat /\ lastDay \in Nat /\ crashes \in Nat /\ lastStart \in Nat \X Nat
      /\ Control
  BY DEF IInv, TypeOK
<1> USE DEF stateVars, threadVars, clockVars, observed
\* most steps go on in a list, or leave it with nothing to wait for
<1>a. ASSUME ~NothingPending \/ NothingPending' \/ proc' # "up",
             proc = proc' \/ proc' # "up",
             UNCHANGED <<phase, lastDay, day, crashes, lastStart>>
      PROVE  Chronicle'
  BY <1>a, Zenon DEF Chronicle, IsIdle
<1>1. CASE StartBackup
  <2>1. /\ phase'.run = day /\ lastDay' = day /\ lastStart' = <<crashes, day>>
        /\ day' = day /\ crashes' = crashes
    BY <1>1 DEF StartBackup, Phase
  <2> QED
    BY <1>0, <2>1 DEF Chronicle
<1>2. CASE Execute
  <2>1. UNCHANGED <<phase, lastDay, day, crashes, lastStart>>
    BY <1>2
       DEF Execute, TickProbes, Recover, LockRun, UnlockRepo, StopService, PersistPhase,
           SpawnRestic, SpawnFails, ReleaseRepo, RestoreService, RecoverUnlock, RecoverStart,
           RecoverPersist, StartupProbe
  <2>2. CASE StartupProbe
    <3>1. pending = NoCmd /\ pc' = "loop" /\ pending' = pending
      BY <2>2 DEF StartupProbe, Threads
    <3>2. NothingPending'
      BY <3>1 DEF NothingPending
    <3> QED
      BY <1>0, <2>1, <3>2 DEF Chronicle, IsIdle
  <2>3. CASE ~StartupProbe
    <3>1. proc' = proc
      BY <1>2, <2>3
         DEF Execute, TickProbes, Recover, LockRun, UnlockRepo, StopService, PersistPhase,
             SpawnRestic, SpawnFails, ReleaseRepo, RestoreService, RecoverUnlock, RecoverStart,
             RecoverPersist
    <3>2. pc \notin {"loop", "off"}
      BY <1>2, <2>3
         DEF Execute, TickProbes, Recover, LockRun, UnlockRepo, StopService, PersistPhase,
             SpawnRestic, SpawnFails, ReleaseRepo, RestoreService, RecoverUnlock, RecoverStart,
             RecoverPersist
    <3>3. ~NothingPending
      BY <3>2 DEF NothingPending
    <3> QED
      BY <1>a, <2>1, <3>1, <3>3
  <2> QED
    BY <2>2, <2>3
<1>3. CASE Restic
  BY <1>3, ChronicleFrame DEF Restic, ResticEnds
<1>4. ASSUME NEW e \in events, EffectCompleted(e) PROVE Chronicle'
  <2>1. /\ ~IsIdle(phase) /\ ~NothingPending /\ proc = "up" /\ proc' = "up"
        /\ UNCHANGED <<lastDay, day, crashes, lastStart>>
    <3>1. e.id # NoCmd
      BY BackupAssumption DEF IInv, TypeOK
    <3> QED
      BY <1>4, <3>1
         DEF EffectCompleted, AtLoop, NothingPending, ResticCompleted, RetentionCompleted,
             VerifyCompleted, IsIdle
  <2>2. phase' = Idle \/ phase'.run = phase.run
    BY <1>4
       DEF EffectCompleted, ResticCompleted, RetentionCompleted, VerifyCompleted, BackupFailure,
           Phase
  <2>3. IsIdle(Idle)
    BY DEF IsIdle, Idle, Phase
  <2>4. ~IsIdle(phase') => phase'.run = phase.run
    BY <2>2, <2>3
  <2>5. lastDay = day
    BY <2>1 DEF Chronicle
  <2> QED
    BY <1>0, <2>1, <2>4, <2>5 DEF Chronicle, IsIdle
<1>5. ASSUME NEW e \in events, UnexpectedEffect(e) PROVE Chronicle'
  BY <1>5, ChronicleFrame DEF UnexpectedEffect
<1>6. CASE ProbeCycle \/ Remediation
  BY <1>6, ChronicleFrame
     DEF ProbeCycle, Recover, Remediation, RemediationRestart, RemediationUnlock
<1>7. CASE Crash \/ Shutdown
  <2>1. /\ crashes' = crashes + 1 /\ day' = day /\ lastStart' = lastStart /\ lastDay' = 0
        /\ phase' = Idle /\ proc' # "up"
    BY <1>7 DEF Crash, Shutdown, ProcessEnds
  <2>2. lastStart # <<crashes + 1, day>> /\ lastStart[1] <= crashes + 1 /\ lastStart[2] <= day
    BY <1>0 DEF Chronicle
  <2> QED
    BY <1>0, <2>1, <2>2 DEF Chronicle, IsIdle, Idle, Phase
<1>8. CASE Boot
  BY <1>a, <1>8 DEF Boot
<1>9. CASE World
  <2>1. CASE NextDay
    <3>1. /\ NothingPending /\ day' = day + 1
          /\ UNCHANGED <<proc, pc, pending, phase, lastDay, crashes, lastStart>>
      BY <2>1 DEF NextDay
    <3>2. NothingPending'
      BY <3>1 DEF NothingPending
    <3>3. lastStart # <<crashes, day + 1>> /\ lastStart[2] <= day + 1
      BY <1>0 DEF Chronicle
    <3> QED
      BY <1>0, <3>1, <3>2, <3>3 DEF Chronicle, IsIdle
  <2>2. CASE ~NextDay
    BY <1>9, <2>2, ChronicleFrame
       DEF World, ServiceStops, ServiceComesUp, WindowCloses, LeasesExpire
  <2> QED
    BY <2>1, <2>2
<1> QED
  BY <1>1, <1>2, <1>3, <1>4, <1>5, <1>6, <1>7, <1>8, <1>9 DEF Next, Completion

-----------------------------------------------------------------------------
(* The leases of a run *)

\* A lease is granted anew to who does not have it, and only then.
LEMMA LeaseFacts ==
    ASSUME NEW l \in Lease(Nat), NEW h \in Nat
    PROVE  /\ IsFree(l) /\ l.holder # h => Acquire(l, h) = HeldBy(h)
           /\ Acquire(l, h) \in {l, HeldBy(h)}
           /\ ~IsFree(HeldBy(h)) /\ HeldBy(h).holder = h
           /\ IsFree(Expire(l)) /\ Expire(l).holder = l.holder
           /\ IsFree(Unheld) /\ Unheld.holder = NoHolder
BY BackupAssumption DEF Lease, IsFree, Acquire, Expire, Unheld, HeldBy

\* What the leases are after a step that does anything to them.
LEMMA LeaseSteps ==
    ASSUME IInv
    PROVE  /\ LockRun => /\ leases'[Repo] = Acquire(leases[Repo], phase.run)
                         /\ \A s \in Services : leases'[s] = leases[s]
           /\ \A s \in Services : StopService(s) =>
                /\ leases'[s] = Acquire(leases[s], phase.run)
                /\ \A r \in Resources \ {s} : leases'[r] = leases[r]
           /\ \A s \in Services : RestoreService(s) =>
                /\ leases'[s] = Unheld
                /\ \A r \in Resources \ {s} : leases'[r] = leases[r]
           /\ ReleaseRepo => /\ leases'[Repo] = Unheld
                             /\ \A s \in Services : leases'[s] = leases[s]
           /\ LeasesExpire \/ NextDay => \A r \in Resources : leases'[r] = Expire(leases[r])
           /\ Crash \/ Shutdown => \A r \in Resources : leases'[r] = Unheld
<1>0. leases \in [Resources -> Lease(Nat)] /\ Repo \notin Services
      /\ Resources = Services \cup {Repo}
  BY BackupAssumption DEF IInv, TypeOK, Resources
<1>1. LockRun => /\ leases'[Repo] = Acquire(leases[Repo], phase.run)
                 /\ \A s \in Services : leases'[s] = leases[s]
  BY <1>0 DEF LockRun
<1>2. ASSUME NEW s \in Services, StopService(s)
      PROVE  /\ leases'[s] = Acquire(leases[s], phase.run)
             /\ \A r \in Resources \ {s} : leases'[r] = leases[r]
  BY <1>0, <1>2 DEF StopService
<1>3. ASSUME NEW s \in Services, RestoreService(s)
      PROVE  /\ leases'[s] = Unheld
             /\ \A r \in Resources \ {s} : leases'[r] = leases[r]
  BY <1>0, <1>3 DEF RestoreService, ForceRelease
<1>4. ReleaseRepo => /\ leases'[Repo] = Unheld
                     /\ \A s \in Services : leases'[s] = leases[s]
  BY <1>0 DEF ReleaseRepo, ForceRelease
<1>5. LeasesExpire \/ NextDay => \A r \in Resources : leases'[r] = Expire(leases[r])
  BY DEF LeasesExpire, NextDay, ExpireAll
<1>6. Crash \/ Shutdown => \A r \in Resources : leases'[r] = Unheld
  BY DEF Crash, Shutdown, ProcessEnds
<1> QED
  BY <1>1, <1>2, <1>3, <1>4, <1>5, <1>6

\* The types the lease arguments use, and the day of a run that goes on.
LEMMA RunFacts ==
    ASSUME IInv, Threads, Chronicle
    PROVE  /\ day \in Nat /\ phase.run \in Nat /\ NoHolder \notin Nat /\ NoCmd \notin Nat
           /\ \A r \in Resources : leases[r] \in Lease(Nat)
           /\ Repo \in Resources /\ Services \subseteq Resources /\ Repo \notin Services
           /\ StopServices \subseteq Services
           /\ Control
           /\ pc # "loop" => pending = NoCmd
           /\ ~IsIdle(phase) /\ ~NothingPending => phase.run = day
           /\ pc \notin {"off", "loop"} => ~NothingPending
<1>1. /\ day \in Nat /\ phase.run \in Nat
      /\ \A r \in Resources : leases[r] \in Lease(Nat)
      /\ Control
  BY PhaseTypes DEF IInv, TypeOK
<1>2. ~IsIdle(phase) => proc = "up"
  BY <1>1 DEF Control, IsIdle
<1> QED
  BY <1>1, <1>2, BackupAssumption DEF Resources, Threads, Chronicle, NothingPending

LEMMA RepoHeldFrame ==
    ASSUME RepoHeld, UNCHANGED <<pc, pending, phase, leases, day>>
    PROVE  RepoHeld'
BY DEF RepoHeld, InRun, Claimable, IsIdle

\* From AcquireLease(BackupRepo) to ReleaseLease(BackupRepo) nobody else can
\* have the repository, and before and after nobody has it.
LEMMA RepoHeldStep == IInv /\ Threads /\ Chronicle /\ RepoHeld /\ Next => RepoHeld'
<1> SUFFICES ASSUME IInv, Threads, Chronicle, RepoHeld, Next PROVE RepoHeld'
  OBVIOUS
<1>0. /\ day \in Nat /\ phase.run \in Nat /\ NoHolder \notin Nat /\ NoCmd \notin Nat
      /\ \A r \in Resources : leases[r] \in Lease(Nat)
      /\ Repo \in Resources /\ Services \subseteq Resources /\ Repo \notin Services
      /\ Control
      /\ pc # "loop" => pending = NoCmd
      /\ ~IsIdle(phase) /\ ~NothingPending => phase.run = day
      /\ pc \notin {"off", "loop"} => ~NothingPending
  BY RunFacts
<1> USE DEF stateVars, threadVars, clockVars, observed
\* a step from one command of a list to the next
<1>a. ASSUME leases'[Repo] = leases[Repo], UNCHANGED <<phase, pending, day>>,
             \/ pc \in {"restore", "persist"} /\ pc' \in {"restore", "persist", "spawn", "release"}
             \/ pc \in {"unlock", "stop"} /\ pc' \in {"unlock", "stop", "persist"}
             \/ pc \in {"off", "recUnlock", "recStart", "recPersist", "probe"}
                /\ pc' \in {"recUnlock", "recStart", "recPersist", "probe", "loop"}
             \/ pc = "probeFirst" /\ pc' = "lock",
             pc' = "spawn" => ~IsIdle(phase)
      PROVE  RepoHeld'
  <2>1. IsIdle(phase') <=> IsIdle(phase)
    BY <1>a DEF IsIdle
  <2>2. Claimable(Repo)' <=> Claimable(Repo)
    BY <1>a DEF Claimable
  <2>3. /\ proc # "up" => IsIdle(phase)
        /\ pc \in {"unlock", "stop"} => ~IsIdle(phase)
    BY <1>0 DEF Control, IsIdle
  <2> QED
    BY <1>a, <1>0, <2>1, <2>2, <2>3 DEF RepoHeld, InRun, Control
<1>1. CASE StartBackup
  <2>1. pc = "loop" /\ IsIdle(phase) /\ pending = NoCmd
    BY <1>1 DEF StartBackup, AtLoop, ShouldStart, Threads
  <2>2. leases[Repo].holder = NoHolder
    BY <2>1 DEF RepoHeld
  <2>3. Claimable(Repo)
    BY <1>0, <2>2 DEF Claimable, IsFree
  <2>4. /\ UNCHANGED <<leases, day, pending>> /\ pc' \in {"lock", "probeFirst"}
        /\ ~IsIdle(phase')
    BY <1>1 DEF StartBackup, IsIdle, Phase
  <2> QED
    BY <2>1, <2>3, <2>4 DEF RepoHeld, InRun, Claimable
<1>2. CASE Execute
  <2>1. CASE LockRun
    <3>1. /\ pc = "lock" /\ pc' = "unlock" /\ UNCHANGED <<phase, pending, day>>
          /\ ~IsIdle(phase)
      BY <1>0, <2>1 DEF LockRun, Control, IsIdle
    <3>2. phase.run = day
      BY <1>0, <3>1
    <3>3. IsFree(leases[Repo]) /\ leases[Repo].holder # phase.run
      BY <3>1, <3>2 DEF RepoHeld, Claimable
    <3>4. leases'[Repo] = HeldBy(phase.run)
      BY <1>0, <2>1, <3>3, LeaseSteps, LeaseFacts
    <3> QED
      BY <3>1, <3>4 DEF RepoHeld, IsIdle
  <2>2. CASE UnlockRepo
    BY <1>a, <2>2 DEF UnlockRepo
  <2>3. ASSUME NEW s \in Services, StopService(s) PROVE RepoHeld'
    BY <1>0, <1>a, <2>3, LeaseSteps DEF StopService
  <2>4. CASE PersistPhase
    BY <1>a, <2>4 DEF PersistPhase
  <2>5. CASE SpawnRestic \/ SpawnFails
    <3>1. /\ pc = "spawn" /\ pc' = "loop" /\ UNCHANGED <<phase, leases, day>>
          /\ ~IsIdle(phase)
      BY <1>0, <2>5 DEF SpawnRestic, SpawnFails, Control, IsIdle
    <3>2. leases[Repo] = HeldBy(phase.run) /\ leases[Repo].holder = phase.run
      BY <1>0, <3>1, LeaseFacts DEF RepoHeld, InRun
    <3> QED
      BY <3>1, <3>2 DEF RepoHeld, IsIdle
  <2>6. CASE ReleaseRepo
    <3>1. pc' = "loop" /\ pending' = NoCmd /\ IsIdle(phase')
      BY <1>0, <2>6 DEF ReleaseRepo, Control, IsIdle
    <3>2. leases'[Repo].holder = NoHolder
      BY <2>6, LeaseSteps DEF Unheld
    <3> QED
      BY <3>1, <3>2 DEF RepoHeld
  <2>7. ASSUME NEW s \in Services, RestoreService(s) PROVE RepoHeld'
    BY <1>0, <1>a, <2>7, LeaseSteps DEF RestoreService
  <2>8. CASE RecoverUnlock \/ RecoverPersist \/ StartupProbe
    BY <1>a, <2>8 DEF RecoverUnlock, RecoverPersist, StartupProbe
  <2>9. ASSUME NEW s \in Services, RecoverStart(s) PROVE RepoHeld'
    BY <1>a, <2>9 DEF RecoverStart
  <2>10. CASE TickProbes
    BY <1>a, <2>10 DEF TickProbes, Recover
  <2> QED
    BY <1>2, <2>1, <2>2, <2>3, <2>4, <2>5, <2>6, <2>7, <2>8, <2>9, <2>10 DEF Execute
<1>3. CASE Restic
  BY <1>3, RepoHeldFrame DEF Restic, ResticEnds
<1>4. ASSUME NEW e \in events, EffectCompleted(e) PROVE RepoHeld'
  <2>1. /\ ~IsIdle(phase) /\ pending # NoCmd /\ UNCHANGED <<leases, day>>
        /\ pending' = NoCmd
    <3>1. e.id # NoCmd
      BY BackupAssumption DEF IInv, TypeOK
    <3> QED
      BY <1>4, <3>1
         DEF EffectCompleted, ResticCompleted, RetentionCompleted, VerifyCompleted, IsIdle
  <2>2. /\ phase' = Idle \/ phase'.run = phase.run
        /\ pc' \in {"persist", "restore"}
    BY <1>4
       DEF EffectCompleted, ResticCompleted, RetentionCompleted, VerifyCompleted, BackupFailure,
           RestoreThenPersist, Phase
  <2>3. leases[Repo] = HeldBy(phase.run)
    BY <2>1 DEF RepoHeld, InRun
  <2>4. ~IsIdle(phase') => phase'.run = phase.run
    BY <2>2 DEF IsIdle, Idle, Phase
  <2> QED
    BY <2>1, <2>2, <2>3, <2>4 DEF RepoHeld, IsIdle
<1>5. ASSUME NEW e \in events, UnexpectedEffect(e) PROVE RepoHeld'
  BY <1>5, RepoHeldFrame DEF UnexpectedEffect
<1>6. CASE ProbeCycle \/ Remediation
  BY <1>6, RepoHeldFrame
     DEF ProbeCycle, Recover, Remediation, RemediationRestart, RemediationUnlock
<1>7. CASE Crash \/ Shutdown
  <2>1. pc' = "off" /\ IsIdle(phase')
    BY <1>7 DEF Crash, Shutdown, ProcessEnds, IsIdle, Idle, Phase
  <2>2. leases'[Repo].holder = NoHolder
    BY <1>0, <1>7, LeaseSteps DEF Unheld
  <2> QED
    BY <2>1, <2>2 DEF RepoHeld
<1>8. CASE Boot
  <2>1. /\ pc = "off" /\ UNCHANGED <<phase, pending, day, leases>>
        /\ pc' \in {"recUnlock", "recStart", "recPersist", "probe"}
    BY <1>0, <1>8 DEF Boot, Control
  <2> QED
    BY <1>a, <2>1
<1>9. CASE World
  <2>1. CASE LeasesExpire \/ NextDay
    <3>1. NothingPending /\ UNCHANGED <<pc, pending, phase>>
      BY <2>1 DEF LeasesExpire, NextDay
    <3>2. leases'[Repo].holder = leases[Repo].holder
      BY <1>0, <2>1, LeaseSteps, LeaseFacts
    <3> QED
      BY <3>1, <3>2 DEF RepoHeld, NothingPending, InRun, IsIdle
  <2>2. CASE ~(LeasesExpire \/ NextDay)
    BY <1>9, <2>2, RepoHeldFrame DEF World, ServiceStops, ServiceComesUp, WindowCloses
  <2> QED
    BY <2>1, <2>2
<1> QED
  BY <1>1, <1>2, <1>3, <1>4, <1>5, <1>6, <1>7, <1>8, <1>9 DEF Next, Completion

LEMMA ServicesHeldFrame ==
    ASSUME ServicesHeld, UNCHANGED <<pc, todo, pending, phase, lastDay, leases, day>>
    PROVE  ServicesHeld'
BY DEF ServicesHeld, Claimable, IsIdle

\* When a run begins no service carries an entry of the same day, so each
\* AcquireLease of the run makes a new one, which then stays.
LEMMA ServicesHeldStep == IInv /\ Threads /\ Chronicle /\ ServicesHeld /\ Next => ServicesHeld'
<1> SUFFICES ASSUME IInv, Threads, Chronicle, ServicesHeld, Next PROVE ServicesHeld'
  OBVIOUS
<1>0. /\ day \in Nat /\ phase.run \in Nat /\ NoHolder \notin Nat /\ NoCmd \notin Nat
      /\ \A r \in Resources : leases[r] \in Lease(Nat)
      /\ Repo \in Resources /\ Services \subseteq Resources /\ Repo \notin Services
      /\ StopServices \subseteq Services
      /\ Control
      /\ pc # "loop" => pending = NoCmd
      /\ ~IsIdle(phase) /\ ~NothingPending => phase.run = day
      /\ pc \notin {"off", "loop"} => ~NothingPending
  BY RunFacts
<1>9. /\ ~NothingPending /\ proc = "up" => lastDay = day
      /\ \A r \in Resources : leases[r].holder # NoHolder => leases[r].holder \in Nat
      /\ Resources = Services \cup {Repo}
  BY <1>0 DEF Chronicle, Lease, Resources
<1> USE DEF stateVars, threadVars, clockVars, observed
\* a step that leaves the leases alone and stays clear of the services' loop
<1>a. ASSUME UNCHANGED <<leases, day, lastDay, phase>>,
             pc' \notin {"probeFirst", "lock", "unlock", "stop"},
             phase.tag = "ResticRunning" /\ (pc' \in {"persist", "spawn"} \/ pending' # NoCmd) =>
                 pc \in {"persist", "spawn"} \/ pending # NoCmd
      PROVE  ServicesHeld'
  BY <1>a DEF ServicesHeld, Claimable, IsIdle
<1>1. CASE StartBackup
  <2>1. /\ \A s \in StopServices : Claimable(s)
        /\ UNCHANGED <<leases, day>> /\ pc' \in {"lock", "probeFirst"} /\ pending' = NoCmd
        /\ ~IsIdle(phase')
    BY <1>1 DEF StartBackup, ShouldStart, ServicesHeld, Threads, IsIdle, Phase
  <2> QED
    BY <2>1 DEF ServicesHeld, Claimable
<1>2. CASE Execute
  <2>1. CASE LockRun
    <3>1. /\ pc = "lock" /\ pc' = "unlock" /\ UNCHANGED <<phase, pending, day, lastDay>>
          /\ ~IsIdle(phase) /\ pending = NoCmd
      BY <1>0, <2>1 DEF LockRun, Control, IsIdle
    <3>2. phase.run = day
      BY <1>0, <3>1
    <3>3. leases'[Repo] \in {leases[Repo], HeldBy(day)} /\ HeldBy(day).holder = day
      BY <1>0, <2>1, <3>2, LeaseSteps, LeaseFacts
    <3>4. \A s \in Services : leases'[s] = leases[s]
      BY <2>1, LeaseSteps
    <3>5. \A r \in Resources : leases'[r].holder # NoHolder => leases'[r].holder <= day
      BY <1>0, <1>9, <3>3, <3>4 DEF ServicesHeld
    <3>6. \A s \in StopServices : Claimable(s)'
      BY <1>0, <3>1, <3>4 DEF ServicesHeld, Claimable
    <3> QED
      BY <1>0, <3>1, <3>5, <3>6 DEF ServicesHeld, IsIdle
  <2>2. CASE UnlockRepo
    <3>1. /\ pc = "unlock" /\ UNCHANGED <<phase, pending, day, lastDay, leases>>
          /\ todo' = StopServices /\ pending = NoCmd
          /\ pc' = "stop" \/ (pc' = "persist" /\ StopServices = {})
      BY <1>0, <2>2 DEF UnlockRepo
    <3> QED
      BY <3>1 DEF ServicesHeld, Claimable, IsIdle
  <2>3. ASSUME NEW s \in Services, StopService(s) PROVE ServicesHeld'
    <3>1. /\ pc = "stop" /\ s \in todo /\ UNCHANGED <<phase, pending, day, lastDay>>
          /\ todo' = todo \ {s} /\ pc' = IF todo' = {} THEN "persist" ELSE "stop"
          /\ phase.tag = "ResticRunning" /\ ~IsIdle(phase) /\ pending = NoCmd
      BY <1>0, <2>3 DEF StopService, Control, IsIdle
    <3>2. phase.run = day
      BY <1>0, <3>1
    <3>3. /\ leases'[s] = Acquire(leases[s], day)
          /\ \A r \in Resources \ {s} : leases'[r] = leases[r]
      BY <2>3, <3>2, LeaseSteps
    <3>4. leases'[s] \in {leases[s], HeldBy(day)} /\ HeldBy(day).holder = day
      BY <1>0, <3>3, LeaseFacts
    <3>5. \A r \in Resources : leases'[r].holder # NoHolder => leases'[r].holder <= day
      BY <1>0, <1>9, <3>3, <3>4 DEF ServicesHeld
    <3>6. s \in StopServices => leases'[s] = HeldBy(day)
      BY <1>0, <3>1, <3>3, LeaseFacts DEF ServicesHeld, Claimable
    <3>7. \A t \in StopServices :
              IF t \in todo' THEN Claimable(t)' ELSE leases'[t] = HeldBy(phase'.run)
      <4> SUFFICES ASSUME NEW t \in StopServices
                   PROVE  IF t \in todo' THEN Claimable(t)' ELSE leases'[t] = HeldBy(phase'.run)
        OBVIOUS
      <4>1. IF t \in todo THEN Claimable(t) ELSE leases[t] = HeldBy(phase.run)
        BY <3>1 DEF ServicesHeld
      <4>2. CASE t = s
        BY <3>1, <3>2, <3>6, <4>2
      <4>3. CASE t # s
        BY <1>0, <3>1, <3>2, <3>3, <4>1, <4>3 DEF Claimable
      <4> QED
        BY <4>2, <4>3
    <3> QED
      BY <3>1, <3>5, <3>7 DEF ServicesHeld, IsIdle
  <2>4. CASE PersistPhase
    BY <1>a, <2>4 DEF PersistPhase
  <2>5. CASE SpawnRestic \/ SpawnFails
    BY <1>a, <2>5 DEF SpawnRestic, SpawnFails
  <2>7. CASE ReleaseRepo
    <3>1. /\ leases'[Repo] = Unheld /\ \A s \in Services : leases'[s] = leases[s]
          /\ UNCHANGED <<phase, day, lastDay>> /\ pending' = NoCmd /\ pc' = "loop"
      BY <1>0, <2>7, LeaseSteps DEF ReleaseRepo
    <3>2. \A r \in Resources : leases'[r].holder # NoHolder => leases'[r].holder <= day
      BY <1>9, <3>1 DEF ServicesHeld, Unheld
    <3>3. \A s \in StopServices : Claimable(s) => Claimable(s)'
      BY <1>0, <3>1 DEF Claimable
    <3> QED
      BY <3>1, <3>2, <3>3 DEF ServicesHeld, IsIdle
  <2>8. ASSUME NEW s \in Services, RestoreService(s) PROVE ServicesHeld'
    <3>1. /\ leases'[s] = Unheld /\ \A r \in Resources \ {s} : leases'[r] = leases[r]
          /\ UNCHANGED <<phase, day, lastDay>> /\ pending' = NoCmd
          /\ phase.tag # "ResticRunning" /\ pc' \in {"persist", "restore"}
      BY <1>0, <2>8, LeaseSteps DEF RestoreService, Control
    <3>2. \A r \in Resources : leases'[r].holder # NoHolder => leases'[r].holder <= day
      BY <3>1 DEF ServicesHeld, Unheld
    <3>3. \A t \in StopServices : Claimable(t) => Claimable(t)'
      BY <1>0, <3>1 DEF Claimable, IsFree, Unheld
    <3> QED
      BY <3>1, <3>2, <3>3 DEF ServicesHeld, IsIdle
  <2>9. CASE RecoverUnlock \/ RecoverPersist \/ StartupProbe
    BY <1>0, <1>a, <2>9 DEF RecoverUnlock, RecoverPersist, StartupProbe, Control
  <2>10. ASSUME NEW s \in Services, RecoverStart(s) PROVE ServicesHeld'
    BY <1>0, <1>a, <2>10 DEF RecoverStart, Control
  <2>11. CASE TickProbes
    <3>1. pc = "probeFirst" /\ pc' = "lock" /\ UNCHANGED <<leases, day, lastDay, phase, pending>>
      BY <2>11 DEF TickProbes, Recover
    <3> QED
      BY <3>1 DEF ServicesHeld, Claimable, IsIdle
  <2> QED
    BY <1>2, <2>1, <2>2, <2>3, <2>4, <2>5, <2>7, <2>8, <2>9, <2>10, <2>11 DEF Execute
<1>3. CASE Restic
  BY <1>3, ServicesHeldFrame DEF Restic, ResticEnds
<1>4. ASSUME NEW e \in events, EffectCompleted(e) PROVE ServicesHeld'
  <2>1. /\ pending # NoCmd /\ UNCHANGED <<leases, day, lastDay>>
        /\ pending' = NoCmd /\ proc = "up"
    <3>1. e.id # NoCmd
      BY BackupAssumption DEF IInv, TypeOK
    <3> QED
      BY <1>4, <3>1 DEF EffectCompleted, AtLoop
  <2>2. /\ phase'.tag # "ResticRunning"
        /\ pc' \in {"persist", "restore"}
    BY <1>4
       DEF EffectCompleted, ResticCompleted, RetentionCompleted, VerifyCompleted, BackupFailure,
           RestoreThenPersist, Phase, Idle
  <2>3. lastDay = day
    BY <1>9, <2>1 DEF NothingPending
  <2> QED
    BY <2>1, <2>2, <2>3 DEF ServicesHeld
<1>5. ASSUME NEW e \in events, UnexpectedEffect(e) PROVE ServicesHeld'
  BY <1>5, ServicesHeldFrame DEF UnexpectedEffect
<1>6. CASE ProbeCycle \/ Remediation
  BY <1>6, ServicesHeldFrame
     DEF ProbeCycle, Recover, Remediation, RemediationRestart, RemediationUnlock
<1>7. CASE Crash \/ Shutdown
  <2>1. pc' = "off" /\ IsIdle(phase') /\ pending' = NoCmd
    BY <1>7 DEF Crash, Shutdown, ProcessEnds, IsIdle, Idle, Phase
  <2>2. \A r \in Resources : leases'[r] = Unheld
    BY <1>7, LeaseSteps
  <2>3. day' \in Nat
    BY <1>0, <1>7 DEF Crash, Shutdown, ProcessEnds
  <2>4. \A s \in StopServices : Claimable(s)'
    BY <1>0, <2>2, <2>3 DEF Claimable, IsFree, Unheld
  <2> QED
    BY <2>1, <2>2, <2>4 DEF ServicesHeld, IsIdle, Unheld
<1>8. CASE Boot
  <2>1. /\ UNCHANGED <<phase, pending, day, lastDay, leases>>
        /\ pc' \in {"recUnlock", "recStart", "recPersist", "probe"}
    BY <1>8 DEF Boot
  <2> QED
    BY <1>a, <2>1
<1>10. CASE World
  <2>1. CASE LeasesExpire \/ NextDay
    <3>1. NothingPending /\ UNCHANGED <<pc, pending, phase, lastDay>> /\ day' \in {day, day + 1}
      BY <2>1 DEF LeasesExpire, NextDay
    <3>2. \A r \in Resources : leases'[r].holder = leases[r].holder /\ IsFree(leases'[r])
      BY <1>0, <2>1, LeaseSteps, LeaseFacts
    <3>3. \A r \in Resources : leases'[r].holder # NoHolder => leases'[r].holder <= day'
      BY <1>0, <1>9, <3>1, <3>2 DEF ServicesHeld
    <3>4. lastDay' # day' /\ IsIdle(phase) => \A s \in StopServices : Claimable(s)'
      <4> SUFFICES ASSUME lastDay' # day', IsIdle(phase), NEW s \in StopServices
                   PROVE  Claimable(s)'
        OBVIOUS
      <4>1. leases[s].holder # NoHolder => leases[s].holder <= day /\ leases[s].holder \in Nat
        BY <1>0, <1>9 DEF ServicesHeld
      <4>2. leases[s].holder # day'
        BY <1>0, <3>1, <4>1 DEF ServicesHeld, Claimable
      <4> QED
        BY <1>0, <3>2, <4>2 DEF Claimable
    <3> QED
      BY <3>1, <3>3, <3>4 DEF ServicesHeld, NothingPending, IsIdle
  <2>2. CASE ~(LeasesExpire \/ NextDay)
    BY <1>10, <2>2, ServicesHeldFrame DEF World, ServiceStops, ServiceComesUp, WindowCloses
  <2> QED
    BY <2>1, <2>2
<1> QED
  BY <1>1, <1>2, <1>3, <1>4, <1>5, <1>6, <1>7, <1>8, <1>10 DEF Next, Completion

\* The unlock stays done until restic backup runs: a restic alone can leave a
\* lock, and none runs in between.
LEMMA UnlockedStep == IInv /\ Threads /\ Unlocked /\ Next => Unlocked'
<1> SUFFICES ASSUME IInv, Threads, Unlocked, Next PROVE Unlocked'
  OBVIOUS
<1>0. Control
  BY DEF IInv
<1> USE DEF stateVars, threadVars, clockVars, observed
\* the failure of the unlock is not forgotten
<1>a. ASSUME UNCHANGED <<pc, phase>>, degraded \subseteq degraded',
             staleLock' => staleLock \/ "restic_unlock_failed" \in degraded'
      PROVE  Unlocked'
  BY <1>a DEF Unlocked
<1>b. ASSUME pc' \notin {"stop", "persist", "spawn"} \/ phase'.tag # "ResticRunning"
      PROVE  Unlocked'
  BY <1>b DEF Unlocked
<1>1. CASE StartBackup
  BY <1>1, <1>b DEF StartBackup
<1>2. CASE Execute
  <2>1. CASE UnlockRepo
    BY <2>1 DEF UnlockRepo, ResticUnlock, Unlocked
  <2>2. ASSUME NEW s \in Services, StopService(s) PROVE Unlocked'
    BY <2>2 DEF StopService, Unlocked
  <2>3. CASE PersistPhase
    BY <2>3 DEF PersistPhase, Persist, Unlocked
  <2>4. ASSUME NEW s \in Services, RestoreService(s) PROVE Unlocked'
    BY <1>0, <1>b, <2>4 DEF RestoreService, Control
  <2>5. CASE LockRun \/ SpawnRestic \/ SpawnFails \/ ReleaseRepo \/ RecoverUnlock
             \/ RecoverPersist \/ StartupProbe \/ TickProbes \/ \E s \in Services : RecoverStart(s)
    BY <2>5, <1>b
       DEF LockRun, SpawnRestic, SpawnFails, ReleaseRepo, RecoverUnlock, RecoverPersist,
           StartupProbe, TickProbes, RecoverStart
  <2> QED
    BY <1>2, <2>1, <2>2, <2>3, <2>4, <2>5 DEF Execute
<1>3. CASE Restic
  <2>1. pc = "loop" /\ pc' = "loop"
    BY <1>3 DEF Restic, ResticEnds, Threads
  <2> QED
    BY <1>b, <2>1
<1>4. ASSUME NEW e \in events, EffectCompleted(e) PROVE Unlocked'
  <2>1. phase'.tag # "ResticRunning"
    BY <1>4
       DEF EffectCompleted, ResticCompleted, RetentionCompleted, VerifyCompleted, BackupFailure,
           Phase, Idle
  <2> QED
    BY <1>b, <2>1
<1>5. ASSUME NEW e \in events, UnexpectedEffect(e) PROVE Unlocked'
  BY <1>a, <1>5 DEF UnexpectedEffect
<1>6. CASE ProbeCycle \/ Remediation
  BY <1>a, <1>6
     DEF ProbeCycle, Recover, Remediation, RemediationRestart, RemediationUnlock, ResticUnlock
<1>7. CASE Crash \/ Shutdown \/ Boot
  BY <1>0, <1>b, <1>7 DEF Crash, Shutdown, ProcessEnds, Boot
<1>8. CASE World
  BY <1>a, <1>8
     DEF World, ServiceStops, ServiceComesUp, WindowCloses, LeasesExpire, NextDay
<1> QED
  BY <1>1, <1>2, <1>3, <1>4, <1>5, <1>6, <1>7, <1>8 DEF Next, Completion

-----------------------------------------------------------------------------
(* The theorems about restic *)

\* Threads, days, leases and the lock agree with the phase in every state.
THEOREM RunsInductive == Spec => []RunInv
<1>1. Init => Threads /\ Chronicle /\ RepoHeld /\ ServicesHeld /\ Unlocked
  <2> SUFFICES ASSUME Init PROVE Threads /\ Chronicle /\ RepoHeld /\ ServicesHeld /\ Unlocked
    OBVIOUS
  <2>1. \A r \in Resources : leases[r] = Unheld
    BY DEF Init
  <2>2. /\ pc = "off" /\ IsIdle(phase) /\ proc = "down" /\ phase.tag = "Idle"
        /\ pending = NoCmd /\ workers = {} /\ events = {}
        /\ day = 0 /\ lastDay = 0 /\ crashes = 0 /\ lastStart = <<0, 0>>
    BY DEF Init, IsIdle, Idle, Phase
  <2>3. /\ Repo \in Resources /\ StopServices \subseteq Resources
        /\ IsFree(Unheld) /\ Unheld.holder = NoHolder
    BY BackupAssumption DEF Resources, IsFree, Unheld
  <2>4. Threads /\ Chronicle /\ Unlocked
    BY <2>2 DEF Threads, Chronicle, Unlocked
  <2>5. RepoHeld /\ ServicesHeld
    BY <2>1, <2>2, <2>3 DEF RepoHeld, ServicesHeld
  <2> QED
    BY <2>4, <2>5
<1>2. Threads /\ Chronicle /\ RepoHeld /\ ServicesHeld /\ Unlocked /\ UNCHANGED vars
        => (Threads /\ Chronicle /\ RepoHeld /\ ServicesHeld /\ Unlocked)'
  <2> SUFFICES ASSUME Threads, Chronicle, RepoHeld, ServicesHeld, Unlocked, UNCHANGED vars
               PROVE  (Threads /\ Chronicle /\ RepoHeld /\ ServicesHeld /\ Unlocked)'
    OBVIOUS
  <2>1. UNCHANGED <<proc, pc, todo, phase, lastDay, pending, nextCmd, leases, degraded, workers,
                    events, staleLock, day, crashes, lastStart>>
    BY DEF vars, stateVars, threadVars, clockVars, observed
  <2> QED
    BY <2>1, ThreadsFrame, ChronicleFrame, RepoHeldFrame, ServicesHeldFrame DEF Unlocked
<1>3. IInv /\ Threads /\ Chronicle /\ RepoHeld /\ ServicesHeld /\ Unlocked /\ [Next]_vars
        => (Threads /\ Chronicle /\ RepoHeld /\ ServicesHeld /\ Unlocked)'
  BY <1>2, ThreadsStep, ChronicleStep, RepoHeldStep, ServicesHeldStep, UnlockedStep
<1> QED
  BY <1>1, <1>3, Inductive, PTL DEF Spec, RunInv

\* What the thread of a run can rely on: it is alone, and its run holds the
\* repository and, while it copies them, the services.
LEMMA RunInvFacts ==
    ASSUME RunInv, NEW w \in workers
    PROVE  /\ ~IsIdle(phase) /\ w.stage = StageOf(phase) /\ pending = w.id /\ pending # NoCmd
           /\ w.stage = "backup" => phase.tag = "ResticRunning"
           /\ leases[Repo] = HeldBy(phase.run)
           /\ w.stage = "backup" => \A s \in StopServices : leases[s] = HeldBy(phase.run)
<1>1. /\ workers \in SUBSET [id : Nat, stage : {"backup", "forget", "check"}]
      /\ phase.tag \in {"Idle", "ResticRunning", "RetentionRunning", "Verifying"}
  BY DEF RunInv, IInv, TypeOK, Control
<1>2. /\ ~IsIdle(phase) /\ w.stage = StageOf(phase) /\ pending = w.id
  BY DEF RunInv, Threads
<1>3. pending # NoCmd
  BY <1>1, <1>2, BackupAssumption
<1>4. w.stage = "backup" => phase.tag = "ResticRunning"
  BY <1>1, <1>2 DEF StageOf, IsIdle
<1> QED
  BY <1>2, <1>3, <1>4 DEF RunInv, RepoHeld, ServicesHeld, InRun

\* However the daemon is killed, its threads fail and its events are delayed,
\* a restic that runs is the one its phase waits for, and the only one.
THEOREM ResticAlone == Spec => []ResticIsAwaited
<1>1. RunInv => ResticIsAwaited
  <2> SUFFICES ASSUME RunInv, NEW w \in workers
               PROVE  /\ ~IsIdle(phase) /\ w.stage = StageOf(phase)
                      /\ pending = w.id
                      /\ workers = {w}
    BY DEF ResticIsAwaited
  <2>1. \A v \in workers : v.id = pending /\ v.stage = StageOf(phase)
    BY RunInvFacts
  <2>2. workers \in SUBSET [id : Nat, stage : {"backup", "forget", "check"}]
    BY DEF RunInv, IInv, TypeOK
  <2>3. \A v \in workers : v = w
    BY <2>1, <2>2
  <2> QED
    BY <2>1, <2>3, RunInvFacts
<1> QED
  BY <1>1, RunsInductive, PTL

\* For any services and days: no lease of a run is denied, lost or expired
\* while its restic works.
THEOREM RunKeepsLeases == Spec => []RunHoldsItsLeases
<1>1. RunInv => RunHoldsItsLeases
  BY RunInvFacts DEF RunHoldsItsLeases
<1> QED
  BY <1>1, RunsInductive, PTL

\* Whichever way a run ends, the lease of the repository ends with it.
THEOREM RepoNotLeaked == Spec => []RepoLeasedDuringRun
<1>1. RunInv => RepoLeasedDuringRun
  <2> SUFFICES ASSUME RunInv, AtLoop
               PROVE  leases[Repo].holder # NoHolder <=> ~IsIdle(phase)
    BY DEF RepoLeasedDuringRun
  <2>1. phase.run \in Nat /\ NoHolder \notin Nat
    BY PhaseTypes, BackupAssumption DEF RunInv, IInv, TypeOK
  <2> QED
    BY <2>1 DEF RunInv, RepoHeld, AtLoop
<1> QED
  BY <1>1, RunsInductive, PTL

\* A backup runs against a locked repository only if its unlock has failed.
THEOREM BackupUnlocked == Spec => []NoStaleLock
<1>1. RunInv /\ [Next]_vars /\ NoStaleLock => NoStaleLock'
  <2> SUFFICES ASSUME RunInv, [Next]_vars, NoStaleLock PROVE NoStaleLock'
    OBVIOUS
  <2> USE DEF stateVars, threadVars, clockVars, observed
  <2>a. ASSUME workers' \subseteq workers, degraded \subseteq degraded',
               staleLock' => staleLock \/ "restic_unlock_failed" \in degraded'
        PROVE  NoStaleLock'
    BY <2>a DEF NoStaleLock
  <2>1. CASE SpawnRestic
    <3>1. CASE phase.tag = "ResticRunning"
      <4>1. ~staleLock \/ "restic_unlock_failed" \in degraded
        BY <2>1, <3>1 DEF SpawnRestic, RunInv, Unlocked
      <4> QED
        BY <2>1, <4>1 DEF SpawnRestic, NoStaleLock
    <3>2. CASE phase.tag # "ResticRunning"
      <4>1. workers = {}
        BY <2>1 DEF SpawnRestic, RunInv, Threads
      <4>2. StageOf(phase) # "backup"
        BY <2>1, <3>2 DEF SpawnRestic, RunInv, IInv, Control, StageOf
      <4> QED
        BY <2>1, <4>1, <4>2 DEF SpawnRestic, NoStaleLock
    <3> QED
      BY <3>1, <3>2
  <2>2. CASE Restic
    <3>1. PICK w \in workers : \E ok \in BOOLEAN : ResticEnds(w, ok)
      BY <2>2 DEF Restic
    <3>2. \A v \in workers : v = w
      <4>1. \A v \in workers : v.id = pending /\ v.stage = StageOf(phase)
        BY RunInvFacts
      <4> QED
        BY <4>1 DEF RunInv, IInv, TypeOK
    <3>3. workers' = {}
      BY <3>1, <3>2 DEF ResticEnds
    <3> QED
      BY <3>3 DEF NoStaleLock
  <2>3. CASE Execute /\ ~SpawnRestic
    <3>1. CASE UnlockRepo \/ RecoverUnlock
      BY <2>a, <3>1 DEF UnlockRepo, RecoverUnlock, ResticUnlock
    <3>2. CASE LockRun \/ PersistPhase \/ RecoverPersist
      BY <2>a, <3>2 DEF LockRun, PersistPhase, RecoverPersist, Persist
    <3>3. CASE ~(UnlockRepo \/ RecoverUnlock \/ LockRun \/ PersistPhase \/ RecoverPersist)
      <4>1. UNCHANGED <<workers, degraded, staleLock>>
        BY <2>3, <3>3
           DEF Execute, TickProbes, Recover, StopService, SpawnFails, ReleaseRepo, RestoreService,
               RecoverStart, StartupProbe
      <4> QED
        BY <4>1, <2>a
    <3> QED
      BY <3>1, <3>2, <3>3
  <2>4. CASE StartBackup \/ Boot \/ Completion \/ ProbeCycle \/ Remediation \/ World
    BY <2>a, <2>4
       DEF StartBackup, Boot, Completion, EffectCompleted, UnexpectedEffect, ProbeCycle, Recover,
           Remediation, RemediationRestart, RemediationUnlock, ResticUnlock, World, ServiceStops,
           ServiceComesUp, WindowCloses, LeasesExpire, NextDay
  <2>5. CASE Crash \/ Shutdown
    BY <2>5 DEF Crash, Shutdown, ProcessEnds, NoStaleLock
  <2>6. CASE UNCHANGED vars
    BY <2>a, <2>6 DEF vars
  <2> QED
    BY <2>1, <2>2, <2>3, <2>4, <2>5, <2>6 DEF Next
<1>2. Init => NoStaleLock
  BY DEF Init, NoStaleLock
<1> QED
  BY <1>1, <1>2, RunsInductive, PTL DEF Spec

\* No recovery cycle starts a service with RestartService while restic copies
\* its data, in a tick with or without a backup of its own; a restart of the
\* Docker daemon may, where the configuration can ask for one.
THEOREM RecoveryHeldOff == Spec => []OnlyDockerIntrudes
<1>1. RunInv /\ [Next]_vars /\ OnlyDockerIntrudes => OnlyDockerIntrudes'
  <2> SUFFICES ASSUME RunInv, [Next]_vars, OnlyDockerIntrudes PROVE OnlyDockerIntrudes'
    OBVIOUS
  <2> USE DEF stateVars, threadVars, clockVars, observed
  <2>1. ASSUME NEW seen \in SUBSET running, NEW restart \in SUBSET Services, Recover(seen, restart)
        PROVE  OnlyDockerIntrudes'
    <3>1. phase.run \in Nat
      BY PhaseTypes DEF RunInv, IInv, TypeOK
    <3>2. ~IsFree(HeldBy(phase.run))
      BY <3>1, BackupAssumption DEF IsFree, HeldBy
    <3>3. \A w \in workers : w.stage = "backup" => restart \cap StopServices = {}
      <4> SUFFICES ASSUME NEW w \in workers, w.stage = "backup", NEW s \in StopServices
                   PROVE  s \notin restart
        OBVIOUS
      <4>1. leases[s] = HeldBy(phase.run)
        BY RunInvFacts
      <4> QED
        BY <2>1, <3>2, <4>1 DEF Recover
    <3> QED
      <4>1. Intrusion(restart, "RestartService") = {}
        BY <3>3 DEF Intrusion
      <4>2. CASE RestartServices(restart)
        BY <4>1, <4>2 DEF RestartServices, OnlyDockerIntrudes
      <4>3. CASE DockerRootCause(seen) /\ RestartServicesAndDocker(restart)
        <5>1. DockerRootCause({})
          BY <4>3 DEF DockerRootCause
        <5>2. intruded' \subseteq intruded \cup {"RestartDockerDaemon"}
          BY <4>1, <4>3 DEF RestartServicesAndDocker, Intrusion
        <5> QED
          BY <5>1, <5>2 DEF OnlyDockerIntrudes
      <4> QED
        BY <2>1, <4>2, <4>3 DEF Recover
  <2>2. CASE ProbeCycle \/ TickProbes
    BY <2>1, <2>2 DEF ProbeCycle, TickProbes
  <2>3. CASE ~ProbeCycle /\ ~TickProbes
    <3>1. intruded' = intruded \/ intruded' = {}
      BY <2>3
         DEF Next, StartBackup, Execute, LockRun, UnlockRepo, StopService, PersistPhase,
             SpawnRestic, SpawnFails, ReleaseRepo, RestoreService, RecoverUnlock, RecoverStart,
             RecoverPersist, StartupProbe, Restic, ResticEnds, Completion, EffectCompleted,
             UnexpectedEffect, Remediation, RemediationRestart, RemediationUnlock, Crash, Shutdown,
             ProcessEnds, Boot, World, ServiceStops, ServiceComesUp, WindowCloses, LeasesExpire,
             NextDay, vars
    <3> QED
      BY <3>1 DEF OnlyDockerIntrudes
  <2> QED
    BY <2>2, <2>3
<1>2. Init => OnlyDockerIntrudes
  BY DEF Init, OnlyDockerIntrudes
<1> QED
  BY <1>1, <1>2, RunsInductive, PTL DEF Spec

\* With fewer than two Docker services and no docker_daemon in the file,
\* recovery keeps off altogether.
THEOREM KeepsOffWithoutDocker ==
    ASSUME ~DockerRootCause({})
    PROVE  Spec => [](intruded = {})
<1>1. OnlyDockerIntrudes => intruded = {}
  BY DEF OnlyDockerIntrudes
<1> QED
  BY <1>1, RecoveryHeldOff, PTL

\* A run starts at most once on a day in one process, by schedule or trigger,
\* and however the last one ended.
THEOREM OneRunADay == Spec => OncePerDayAndProcess
<1>1. RunInv /\ [Next]_vars => (RunStarts => lastStart # <<crashes, day>>)
  <2> SUFFICES ASSUME RunInv, [Next]_vars, RunStarts PROVE lastStart # <<crashes, day>>
    OBVIOUS
  <2> USE DEF stateVars, threadVars, clockVars, observed
  <2>1. CASE StartBackup
    BY <2>1 DEF StartBackup, ShouldStart, RunInv, Chronicle
  <2>2. CASE ~StartBackup
    <3>1. CASE Completion
      <4>1. \A e \in events : EffectCompleted(e) => ~IsIdle(phase)
        BY DEF EffectCompleted, ResticCompleted, RetentionCompleted, VerifyCompleted, IsIdle
      <4> QED
        BY <3>1, <4>1 DEF Completion, UnexpectedEffect, RunStarts, IsIdle
    <3>2. CASE Crash \/ Shutdown
      BY <3>2 DEF Crash, Shutdown, ProcessEnds, RunStarts, IsIdle, Idle, Phase
    <3>3. CASE ~Completion /\ ~Crash /\ ~Shutdown
      <4>1. phase' = phase
        BY <2>2, <3>3
           DEF Next, Execute, TickProbes, Recover, LockRun, UnlockRepo, StopService, PersistPhase,
               SpawnRestic, SpawnFails, ReleaseRepo, RestoreService, RecoverUnlock, RecoverStart,
               RecoverPersist, StartupProbe, Restic, ResticEnds, ProbeCycle, Remediation,
               RemediationRestart, RemediationUnlock, Boot, World, ServiceStops, ServiceComesUp,
               WindowCloses, LeasesExpire, NextDay, vars
      <4> QED
        BY <4>1 DEF RunStarts, IsIdle
    <3> QED
      BY <3>1, <3>2, <3>3
  <2> QED
    BY <2>1, <2>2
<1> QED
  BY <1>1, RunsInductive, PTL DEF Spec, OncePerDayAndProcess

-----------------------------------------------------------------------------
(* The backup keeps the promise of Loan: Begin and Take for the reducer and *)
(* the commands that stop services, Copy for the write that names them, Work *)
(* for a thread, Return for a copy whose services are to be started, Onward  *)
(* for the steps after which nothing is lent.                                *)

\* The stage as a function of the position and the phase.
LEMMA StageIs ==
    /\ InStopWindow => Stage = "taking"
    /\ ~InStopWindow /\ pc \in {"restore", "recUnlock", "recStart"} => Stage = "returning"
    /\ ~InStopWindow /\ pc \notin {"restore", "recUnlock", "recStart"} =>
            /\ phase.tag = "Idle" => Stage = "none"
            /\ phase.tag = "ResticRunning" => Stage = "copying"
            /\ phase.tag = "RetentionRunning" => Stage = "pruning"
            /\ phase.tag = "Verifying" => Stage = "checking"
BY DEF Stage

\* A thread exists at the loop only, and only in a run.
LEMMA NoThread ==
    ASSUME RunInv, pc # "loop" \/ IsIdle(phase)
    PROVE  workers = {}
BY DEF RunInv, Threads

LEMMA StageFrame ==
    ASSUME UNCHANGED <<pc, phase, workers>>
    PROVE  UNCHANGED <<Stage, ResticOfStage>>
BY DEF Stage, ResticOfStage, InStopWindow, IsIdle

\* What is owed is on record as long as it only shrinks.
LEMMA RecordFrame ==
    ASSUME disk' = disk, owed' \subseteq owed, Recorded
    PROVE  Recorded'
BY DEF Recorded, CompensationStarts, PreBackupServices, NeedsServiceRecovery

LEMMA LoanFrame ==
    ASSUME UNCHANGED <<Stage, ResticOfStage, owed, disk>>, WritesSucceeded' = WritesSucceeded
    PROVE  UNCHANGED LoanKept!loan
<1>1. Recorded' = Recorded
  BY DEF Recorded, CompensationStarts, PreBackupServices, NeedsServiceRecovery
<1> QED
  BY <1>1 DEF LoanKept!loan

\* Services that come up, by whatever action, are given back.
LEMMA GivesBack ==
    ASSUME UNCHANGED <<Stage, ResticOfStage, disk>>, WritesSucceeded' = WritesSucceeded,
           owed' \subseteq owed
    PROVE  LoanKept!GiveBack
<1>1. Recorded' \in {Recorded, TRUE}
  BY RecordFrame DEF Recorded
<1> QED
  BY <1>1 DEF LoanKept!GiveBack

\* A write of the phase while nothing is lent.
LEMMA WarnsAtMost ==
    ASSUME UNCHANGED <<Stage, ResticOfStage>>, owed = {}, owed' = {},
           WritesSucceeded' => WritesSucceeded
    PROVE  LoanKept!Warn \/ UNCHANGED LoanKept!loan
<1>1. Recorded' = Recorded
  BY DEF Recorded
<1>2. CASE WritesSucceeded' = WritesSucceeded
  BY <1>1, <1>2 DEF LoanKept!loan
<1>3. CASE ~WritesSucceeded' /\ WritesSucceeded
  BY <1>1, <1>3 DEF LoanKept!Warn
<1> QED
  BY <1>2, <1>3 DEF WritesSucceeded

\* Nothing is on loan at the first start.
LEMMA LoanBegins == Init => LoanKept!Free
<1> SUFFICES ASSUME Init PROVE LoanKept!Free
  OBVIOUS
<1>1. /\ pc = "off" /\ phase.tag = "Idle" /\ IsIdle(phase) /\ workers = {} /\ owed = {}
      /\ degraded = {}
  BY DEF Init, Idle, Phase, IsIdle
<1>2. Stage = "none" /\ ResticOfStage = "ahead"
  BY <1>1, StageIs DEF InStopWindow, ResticOfStage
<1>3. Recorded = TRUE /\ (~WritesSucceeded) = FALSE
  BY <1>1 DEF Recorded, WritesSucceeded
<1> QED
  BY <1>1, <1>2, <1>3 DEF LoanKept!Free

\* The facts of the invariants that the steps of a loan rest on.
LEMMA LoanFacts ==
    ASSUME RunInv
    PROVE  /\ phase \in BackupPhase /\ disk \in BackupPhase
           /\ todo \in SUBSET Services /\ owed \in SUBSET Services
           /\ IsIdle(phase) <=> phase.tag = "Idle"
           /\ Control /\ Accounts
           /\ pc # "loop" => workers = {}
           /\ IsIdle(phase) => workers = {}
BY NoThread DEF RunInv, IInv, TypeOK, IsIdle

\* The commands from the first of a run to the write that ends its stop loop.
LEMMA LoanTaken ==
    ASSUME RunInv,
           \/ TickProbes \/ LockRun \/ UnlockRepo
           \/ \E s \in Services : StopService(s)
           \/ PersistPhase
    PROVE  LoanKept!Step \/ UNCHANGED LoanKept!loan
<1> USE LoanFacts DEF stateVars, threadVars, clockVars, observed
<1>1. CASE TickProbes
  <2>1. /\ pc = "probeFirst" /\ pc' = "lock"
        /\ UNCHANGED <<phase, workers, disk, degraded>> /\ owed' \subseteq owed
    BY <1>1 DEF TickProbes, Recover, RestartServices, RestartServicesAndDocker, SystemctlStart
  <2>2. phase.tag = "ResticRunning"
    BY <2>1 DEF Control
  <2>3. UNCHANGED <<Stage, ResticOfStage>>
    BY <2>1, <2>2, StageIs DEF Stage, InStopWindow, ResticOfStage, IsIdle
  <2> QED
    BY <2>1, <2>3, GivesBack DEF LoanKept!Step, WritesSucceeded
<1>2. CASE LockRun
  <2>1. /\ pc = "lock" /\ pc' = "unlock" /\ UNCHANGED <<phase, workers, owed>>
        /\ degraded \subseteq degraded'
    BY <1>2 DEF LockRun, Persist
  <2>2. phase.tag = "ResticRunning" /\ owed = {}
    BY <2>1 DEF Control, Accounts
  <2>3. UNCHANGED <<Stage, ResticOfStage>>
    BY <2>1, <2>2 DEF Stage, InStopWindow, ResticOfStage, IsIdle
  <2> QED
    BY <2>1, <2>2, <2>3, WarnsAtMost DEF LoanKept!Step, WritesSucceeded
<1>3. CASE UnlockRepo
  <2>1. /\ pc = "unlock" /\ pc' \in {"persist", "stop"} /\ UNCHANGED <<phase, workers, owed, disk>>
        /\ degraded' \in {degraded, degraded \cup {"restic_unlock_failed"}}
    BY <1>3 DEF UnlockRepo, ResticUnlock
  <2>2. phase.tag = "ResticRunning"
    BY <2>1 DEF Control
  <2>3. UNCHANGED <<Stage, ResticOfStage>>
    BY <2>1, <2>2 DEF Stage, InStopWindow, ResticOfStage, IsIdle
  <2>4. WritesSucceeded' = WritesSucceeded
    BY <2>1 DEF WritesSucceeded
  <2> QED
    BY <2>1, <2>3, <2>4, LoanFrame
<1>4. ASSUME NEW s \in Services, StopService(s)
      PROVE  LoanKept!Step \/ UNCHANGED LoanKept!loan
  <2>1. /\ pc = "stop" /\ pc' \in {"persist", "stop"} /\ UNCHANGED <<phase, workers, disk, degraded>>
        /\ owed' = owed \/ owed' = owed \cup {s}
    BY <1>4 DEF StopService
  <2>2. phase.tag = "ResticRunning"
    BY <2>1 DEF Control
  <2>3. UNCHANGED <<Stage, ResticOfStage>> /\ Stage = "taking"
    BY <2>1, <2>2 DEF Stage, InStopWindow, ResticOfStage, IsIdle
  <2>4. WritesSucceeded' = WritesSucceeded
    BY <2>1 DEF WritesSucceeded
  <2>5. CASE owed' = owed
    BY <2>1, <2>3, <2>4, <2>5, LoanFrame
  <2>6. CASE owed' = owed \cup {s}
    <3>1. Recorded' \in {Recorded, FALSE}
      BY <2>1, <2>6 DEF Recorded, CompensationStarts, PreBackupServices, NeedsServiceRecovery
    <3>2. LoanKept!Take(s)
      BY <2>3, <2>4, <2>6, <3>1 DEF LoanKept!Take
    <3> QED
      BY <3>2 DEF LoanKept!Step
  <2> QED
    BY <2>1, <2>5, <2>6
<1>5. CASE PersistPhase /\ phase.tag = "ResticRunning"
  <2>1. /\ pc = "persist" /\ pc' = "spawn" /\ UNCHANGED <<phase, workers, owed>>
        /\ \/ disk' = phase /\ UNCHANGED degraded
           \/ disk' \in {disk, phase} /\ degraded' = degraded \cup {"backup_state_persist_failed"}
    BY <1>5 DEF PersistPhase, Persist, IsIdle
  <2>2. Stage = "taking" /\ Stage' = "copying" /\ UNCHANGED ResticOfStage
    BY <1>5, <2>1 DEF Stage, InStopWindow, ResticOfStage, IsIdle
  <2>3. owed \subseteq CompensationStarts(phase)
    BY <1>5, CompensationFacts DEF Accounts
  <2>4. disk' = phase => Recorded'
    BY <2>1, <2>3 DEF Recorded
  <2>5. disk' = disk => Recorded' = Recorded
    BY <2>1 DEF Recorded
  <2>6. Recorded' \in {Recorded, TRUE}
    BY <2>1, <2>4, <2>5 DEF Recorded
  <2>7. (~WritesSucceeded') \in {~WritesSucceeded, TRUE} /\ (Recorded' \/ ~WritesSucceeded')
    BY <2>1, <2>4 DEF WritesSucceeded
  <2>8. LoanKept!Copy
    BY <2>1, <2>2, <2>6, <2>7 DEF LoanKept!Copy
  <2> QED
    BY <2>8 DEF LoanKept!Step
<1>6. CASE PersistPhase /\ phase.tag # "ResticRunning"
  <2>1. /\ pc = "persist" /\ pc' \in {"release", "spawn"} /\ UNCHANGED <<phase, workers, owed>>
        /\ degraded \subseteq degraded'
    BY <1>6 DEF PersistPhase, Persist
  <2>2. owed = {}
    BY <1>6, <2>1 DEF Accounts
  <2>3. UNCHANGED <<Stage, ResticOfStage>>
    <3>1. phase.tag \in {"Idle", "RetentionRunning", "Verifying"}
      BY <1>6 DEF Control
    <3>2. UNCHANGED Stage
      BY <2>1, <3>1 DEF Stage, InStopWindow
    <3>3. UNCHANGED ResticOfStage
      BY <2>1 DEF ResticOfStage
    <3> QED
      BY <3>2, <3>3
  <2>4. owed' = {} /\ (WritesSucceeded' => WritesSucceeded)
    BY <2>1, <2>2 DEF WritesSucceeded
  <2>5. LoanKept!Warn \/ UNCHANGED LoanKept!loan
    BY <2>2, <2>3, <2>4, WarnsAtMost
  <2> QED
    BY <2>5 DEF LoanKept!Step
<1> QED
  BY <1>1, <1>2, <1>3, <1>4, <1>5, <1>6

\* The commands that end a list, and those of the compensation.
LEMMA LoanReturned ==
    ASSUME RunInv,
           \/ SpawnRestic \/ SpawnFails \/ ReleaseRepo
           \/ \E s \in Services : RestoreService(s)
           \/ RecoverUnlock
           \/ \E s \in Services : RecoverStart(s)
           \/ RecoverPersist \/ StartupProbe
    PROVE  LoanKept!Step \/ UNCHANGED LoanKept!loan
<1> USE LoanFacts DEF stateVars, threadVars, clockVars, observed
<1>1. CASE SpawnRestic \/ SpawnFails
  <2>1. /\ pc = "spawn" /\ pc' = "loop" /\ UNCHANGED <<phase, owed, disk, degraded>>
        /\ workers' = workers \/ workers' # {}
    BY <1>1 DEF SpawnRestic, SpawnFails
  <2>2. phase.tag \in {"ResticRunning", "RetentionRunning", "Verifying"} /\ workers = {}
    BY <2>1 DEF Control
  <2>3. /\ UNCHANGED Stage /\ Stage \in {"copying", "pruning", "checking"}
        /\ Stage = "copying" <=> phase.tag = "ResticRunning"
    BY <2>1, <2>2 DEF Stage, InStopWindow
  <2>4. ResticOfStage = "ahead" /\ ResticOfStage' \in {"works", "over"}
    BY <2>1, <2>2 DEF ResticOfStage, IsIdle
  <2>5. phase.tag # "ResticRunning" => owed = {}
    BY <2>1 DEF Accounts
  <2>6. Recorded' = Recorded /\ WritesSucceeded' = WritesSucceeded
    BY <2>1 DEF Recorded, WritesSucceeded
  <2>7. LoanKept!Work
    BY <2>1, <2>3, <2>4, <2>5, <2>6 DEF LoanKept!Work
  <2> QED
    BY <2>7 DEF LoanKept!Step
<1>2. CASE ReleaseRepo
  <2>1. /\ pc = "release" /\ pc' = "loop" /\ UNCHANGED <<phase, workers, owed, disk, degraded>>
    BY <1>2 DEF ReleaseRepo
  <2>2. phase.tag = "Idle" /\ IsIdle(phase)
    BY <2>1 DEF Control
  <2>3. UNCHANGED <<Stage, ResticOfStage>>
    BY <2>1, <2>2 DEF Stage, InStopWindow, ResticOfStage, IsIdle
  <2> QED
    BY <2>1, <2>3, LoanFrame DEF WritesSucceeded
<1>3. ASSUME NEW s \in Services, RestoreService(s) \/ RecoverStart(s)
      PROVE  LoanKept!Step \/ UNCHANGED LoanKept!loan
  <2>1. /\ pc \in {"restore", "recStart"} /\ pc' \in {pc, "persist", "recPersist"}
        /\ pc' # pc => todo \subseteq {s}
        /\ UNCHANGED <<phase, workers, disk, degraded>> /\ owed' = owed \ {s}
    BY <1>3 DEF RestoreService, RecoverStart, SystemctlStart
  <2>2. phase.tag \in {"Idle", "RetentionRunning"} /\ owed \subseteq todo
    BY <2>1 DEF Control, Accounts
  <2>3. WritesSucceeded' = WritesSucceeded
    BY <2>1 DEF WritesSucceeded
  <2>4. CASE pc' = pc
    <3>1. UNCHANGED <<Stage, ResticOfStage>>
      BY <2>1, <2>4, StageFrame
    <3>2. LoanKept!GiveBack
      BY <2>1, <2>3, <3>1, GivesBack
    <3> QED
      BY <3>2 DEF LoanKept!Step
  <2>5. CASE pc' # pc
    <3>1. Stage = "returning" /\ Stage' \in {"none", "pruning"}
      BY <2>1, <2>2, <2>5 DEF Stage, InStopWindow
    <3>2. ResticOfStage' = "ahead"
      BY <2>1, <2>5 DEF ResticOfStage
    <3>3. owed' = {}
      BY <2>1, <2>2, <2>5
    <3>4. Recorded' = TRUE
      BY <3>3 DEF Recorded
    <3>5. LoanKept!Onward
      BY <2>3, <3>1, <3>2, <3>3, <3>4 DEF LoanKept!Onward
    <3> QED
      BY <3>5 DEF LoanKept!Step
  <2> QED
    BY <2>4, <2>5
<1>4. CASE RecoverUnlock
  <2>1. /\ pc = "recUnlock" /\ pc' \in {"recPersist", "recStart"}
        /\ pc' = "recPersist" => todo = {}
        /\ UNCHANGED <<phase, workers, owed, disk>>
        /\ degraded' \in {degraded, degraded \cup {"restic_unlock_failed"}}
    BY <1>4 DEF RecoverUnlock, ResticUnlock
  <2>2. phase.tag = "Idle" /\ owed \subseteq todo
    BY <2>1 DEF Control, Accounts
  <2>3. WritesSucceeded' = WritesSucceeded
    BY <2>1 DEF WritesSucceeded
  <2>4. Stage = "returning" /\ ResticOfStage' = "ahead" /\ UNCHANGED ResticOfStage
    BY <2>1, <2>2 DEF Stage, InStopWindow, ResticOfStage
  <2>5. CASE pc' = "recStart"
    <3>1. UNCHANGED Stage
      BY <2>1, <2>2, <2>5 DEF Stage, InStopWindow
    <3> QED
      BY <2>1, <2>3, <2>4, <3>1, LoanFrame
  <2>6. CASE pc' = "recPersist"
    <3>1. Stage' = "none"
      BY <2>1, <2>2, <2>6 DEF Stage, InStopWindow
    <3>2. owed' = {}
      BY <2>1, <2>2, <2>6
    <3>3. Recorded' = TRUE
      BY <3>2 DEF Recorded
    <3>4. LoanKept!Onward
      BY <2>3, <2>4, <3>1, <3>2, <3>3 DEF LoanKept!Onward
    <3> QED
      BY <3>4 DEF LoanKept!Step
  <2> QED
    BY <2>1, <2>5, <2>6
<1>5. CASE RecoverPersist \/ StartupProbe
  <2>1. /\ pc \in {"recPersist", "probe"} /\ pc' \in {"probe", "loop"}
        /\ UNCHANGED <<phase, workers, owed>> /\ degraded \subseteq degraded'
    BY <1>5 DEF RecoverPersist, StartupProbe, Persist
  <2>2. phase.tag = "Idle" /\ IsIdle(phase) /\ owed = {} /\ workers = {}
    BY <2>1 DEF Control, Accounts
  <2>3. UNCHANGED <<Stage, ResticOfStage>>
    BY <2>1, <2>2 DEF Stage, InStopWindow, ResticOfStage, IsIdle
  <2>4. owed' = {} /\ (WritesSucceeded' => WritesSucceeded)
    BY <2>1, <2>2 DEF WritesSucceeded
  <2>5. LoanKept!Warn \/ UNCHANGED LoanKept!loan
    BY <2>2, <2>3, <2>4, WarnsAtMost
  <2> QED
    BY <2>5 DEF LoanKept!Step
<1> QED
  BY <1>1, <1>2, <1>3, <1>4, <1>5

\* What happens between two lists: a run begins, restic ends, its event comes.
LEMMA LoanRuns ==
    ASSUME RunInv, StartBackup \/ Restic \/ Completion
    PROVE  LoanKept!Step \/ UNCHANGED LoanKept!loan
<1> USE LoanFacts DEF stateVars, threadVars, clockVars, observed
<1>1. CASE StartBackup
  <2>1. /\ pc = "loop" /\ phase.tag = "Idle" /\ IsIdle(phase) /\ workers = {}
        /\ pc' \in {"lock", "probeFirst"} /\ phase'.tag = "ResticRunning"
        /\ UNCHANGED <<workers, owed, disk, degraded>>
    BY <1>1 DEF StartBackup, AtLoop, ShouldStart, Phase
  <2>2. Stage = "none" /\ Stage' = "taking"
    BY <2>1 DEF Stage, InStopWindow
  <2>3. UNCHANGED ResticOfStage
    BY <2>1 DEF ResticOfStage
  <2>4. owed = {}
    BY <2>1 DEF Accounts
  <2>5. Recorded' = Recorded /\ WritesSucceeded' = WritesSucceeded
    BY <2>1 DEF Recorded, WritesSucceeded, CompensationStarts, PreBackupServices,
                NeedsServiceRecovery
  <2>6. LoanKept!Begin
    BY <2>1, <2>2, <2>3, <2>4, <2>5 DEF LoanKept!Begin
  <2> QED
    BY <2>6 DEF LoanKept!Step
<1>2. ASSUME NEW w \in workers, NEW ok \in BOOLEAN, ResticEnds(w, ok)
      PROVE  LoanKept!Step \/ UNCHANGED LoanKept!loan
  <2>1. UNCHANGED <<pc, phase, owed, disk, degraded>> /\ workers' = workers \ {w}
    BY <1>2 DEF ResticEnds
  <2>2. pc = "loop" /\ ~IsIdle(phase)
    BY LoanFacts
  <2>3. workers' = {}
    <3>1. \A v \in workers : v.id = w.id /\ v.stage = w.stage
      BY RunInvFacts
    <3>2. workers \in SUBSET [id : Nat, stage : {"backup", "forget", "check"}]
      BY DEF RunInv, IInv, TypeOK
    <3> QED
      BY <2>1, <3>1, <3>2
  <2>4. UNCHANGED Stage
    BY <2>1 DEF Stage, InStopWindow
  <2>5. ResticOfStage = "works" /\ ResticOfStage' = "over"
    BY <2>1, <2>2, <2>3 DEF ResticOfStage, IsIdle
  <2>6. Recorded' = Recorded /\ WritesSucceeded' = WritesSucceeded
    BY <2>1 DEF Recorded, WritesSucceeded, CompensationStarts, PreBackupServices,
                NeedsServiceRecovery
  <2>7. LoanKept!WorkEnds
    BY <2>1, <2>4, <2>5, <2>6 DEF LoanKept!WorkEnds
  <2> QED
    BY <2>7 DEF LoanKept!Step
<1>3. ASSUME NEW e \in events, EffectCompleted(e)
      PROVE  LoanKept!Step \/ UNCHANGED LoanKept!loan
  <2>1. pc = "loop" /\ pending = e.id /\ UNCHANGED <<owed, disk, degraded, workers>>
    BY <1>3 DEF EffectCompleted, AtLoop
  <2>2. workers = {}
    BY <2>1 DEF RunInv, Threads
  <2>3. phase.tag \in {"ResticRunning", "RetentionRunning", "Verifying"}
    BY <1>3 DEF EffectCompleted, ResticCompleted, RetentionCompleted, VerifyCompleted
  <2>4. /\ pc' \in {"persist", "restore"}
        /\ \/ phase.tag = "ResticRunning" /\ phase'.tag \in {"RetentionRunning", "Idle"}
              /\ (pc' = "persist" => phase.pre = {})
           \/ phase.tag = "RetentionRunning" /\ phase'.tag \in {"Verifying", "Idle"}
              /\ pc' = "persist"
           \/ phase.tag = "Verifying" /\ phase'.tag = "Idle" /\ pc' = "persist"
    <3>1. CASE ResticCompleted(e.ok)
      BY <3>1 DEF ResticCompleted, BackupFailure, RestoreThenPersist, PreBackupServices, Idle, Phase
    <3>2. CASE RetentionCompleted(e.ok)
      BY <3>2 DEF RetentionCompleted, BackupFailure, RestoreThenPersist, PreBackupServices, Idle,
                  Phase
    <3>3. CASE VerifyCompleted
      BY <3>3 DEF VerifyCompleted, Idle, Phase
    <3> QED
      BY <1>3, <3>1, <3>2, <3>3 DEF EffectCompleted
  <2>5. ResticOfStage = "over" /\ ResticOfStage' = "ahead"
    BY <2>1, <2>2, <2>3, <2>4 DEF ResticOfStage
  <2>6. Recorded' = Recorded /\ WritesSucceeded' = WritesSucceeded
    BY <2>1 DEF Recorded, WritesSucceeded, CompensationStarts, PreBackupServices,
                NeedsServiceRecovery
  <2>7. CASE pc' = "restore"
    <3>1. Stage = "copying" /\ Stage' = "returning"
      BY <2>1, <2>4, <2>7 DEF Stage, InStopWindow
    <3>2. LoanKept!Return
      BY <2>1, <2>5, <2>6, <3>1 DEF LoanKept!Return
    <3> QED
      BY <3>2 DEF LoanKept!Step
  <2>8. CASE pc' = "persist"
    <3>1. owed = {}
      BY <2>1, <2>3, <2>4, <2>8 DEF Accounts
    <3>2. Recorded' = TRUE
      BY <2>1, <3>1 DEF Recorded
    <3>3. \/ Stage = "copying" /\ Stage' \in {"pruning", "none"}
          \/ Stage = "pruning" /\ Stage' \in {"checking", "none"}
          \/ Stage = "checking" /\ Stage' = "none"
      BY <2>1, <2>4, <2>8 DEF Stage, InStopWindow
    <3>4. LoanKept!Onward
      BY <2>1, <2>5, <2>6, <3>1, <3>2, <3>3 DEF LoanKept!Onward
    <3> QED
      BY <3>4 DEF LoanKept!Step
  <2> QED
    BY <2>4, <2>7, <2>8
<1>4. ASSUME NEW e \in events, UnexpectedEffect(e) PROVE UNCHANGED LoanKept!loan
  <2>1. UNCHANGED <<pc, phase, workers, owed, disk, degraded>>
    BY <1>4 DEF UnexpectedEffect
  <2> QED
    BY <2>1, StageFrame, LoanFrame DEF WritesSucceeded
<1> QED
  BY <1>1, <1>2, <1>3, <1>4 DEF Restic, Completion

\* The process ends, and the next one begins.
LEMMA LoanSurvives ==
    ASSUME RunInv, Crash \/ Shutdown \/ Boot
    PROVE  LoanKept!Step \/ UNCHANGED LoanKept!loan
<1> USE LoanFacts DEF stateVars, threadVars, clockVars, observed
<1>1. CASE Crash \/ Shutdown
  <2>1. /\ pc' = "off" /\ phase' = Idle /\ workers' = {} /\ degraded' = {} /\ disk' = disk
        /\ owed' = owed \cap CompensationStarts(disk)
    BY <1>1 DEF Crash, Shutdown, ProcessEnds
  <2>2. Stage' = "none" /\ ResticOfStage' = "ahead"
    BY <2>1 DEF Stage, InStopWindow, ResticOfStage, Idle, Phase
  <2>3. Recorded' = TRUE
    BY <2>1 DEF Recorded, CompensationStarts, PreBackupServices, NeedsServiceRecovery
  <2>4. (~WritesSucceeded') = FALSE
    BY <2>1 DEF WritesSucceeded
  <2>5. Recorded => owed' = owed
    BY <2>1 DEF Recorded
  <2>6. LoanKept!Die
    BY <2>1, <2>2, <2>3, <2>4, <2>5 DEF LoanKept!Die
  <2> QED
    BY <2>6 DEF LoanKept!Step
<1>2. CASE Boot
  <2>1. /\ pc = "off" /\ phase.tag = "Idle" /\ phase' = phase /\ workers = {}
        /\ UNCHANGED <<workers, disk, degraded>>
    BY <1>2 DEF Boot, Control
  <2>2. PICK p \in {disk} \cup (IF DiskMayFail THEN {Idle} ELSE {}) :
             /\ todo' = CompensationStarts(p)
             /\ pc' = CASE IsIdle(p) -> "probe"
                        [] NeedsResticUnlock(p) -> "recUnlock"
                        [] todo' # {} -> "recStart"
                        [] OTHER -> "recPersist"
             /\ owed' = owed \cap todo'
    BY <1>2 DEF Boot
  <2>3. Recorded /\ owed \subseteq CompensationStarts(disk)
    BY <2>1 DEF Accounts, Recorded
  <2>4. ~DiskMayFail => owed' = owed
    BY <2>2, <2>3
  <2>5. Recorded' = TRUE /\ Recorded = TRUE
    BY <2>1, <2>2, <2>3, RecordFrame DEF Recorded
  <2>6. /\ pc' \in {"probe", "recUnlock", "recStart", "recPersist"}
        /\ pc' \in {"probe", "recPersist"} => owed' = {}
    BY <2>2 DEF IsIdle, NeedsResticUnlock, CompensationStarts, NeedsServiceRecovery
  <2>7. /\ Stage = "none" /\ Stage' \in {"none", "returning"}
        /\ Stage' = "none" => pc' \in {"probe", "recPersist"}
    BY <2>1, <2>6 DEF Stage, InStopWindow
  <2>8. UNCHANGED ResticOfStage
    BY <2>1, <2>6 DEF ResticOfStage, IsIdle
  <2>9. WritesSucceeded' = WritesSucceeded
    BY <2>1 DEF WritesSucceeded
  <2>10. LoanKept!Restart
    BY <2>2, <2>4, <2>5, <2>6, <2>7, <2>8, <2>9 DEF LoanKept!Restart
  <2> QED
    BY <2>10 DEF LoanKept!Step
<1> QED
  BY <1>1, <1>2

\* What the loop does beside the backup, and the world.
LEMMA LoanBystanders ==
    ASSUME RunInv, ProbeCycle \/ Remediation \/ World
    PROVE  LoanKept!Step \/ UNCHANGED LoanKept!loan
<1>1. UNCHANGED <<pc, phase, workers, disk>> /\ WritesSucceeded' = WritesSucceeded
  BY DEF ProbeCycle, Recover, Remediation, RemediationRestart, RemediationUnlock, ResticUnlock,
         World, ServiceStops, ServiceComesUp, WindowCloses, LeasesExpire, NextDay,
         WritesSucceeded, stateVars, threadVars, clockVars, observed
<1>2. owed' \subseteq owed
  BY DEF ProbeCycle, Recover, RestartServices, RestartServicesAndDocker, SystemctlStart, Remediation, RemediationRestart, RemediationUnlock,
         World, ServiceStops, ServiceComesUp, WindowCloses, LeasesExpire, NextDay,
         stateVars, threadVars, clockVars, observed
<1>3. LoanKept!GiveBack
  BY <1>1, <1>2, StageFrame, GivesBack
<1> QED
  BY <1>3 DEF LoanKept!Step

\* Seen from the services, the backup is a Loan: with the days, leases, lists,
\* threads, events, failures and crashes of the daemon, whatever it stops is on
\* record or warned of before restic copies, is given back before restic goes
\* on, and outlives the process.
THEOREM BackupRefinesLoan == Spec => KeepsTheLoan
<1>1. RunInv /\ [Next]_vars => [LoanKept!Step]_(LoanKept!loan)
  <2> SUFFICES ASSUME RunInv, [Next]_vars PROVE LoanKept!Step \/ UNCHANGED LoanKept!loan
    OBVIOUS
  <2>1. CASE UNCHANGED vars
    <3>1. UNCHANGED <<pc, phase, workers, owed, disk, degraded>>
      BY <2>1 DEF vars, stateVars, threadVars, clockVars, observed
    <3> QED
      BY <3>1, StageFrame, LoanFrame DEF WritesSucceeded
  <2>2. CASE Next
    BY <2>2, LoanTaken, LoanReturned, LoanRuns, LoanSurvives, LoanBystanders DEF Next, Execute
  <2> QED
    BY <2>1, <2>2
<1> QED
  BY <1>1, LoanBegins, RunsInductive, PTL DEF Spec, KeepsTheLoan, LoanKept!Promise

=============================================================================
