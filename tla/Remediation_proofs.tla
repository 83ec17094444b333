------------------------- MODULE Remediation_proofs -------------------------
(***************************************************************************)
(* Maintenance keeps its time and its file for any services, limits,       *)
(* requests, crashes and failing writes.  The inductive invariant says,    *)
(* beside the types, that a write in progress writes what is in memory,    *)
(* and that memory - or the file, while there is no process - names the    *)
(* deadline of every maintenance that an operator ordered and that has not *)
(* ended yet.                                                              *)
(***************************************************************************)
EXTENDS Remediation, FiniteSetTheorems, TLAPS

\* The part of TypeOK the proofs need.
Typed ==
    /\ now \in Nat /\ bootAt \in Nat /\ bootAt <= now
    /\ up \in BOOLEAN /\ behind \in BOOLEAN /\ excused \in BOOLEAN
    /\ step \in Steps
    /\ maintenance \in Deadlines /\ meant \in Deadlines
    /\ name \in Deadlines /\ tmp \in Deadlines
    /\ disk \subseteq Deadlines

\* Only a running daemon writes, and it writes what is in memory.
Writing ==
    /\ step # "none" => up /\ tmp = maintenance
    /\ step = "renamed" => name = tmp

\* These deadlines are as ordered, but for what has ended.
Faithful(deadlines) ==
    \A s \in Services :
        IF deadlines[s] # None /\ Mono < deadlines[s]
        THEN meant[s] = bootAt + deadlines[s]
        ELSE meant[s] = None \/ meant[s] <= now

Promised ==
    ~excused => /\ up => Faithful(maintenance)
                /\ ~up => Faithful(name)

\* The file names what memory does, and perhaps what a load left aside.
Filed ==
    Free /\ ~behind /\ ~excused =>
        \A s \in Services :
            \/ name[s] = maintenance[s]
            \/ maintenance[s] = None /\ name[s] \in Nat /\ name[s] <= Mono

IInv == Typed /\ Writing /\ Promised /\ Filed

-----------------------------------------------------------------------------

LEMMA MonoType == Typed => Mono \in Nat
BY DEF Typed, Mono

LEMMA NobodyInMaintenance == NoMaintenance \in Deadlines
BY DEF NoMaintenance, Deadlines

LEMMA InitInv == Init => IInv
<1> SUFFICES ASSUME Init PROVE IInv
  OBVIOUS
<1> USE NobodyInMaintenance DEF Init, FileInit
<1>1. Typed
  <2>1. up \in BOOLEAN /\ behind \in BOOLEAN /\ excused \in BOOLEAN
    BY Zenon
  <2>2. now = 0 /\ bootAt = 0 /\ step = "none"
    OBVIOUS
  <2>3. /\ maintenance \in Deadlines /\ meant \in Deadlines
        /\ name \in Deadlines /\ tmp \in Deadlines /\ disk \subseteq Deadlines
    OBVIOUS
  <2> QED
    BY <2>1, <2>2, <2>3 DEF Typed, Steps
<1>2. Writing /\ Filed
  BY DEF Writing, Filed, Free
<1>3. Promised
  BY DEF Promised, Faithful, NoMaintenance
<1> QED
  BY <1>1, <1>2, <1>3 DEF IInv

-----------------------------------------------------------------------------
(* Orders *)

\* An order that changes the deadline of at most one service, and what its
\* operator was told with it.
LEMMA OrderInv ==
    ASSUME IInv, NEW target,
           NEW until \in Nat \cup {None}, NEW told \in Nat \cup {None},
           IF until # None THEN Mono < until /\ told = bootAt + until ELSE told = None,
           Free, SetMaintenance(target, until),
           meant' = [s \in Services |-> IF s = target THEN told ELSE meant[s]],
           Create(maintenance'),
           UNCHANGED <<now, bootAt, up, behind, excused>>
    PROVE  IInv'
<1> USE DEF Free
<1>1. maintenance' \in Deadlines /\ meant' \in Deadlines
  BY DEF SetMaintenance, IInv, Typed, Deadlines
<1>2. Typed'
  BY <1>1 DEF IInv, Typed, Create, Steps
<1>3. Writing' /\ Filed'
  BY DEF IInv, Writing, Filed, Create
<1>4. Promised'
  <2> SUFFICES ASSUME ~excused, NEW s \in Services
               PROVE  IF maintenance'[s] # None /\ Mono < maintenance'[s]
                      THEN meant'[s] = bootAt + maintenance'[s]
                      ELSE meant'[s] = None \/ meant'[s] <= now
    BY DEF Promised, Faithful, Mono
  <2>1. CASE s = target
    BY <2>1 DEF SetMaintenance
  <2>2. CASE s # target
    BY <2>2 DEF SetMaintenance, IInv, Promised, Faithful
  <2> QED
    BY <2>1, <2>2
<1> QED
  BY <1>2, <1>3, <1>4 DEF IInv

LEMMA MarkInv ==
    ASSUME IInv, NEW target, MarkMaintenance(target) PROVE IInv'
<1>1. /\ Mono + MaintenanceTime \in Nat /\ now + MaintenanceTime \in Nat
      /\ Mono < Mono + MaintenanceTime
      /\ now + MaintenanceTime = bootAt + (Mono + MaintenanceTime)
  BY RemediationAssumption DEF IInv, Typed, Mono
<1>2. Mono + MaintenanceTime # None
  BY <1>1, RemediationAssumption
<1> DEFINE until == Mono + MaintenanceTime
           told == now + MaintenanceTime
<1>3. /\ until \in Nat \cup {None} /\ told \in Nat \cup {None}
      /\ IF until # None THEN Mono < until /\ told = bootAt + until ELSE told = None
  BY <1>1, <1>2
<1>4. /\ Free /\ SetMaintenance(target, until) /\ Create(maintenance')
      /\ meant' = [s \in Services |-> IF s = target THEN told ELSE meant[s]]
      /\ UNCHANGED <<now, bootAt, up, behind, excused>>
  BY DEF MarkMaintenance
<1> HIDE DEF until, told
<1> QED
  BY <1>3, <1>4, OrderInv

LEMMA ClearInv ==
    ASSUME IInv, NEW target, ClearMaintenance(target) PROVE IInv'
<1>1. /\ Free /\ SetMaintenance(target, None) /\ Create(maintenance')
      /\ meant' = [s \in Services |-> IF s = target THEN None ELSE meant[s]]
      /\ UNCHANGED <<now, bootAt, up, behind, excused>>
  BY DEF ClearMaintenance
<1> QED
  BY <1>1, OrderInv

LEMMA RemediateInv ==
    ASSUME IInv, NEW action, NEW target, Remediate(action, target) PROVE IInv'
BY DEF IInv, Typed, Writing, Promised, Filed, Faithful, Free, Mono, Remediate, fileVars

-----------------------------------------------------------------------------
(* Writing and loading *)

LEMMA PersistInv == IInv /\ (PersistStep \/ PersistEnds) => IInv'
<1>1. ASSUME IInv, PersistStep PROVE IInv'
  <2> USE <1>1 DEF PersistStep, Sync, Rename, Flushed
  <2>1. up /\ tmp = maintenance /\ step # "none" /\ step' # "none"
    BY DEF IInv, Writing
  <2>2. name' \in Deadlines /\ tmp' = tmp /\ step' \in Steps
    BY DEF IInv, Typed, Steps
  <2>3. disk' \subseteq Deadlines
    BY DEF IInv, Typed
  <2>4. Typed'
    BY <2>2, <2>3 DEF IInv, Typed
  <2>5. Writing' /\ Filed'
    BY <2>1, <2>2 DEF Writing, Filed, Free
  <2>6. Promised'
    BY <2>1 DEF IInv, Promised, Faithful, Mono
  <2> QED
    BY <2>4, <2>5, <2>6 DEF IInv
<1>2. ASSUME IInv, PersistEnds PROVE IInv'
  <2> USE <1>2 DEF PersistEnds, SyncDir, Fail
  <2>1. up /\ step # "none" /\ step' = "none"
    BY DEF IInv, Writing
  <2>2. behind' \in BOOLEAN
    BY Zenon
  <2>3. name' = name /\ tmp' \in Deadlines /\ disk' \subseteq Deadlines
    BY DEF IInv, Typed
  <2>4. Typed'
    BY <2>1, <2>2, <2>3 DEF IInv, Typed, Steps
  <2>5. Writing'
    BY <2>1 DEF Writing
  <2>6. ~behind' => name = maintenance
    BY DEF IInv, Writing
  <2>7. Filed'
    BY <2>3, <2>6 DEF Filed
  <2>8. Promised'
    BY <2>1 DEF IInv, Promised, Faithful, Mono
  <2> QED
    BY <2>4, <2>5, <2>7, <2>8 DEF IInv
<1> QED
  BY <1>1, <1>2

LEMMA LoadInv == IInv /\ (Load \/ LoadFails) => IInv'
<1>1. ASSUME IInv, Load PROVE IInv'
  <2> USE <1>1 DEF Load, fileVars
  <2>1. Mono \in Nat /\ name \in Deadlines
    BY MonoType DEF IInv, Typed
  <2>2. \A s \in Services :
            maintenance'[s] = IF name[s] # None /\ name[s] > Mono THEN name[s] ELSE None
    OBVIOUS
  <2>3. maintenance' \in Deadlines
    BY <2>1 DEF Deadlines
  <2>4. up' \in BOOLEAN
    BY Zenon
  <2>5. Typed'
    BY <2>3, <2>4 DEF IInv, Typed
  <2>6. Writing'
    BY DEF IInv, Writing
  <2>7. Promised'
    <3> SUFFICES ASSUME ~excused, NEW s \in Services
                 PROVE  IF maintenance'[s] # None /\ Mono < maintenance'[s]
                        THEN meant[s] = bootAt + maintenance'[s]
                        ELSE meant[s] = None \/ meant[s] <= now
      BY DEF Promised, Faithful, Mono
    <3>1. name[s] \in Nat \cup {None}
      BY <2>1 DEF Deadlines
    <3>2. IF name[s] # None /\ Mono < name[s]
          THEN meant[s] = bootAt + name[s] ELSE meant[s] = None \/ meant[s] <= now
      BY DEF IInv, Promised, Faithful
    <3> QED
      BY <2>1, <2>2, <3>1, <3>2, RemediationAssumption
  <2>8. Filed'
    <3> SUFFICES ASSUME NEW s \in Services
                 PROVE  \/ name[s] = maintenance'[s]
                        \/ maintenance'[s] = None /\ name[s] \in Nat /\ name[s] <= Mono
      BY DEF Filed, Mono
    <3>1. name[s] \in Nat \cup {None}
      BY <2>1 DEF Deadlines
    <3> QED
      BY <2>1, <2>2, <3>1
  <2> QED
    BY <2>5, <2>6, <2>7, <2>8 DEF IInv
<1>2. ASSUME IInv, LoadFails PROVE IInv'
  <2> USE <1>2 DEF LoadFails, fileVars
  <2>1. up' \in BOOLEAN /\ excused' \in BOOLEAN
    BY Zenon
  <2>2. Typed'
    BY <2>1, NobodyInMaintenance DEF IInv, Typed
  <2>3. Writing' /\ Promised' /\ Filed'
    BY DEF IInv, Writing, Promised, Filed
  <2> QED
    BY <2>2, <2>3 DEF IInv
<1> QED
  BY <1>1, <1>2

-----------------------------------------------------------------------------
(* Ends of the daemon and of the host, and time *)

LEMMA CrashInv == IInv /\ Crash => IInv'
<1> SUFFICES ASSUME IInv, Crash PROVE IInv'
  OBVIOUS
<1> USE DEF Crash, Forget, Abandon
<1>1. up' \in BOOLEAN /\ behind' \in BOOLEAN /\ excused' \in BOOLEAN
  BY Zenon
<1>2. step' \in Steps /\ tmp' \in Deadlines
  BY DEF IInv, Typed, Steps
<1>3. Typed'
  BY <1>1, <1>2, NobodyInMaintenance DEF IInv, Typed
<1>4. Writing' /\ Filed'
  BY DEF Writing, Filed, Free
<1>5. Promised'
  <2> SUFFICES ASSUME ~excused', NEW s \in Services
               PROVE  IF name[s] # None /\ Mono < name[s]
                      THEN meant[s] = bootAt + name[s]
                      ELSE meant[s] = None \/ meant[s] <= now
    BY DEF Promised, Faithful, Mono
  <2>1. ~excused /\ step = "none" /\ ~behind /\ up
    OBVIOUS
  <2>2. \/ name[s] = maintenance[s]
        \/ maintenance[s] = None /\ name[s] \in Nat /\ name[s] <= Mono
    BY <2>1 DEF IInv, Filed, Free
  <2>3. IF maintenance[s] # None /\ Mono < maintenance[s]
        THEN meant[s] = bootAt + maintenance[s]
        ELSE meant[s] = None \/ meant[s] <= now
    BY <2>1 DEF IInv, Promised, Faithful
  <2>4. Mono \in Nat
    BY MonoType DEF IInv
  <2> QED
    BY <2>2, <2>3, <2>4
<1> QED
  BY <1>3, <1>4, <1>5 DEF IInv

LEMMA RebootInv == IInv /\ Reboot => IInv'
<1> SUFFICES ASSUME IInv, Reboot PROVE IInv'
  OBVIOUS
<1> USE DEF Reboot, Forget, Abandon, PowerLoss
<1>1. up' \in BOOLEAN /\ behind' \in BOOLEAN /\ excused' \in BOOLEAN
  BY Zenon
<1>2. step' = "none" /\ ~up' /\ excused'
  OBVIOUS
<1>3. name' \in Deadlines /\ tmp' \in Deadlines /\ disk' \subseteq Deadlines
  BY DEF IInv, Typed
<1>4. Typed'
  BY <1>1, <1>2, <1>3, NobodyInMaintenance DEF IInv, Typed, Steps
<1>5. Writing' /\ Filed' /\ Promised'
  BY <1>2 DEF Writing, Filed, Promised, Free
<1> QED
  BY <1>4, <1>5 DEF IInv

LEMMA TickInv == IInv /\ Tick => IInv'
<1> SUFFICES ASSUME IInv, Tick PROVE IInv'
  OBVIOUS
<1> USE DEF Tick, fileVars
<1>1. Typed'
  BY DEF IInv, Typed
<1>2. Writing'
  BY DEF IInv, Writing
<1>3. Mono \in Nat /\ Mono' = Mono + 1
  BY DEF IInv, Typed, Mono
<1>4. ASSUME NEW deadlines \in Deadlines, Faithful(deadlines)
      PROVE  Faithful(deadlines)'
  <2> SUFFICES ASSUME NEW s \in Services
               PROVE  IF deadlines[s] # None /\ Mono + 1 < deadlines[s]
                      THEN meant[s] = bootAt + deadlines[s]
                      ELSE meant[s] = None \/ meant[s] <= now + 1
    BY <1>3 DEF Faithful
  <2>1. deadlines[s] \in Nat \cup {None} /\ meant[s] \in Nat \cup {None}
    BY DEF IInv, Typed, Deadlines
  <2>2. IF deadlines[s] # None /\ Mono < deadlines[s]
        THEN meant[s] = bootAt + deadlines[s] ELSE meant[s] = None \/ meant[s] <= now
    BY <1>4 DEF Faithful
  <2>3. now = bootAt + Mono /\ now \in Nat /\ bootAt \in Nat
    BY DEF IInv, Typed, Mono
  <2> QED
    BY <1>3, <2>1, <2>2, <2>3
<1>5. maintenance \in Deadlines /\ name \in Deadlines
  BY DEF IInv, Typed
<1>6. Promised'
  <2>1. Faithful(maintenance) => Faithful(maintenance)'
    BY <1>4, <1>5
  <2>2. Faithful(name) => Faithful(name)'
    BY <1>4, <1>5
  <2> QED
    BY <2>1, <2>2 DEF IInv, Promised, Faithful
<1>7. Filed'
  BY <1>3 DEF IInv, Filed, Free
<1> QED
  BY <1>1, <1>2, <1>6, <1>7 DEF IInv

-----------------------------------------------------------------------------

LEMMA NextInv == IInv /\ [Next]_vars => IInv'
<1> SUFFICES ASSUME IInv, [Next]_vars PROVE IInv'
  OBVIOUS
<1>1. ASSUME NEW action, NEW target,
             \/ Remediate(action, target)
             \/ MarkMaintenance(target)
             \/ ClearMaintenance(target)
      PROVE  IInv'
  BY <1>1, RemediateInv, MarkInv, ClearInv
<1>2. CASE UNCHANGED vars
  BY <1>2 DEF IInv, Typed, Writing, Promised, Filed, Faithful, Free, Mono, vars, fileVars
<1> QED
  BY <1>1, <1>2, PersistInv, LoadInv, CrashInv, RebootInv, TickInv DEF Next

\* What memory and file say of the maintenance that was ordered.
THEOREM MaintenanceInductive == Spec => []IInv
<1>1. IInv /\ [Next]_vars => IInv'
  BY NextInv
<1> QED
  BY InitInv, <1>1, PTL DEF Spec

\* load_persisted_maintenance and exec_persist_maintenance: whatever crashes
\* and fails to be written, a service is in maintenance exactly until the time
\* its operator was promised, or the case is one of those that are excused.
THEOREM MaintenanceAsOrdered == Spec => []AsOrdered
<1>1. IInv => AsOrdered
  <2> SUFFICES ASSUME IInv, up, ~excused, NEW s \in Services
               PROVE  Active(s) <=> meant[s] # None /\ now < meant[s]
    BY DEF AsOrdered
  <2>1. maintenance[s] \in Nat \cup {None} /\ meant[s] \in Nat \cup {None}
    BY DEF IInv, Typed, Deadlines
  <2>2. IF maintenance[s] # None /\ Mono < maintenance[s]
        THEN meant[s] = bootAt + maintenance[s]
        ELSE meant[s] = None \/ meant[s] <= now
    BY DEF IInv, Promised, Faithful
  <2>3. now = bootAt + Mono /\ now \in Nat /\ bootAt \in Nat /\ Mono \in Nat
    BY DEF IInv, Typed, Mono
  <2>4. None \notin Nat
    BY RemediationAssumption
  <2> QED
    BY <2>1, <2>2, <2>3, <2>4 DEF Active
<1> QED
  BY <1>1, MaintenanceInductive, PTL

\* exec_persist_maintenance: the loop does not take the next event before the
\* file says what memory does, or a failure was seen.
THEOREM MaintenanceFiled == Spec => []FileAgrees
<1>1. IInv => FileAgrees
  BY DEF IInv, Filed, FileAgrees
<1> QED
  BY <1>1, MaintenanceInductive, PTL

-----------------------------------------------------------------------------
(* The rate limit                                                          *)
(*                                                                         *)
(* LimitHolds compares records with records; what a request is compared    *)
(* with is the clock.  The invariant counts against the clock: within the  *)
(* window that ends now, no more than the limit was accepted.  It outlives *)
(* the ring, from which records only drop out, and rejected records, which *)
(* count for the code and not here.                                        *)

Logged ==
    /\ log \in Seq([at : Nat, action : Actions, target : Targets, verdict : Verdicts])
    /\ Len(log) <= RingSize

\* The accepted orders that a request for the same would now find in its window.
Accepted(action, target) ==
    {i \in DOMAIN log : /\ log[i].verdict = "accepted"
                        /\ log[i].action = action /\ log[i].target = target
                        /\ log[i].at + Limits[action].window >= Mono}

WithinLimit ==
    \A action \in Limited, target \in Targets :
        Cardinality(Accepted(action, target)) <= Limits[action].count

\* LimitHolds speaks of the size of this set.
Alike(j) ==
    {i \in 1 .. j : /\ log[i].verdict = "accepted"
                    /\ log[i].action = log[j].action
                    /\ log[i].target = log[j].target
                    /\ log[i].at + Limits[log[j].action].window >= log[j].at}

RateInv == Logged /\ WithinLimit /\ LimitHolds

\* Moving the members of a set does not make them more.
LEMMA ShiftedCardinality ==
    ASSUME NEW S \in SUBSET Nat, NEW T, IsFiniteSet(T), NEW d \in Nat,
           \A i \in S : i + d \in T
    PROVE  IsFiniteSet(S) /\ Cardinality(S) <= Cardinality(T)
<1> DEFINE f == [i \in S |-> i + d]
<1>1. f \in [S -> T]
  OBVIOUS
<1>2. \A i, j \in S : f[i] = f[j] => i = j
  OBVIOUS
<1>3. f \in Injection(S, T)
  BY <1>1, <1>2 DEF Injection, IsInjective
<1> HIDE DEF f
<1> QED
  BY <1>3, FS_Injection

\* RingBuffer::push: the oldest record makes room when the ring is full.
LEMMA PushFacts ==
    ASSUME Logged, NEW r
    PROVE  \E d \in {0, 1} :
             /\ Len(Push(r)) = Len(log) - d + 1 /\ Len(log) - d \in Nat
             /\ Len(log) - d + 1 <= RingSize
             /\ \A i \in 1 .. Len(log) - d : Push(r)[i] = log[i + d]
             /\ Push(r)[Len(log) - d + 1] = r
<1>1. CASE Len(log) < RingSize
  <2>1. Push(r) = Append(log, r)
    BY <1>1 DEF Push
  <2>2. /\ Len(Push(r)) = Len(log) - 0 + 1 /\ Len(log) - 0 \in Nat
        /\ Len(log) - 0 + 1 <= RingSize
        /\ \A i \in 1 .. Len(log) - 0 : Push(r)[i] = log[i + 0]
        /\ Push(r)[Len(log) - 0 + 1] = r
    BY <1>1, <2>1, RemediationAssumption DEF Logged
  <2> QED
    BY <2>2
<1>2. CASE ~(Len(log) < RingSize)
  <2>1. Push(r) = Append(Tail(log), r) /\ Len(log) = RingSize /\ Len(log) \in Nat \ {0}
    BY <1>2, RemediationAssumption DEF Push, Logged
  <2>2. /\ Len(Tail(log)) = Len(log) - 1
        /\ \A i \in 1 .. Len(log) - 1 : Tail(log)[i] = log[i + 1]
        /\ Tail(log) \in Seq([at : Nat, action : Actions, target : Targets, verdict : Verdicts])
    BY <2>1 DEF Logged
  <2>3. /\ Len(Push(r)) = Len(log) - 1 + 1 /\ Len(log) - 1 \in Nat
        /\ Len(log) - 1 + 1 <= RingSize
        /\ \A i \in 1 .. Len(log) - 1 : Push(r)[i] = log[i + 1]
        /\ Push(r)[Len(log) - 1 + 1] = r
    BY <2>1, <2>2
  <2> QED
    BY <2>3
<1> QED
  BY <1>1, <1>2

LEMMA LimitHoldsAlike ==
    LimitHolds <=> \A j \in DOMAIN log : log[j].action \in Limited =>
                        Cardinality(Alike(j)) <= Limits[log[j].action].count
BY DEF LimitHolds, Alike

LEMMA AcceptedFacts ==
    ASSUME Logged, NEW action \in Limited, NEW target
    PROVE  /\ IsFiniteSet(Accepted(action, target))
           /\ Cardinality(Accepted(action, target)) \in Nat
           /\ Limits[action].window \in Nat /\ Limits[action].count \in Nat \ {0}
<1>1. DOMAIN log = 1 .. Len(log) /\ Len(log) \in Nat
  BY DEF Logged
<1>2. IsFiniteSet(1 .. Len(log))
  BY <1>1, FS_Interval
<1>3. Accepted(action, target) \in SUBSET (1 .. Len(log))
  BY <1>1 DEF Accepted
<1>4. IsFiniteSet(Accepted(action, target))
  BY <1>2, <1>3, FS_Subset
<1>5. Limits[action] \in [window : Nat, count : Nat \ {0}]
  BY RemediationAssumption
<1> QED
  BY <1>4, <1>5, FS_CardinalityType

\* Every request, accepted or not, adds one record.
LEMMA RequestInv ==
    ASSUME RateInv, Typed, NEW action \in Actions, NEW target \in Targets,
           log' = Push(Record(action, target)), UNCHANGED <<now, bootAt>>
    PROVE  RateInv'
<1> DEFINE r == Record(action, target)
<1>0. /\ r.at = Mono /\ r.action = action /\ r.target = target
      /\ r.verdict = Verdict(action, target)
      /\ Mono \in Nat /\ Mono' = Mono
  BY MonoType DEF Record, Mono
<1>1. r \in [at : Nat, action : Actions, target : Targets, verdict : Verdicts]
  BY <1>0 DEF Record, Verdict, Verdicts
<1> HIDE DEF r
<1>2. PICK d \in {0, 1} :
        /\ Len(Push(r)) = Len(log) - d + 1 /\ Len(log) - d \in Nat
        /\ Len(log) - d + 1 <= RingSize
        /\ \A i \in 1 .. Len(log) - d : Push(r)[i] = log[i + d]
        /\ Push(r)[Len(log) - d + 1] = r
  BY PushFacts DEF RateInv
<1>3. log' = Push(r)
  BY DEF r
<1>4. PICK last \in Nat : last = Len(log) - d + 1
  BY <1>2
<1>5. /\ Len(log') = last /\ last \in Nat \ {0} /\ last <= RingSize
      /\ \A i \in 1 .. last - 1 : i + d \in 1 .. Len(log) /\ log'[i] = log[i + d]
      /\ log'[last] = r
      /\ DOMAIN log = 1 .. Len(log)
  BY <1>2, <1>3, <1>4 DEF RateInv, Logged
<1>6. Logged'
  <2>1. log' \in Seq([at : Nat, action : Actions, target : Targets, verdict : Verdicts])
    <3>1. CASE Len(log) < RingSize
      BY <1>1, <1>3, <3>1 DEF RateInv, Logged, Push
    <3>2. CASE ~(Len(log) < RingSize)
      <4>1. log # <<>>
        BY <3>2, RemediationAssumption DEF RateInv, Logged
      <4> QED
        BY <1>1, <1>3, <3>2, <4>1 DEF RateInv, Logged, Push
    <3> QED
      BY <3>1, <3>2
  <2> QED
    BY <2>1, <1>5 DEF Logged
<1>7. DOMAIN log' = 1 .. last
  BY <1>5, <1>6 DEF Logged
<1>8. WithinLimit'
  <2> SUFFICES ASSUME NEW a \in Limited, NEW g \in Targets
               PROVE  Cardinality(Accepted(a, g)') <= Limits[a].count
    BY DEF WithinLimit
  <2>1. /\ IsFiniteSet(Accepted(a, g)) /\ Cardinality(Accepted(a, g)) \in Nat
        /\ Cardinality(Accepted(a, g)) <= Limits[a].count
        /\ Limits[a].window \in Nat /\ Limits[a].count \in Nat \ {0}
    BY AcceptedFacts DEF RateInv, WithinLimit
  <2>2. PICK rest : rest = Accepted(a, g)' \ {last}
    OBVIOUS
  <2>3. rest \in SUBSET Nat /\ \A i \in rest : i + d \in Accepted(a, g)
    BY <1>0, <1>5, <1>7, <2>2 DEF Accepted
  <2>4. IsFiniteSet(rest) /\ Cardinality(rest) <= Cardinality(Accepted(a, g))
    BY <2>1, <2>3, <1>2, ShiftedCardinality
  <2>5. CASE last \notin Accepted(a, g)'
    <3>1. Accepted(a, g)' = rest
      BY <2>2, <2>5
    <3>2. Cardinality(rest) \in Nat
      BY <2>4, FS_CardinalityType
    <3> QED
      BY <2>1, <2>4, <3>1, <3>2
  <2>6. CASE last \in Accepted(a, g)'
    <3>1. a = action /\ g = target /\ Verdict(action, target) = "accepted"
      BY <1>0, <1>5, <2>6 DEF Accepted
    <3>2. ~RateLimited(action, target)
      BY <3>1 DEF Verdict
    <3>3. PICK recent : recent = {i \in DOMAIN log : /\ log[i].at + Limits[a].window >= Mono
                                                     /\ log[i].action = a
                                                     /\ log[i].target = g}
      OBVIOUS
    <3>4. ~(Cardinality(recent) >= Limits[a].count)
      BY <3>1, <3>2, <3>3 DEF RateLimited
    <3>5. IsFiniteSet(recent)
      <4>1. IsFiniteSet(1 .. Len(log)) /\ recent \in SUBSET (1 .. Len(log))
        BY <1>5, <3>3, FS_Interval DEF RateInv, Logged
      <4> QED
        BY <4>1, FS_Subset
    <3>6. Accepted(a, g) \in SUBSET recent
      BY <3>3 DEF Accepted
    <3>7. Cardinality(Accepted(a, g)) <= Cardinality(recent) /\ Cardinality(recent) \in Nat
      BY <3>5, <3>6, FS_Subset, FS_CardinalityType
    <3>8. Cardinality(rest) < Limits[a].count /\ Cardinality(rest) \in Nat
      BY <2>1, <2>4, <3>4, <3>7, FS_CardinalityType
    <3>9. Accepted(a, g)' = rest \cup {last} /\ last \notin rest
      BY <2>2, <2>6
    <3>10. Cardinality(Accepted(a, g)') = Cardinality(rest) + 1
      BY <2>4, <3>9, FS_AddElement
    <3> QED
      BY <2>1, <3>8, <3>10
  <2> QED
    BY <2>5, <2>6
<1>9. LimitHolds'
  <2> SUFFICES ASSUME NEW j \in 1 .. last, log'[j].action \in Limited
               PROVE  Cardinality(Alike(j)') <= Limits[log'[j].action].count
    BY <1>7 DEF LimitHolds, Alike
  <2>1. CASE j = last
    <3>1. /\ Alike(last)' \in SUBSET Accepted(action, target)'
          /\ action \in Limited /\ log'[j].action = action
      BY <1>0, <1>5, <1>7, <2>1 DEF Alike, Accepted
    <3>2. /\ IsFiniteSet(Accepted(action, target)')
          /\ Cardinality(Accepted(action, target)') \in Nat
          /\ Cardinality(Accepted(action, target)') <= Limits[action].count
          /\ Limits[action].count \in Nat
      <4>1. IsFiniteSet(1 .. last) /\ Accepted(action, target)' \in SUBSET (1 .. last)
        BY <1>7, FS_Interval DEF Accepted
      <4>2. Limits[action].count \in Nat
        BY <3>1, RemediationAssumption
      <4> QED
        BY <1>8, <3>1, <4>1, <4>2, FS_Subset, FS_CardinalityType DEF WithinLimit
    <3>3. /\ Cardinality(Alike(last)') <= Cardinality(Accepted(action, target)')
          /\ Cardinality(Alike(last)') \in Nat
      BY <3>1, <3>2, FS_Subset, FS_CardinalityType
    <3> QED
      BY <2>1, <3>1, <3>2, <3>3
  <2>2. CASE j # last
    <3>1. j \in 1 .. last - 1 /\ j + d \in 1 .. Len(log) /\ log'[j] = log[j + d]
      BY <1>5, <2>2
    <3>2. Cardinality(Alike(j + d)) <= Limits[log[j + d].action].count
      BY <1>5, <3>1, LimitHoldsAlike DEF RateInv
    <3>3. IsFiniteSet(Alike(j + d))
      <4>1. j + d \in Int
        BY <3>1
      <4>2. IsFiniteSet(1 .. j + d)
        BY <4>1, FS_Interval
      <4>3. Alike(j + d) \in SUBSET (1 .. j + d)
        BY DEF Alike
      <4> QED
        BY <4>2, <4>3, FS_Subset
    <3>4. Alike(j)' \in SUBSET Nat /\ \A i \in Alike(j)' : i + d \in Alike(j + d)
      <4>1. Alike(j)' \in SUBSET (1 .. j)
        BY DEF Alike
      <4>2. ASSUME NEW i \in 1 .. j, i \in Alike(j)'
            PROVE  i + d \in Alike(j + d)
        <5>1. i \in 1 .. last - 1 /\ i + d \in 1 .. j + d
          BY <1>2, <1>4, <3>1
        <5>2. log'[i] = log[i + d] /\ log'[j] = log[j + d]
          BY <1>5, <3>1, <5>1
        <5>3. /\ log'[i].verdict = "accepted" /\ log'[i].action = log'[j].action
              /\ log'[i].target = log'[j].target
              /\ log'[i].at + Limits[log'[j].action].window >= log'[j].at
          BY <4>2 DEF Alike
        <5> QED
          BY <5>1, <5>2, <5>3 DEF Alike
      <4> QED
        BY <4>1, <4>2
    <3>5. /\ Cardinality(Alike(j)') <= Cardinality(Alike(j + d))
          /\ Cardinality(Alike(j)') \in Nat /\ Cardinality(Alike(j + d)) \in Nat
      BY <1>2, <3>3, <3>4, ShiftedCardinality, FS_CardinalityType
    <3>6. Limits[log[j + d].action].count \in Nat
      BY <3>1, RemediationAssumption
    <3> QED
      BY <3>1, <3>2, <3>5, <3>6
  <2> QED
    BY <2>1, <2>2
<1> QED
  BY <1>6, <1>8, <1>9 DEF RateInv

\* The window moves on with the clock and starts empty with each process.
LEMMA RateNext == IInv /\ RateInv /\ [Next]_vars => RateInv'
<1> SUFFICES ASSUME IInv, RateInv, [Next]_vars PROVE RateInv'
  OBVIOUS
<1>1. ASSUME NEW action \in Actions, NEW target \in Targets,
             \/ Remediate(action, target)
             \/ action = "MarkMaintenance" /\ MarkMaintenance(target)
             \/ action = "ClearMaintenance" /\ ClearMaintenance(target)
      PROVE  RateInv'
  <2>1. log' = Push(Record(action, target)) /\ UNCHANGED <<now, bootAt>> /\ Typed
    BY <1>1 DEF Remediate, MarkMaintenance, ClearMaintenance, IInv
  <2> QED
    BY <2>1, RequestInv
<1>2. ASSUME UNCHANGED log, Mono' \in Nat, Mono' >= Mono PROVE RateInv'
  <2>1. Logged' /\ LimitHolds'
    BY <1>2 DEF RateInv, Logged, LimitHolds
  <2>2. WithinLimit'
    <3> SUFFICES ASSUME NEW a \in Limited, NEW g \in Targets
                 PROVE  Cardinality(Accepted(a, g)') <= Limits[a].count
      BY DEF WithinLimit
    <3>1. /\ IsFiniteSet(Accepted(a, g)) /\ Cardinality(Accepted(a, g)) \in Nat
          /\ Cardinality(Accepted(a, g)) <= Limits[a].count
          /\ Limits[a].window \in Nat /\ Limits[a].count \in Nat
      BY AcceptedFacts DEF RateInv, WithinLimit
    <3>2. Accepted(a, g)' \in SUBSET Accepted(a, g)
      <4>1. Mono \in Nat
        BY MonoType DEF IInv
      <4>2. \A i \in DOMAIN log : log[i].at \in Nat
        <5>1. PICK Records : Records = [at : Nat, action : Actions, target : Targets,
                                        verdict : Verdicts]
          OBVIOUS
        <5>2. log \in Seq(Records)
          BY <5>1 DEF RateInv, Logged
        <5>3. \A i \in DOMAIN log : log[i] \in Records
          BY <5>2
        <5> QED
          BY <5>1, <5>3
      <4>3. ASSUME NEW i \in DOMAIN log, log[i].at + Limits[a].window >= Mono'
            PROVE  log[i].at + Limits[a].window >= Mono
        BY <1>2, <3>1, <4>1, <4>2, <4>3
      <4> QED
        BY <1>2, <4>3 DEF Accepted
    <3>3. Cardinality(Accepted(a, g)') <= Cardinality(Accepted(a, g))
          /\ Cardinality(Accepted(a, g)') \in Nat
      BY <3>1, <3>2, FS_Subset, FS_CardinalityType
    <3> QED
      BY <3>1, <3>3
  <2> QED
    BY <2>1, <2>2 DEF RateInv
<1>3. CASE Crash \/ Reboot
  <2>1. log' = <<>>
    BY <1>3 DEF Crash, Reboot, Forget
  <2>2. Logged' /\ LimitHolds'
    BY <2>1, RemediationAssumption DEF Logged, LimitHolds
  <2>3. WithinLimit'
    <3> SUFFICES ASSUME NEW a \in Limited, NEW g \in Targets
                 PROVE  Cardinality(Accepted(a, g)') <= Limits[a].count
      BY DEF WithinLimit
    <3>1. Accepted(a, g)' = {}
      BY <2>1 DEF Accepted
    <3>2. Limits[a].count \in Nat
      BY RemediationAssumption
    <3> QED
      BY <3>1, <3>2, FS_EmptySet
  <2> QED
    BY <2>2, <2>3 DEF RateInv
<1>4. CASE PersistStep \/ PersistEnds \/ Load \/ LoadFails \/ Tick \/ UNCHANGED vars
  <2>1. now \in Nat /\ bootAt \in Nat /\ bootAt <= now
    BY DEF IInv, Typed
  <2>2. UNCHANGED <<log, bootAt>> /\ (now' = now \/ now' = now + 1)
    BY <1>4 DEF PersistStep, PersistEnds, Load, LoadFails, Tick, vars
  <2>3. Mono' \in Nat /\ Mono' >= Mono
    BY <2>1, <2>2 DEF Mono
  <2> QED
    BY <1>2, <2>2, <2>3
<1> QED
  BY <1>1, <1>3, <1>4 DEF Next

\* remediation_rate_limited, for any limits, windows, targets and any size of
\* the ring: what the ring records as accepted never exceeds a limit.
THEOREM RateLimitKept == Spec => []LimitHolds
<1>1. Init => RateInv
  <2> SUFFICES ASSUME Init PROVE RateInv
    OBVIOUS
  <2>1. log = <<>>
    BY DEF Init
  <2>2. Logged /\ LimitHolds
    BY <2>1, RemediationAssumption DEF Logged, LimitHolds
  <2>3. WithinLimit
    <3> SUFFICES ASSUME NEW a \in Limited, NEW g \in Targets
                 PROVE  Cardinality(Accepted(a, g)) <= Limits[a].count
      BY DEF WithinLimit
    <3>1. Accepted(a, g) = {} /\ Limits[a].count \in Nat
      BY <2>1, RemediationAssumption DEF Accepted
    <3> QED
      BY <3>1, FS_EmptySet
  <2> QED
    BY <2>2, <2>3 DEF RateInv
<1>2. RateInv => LimitHolds
  BY DEF RateInv
<1> QED
  BY <1>1, <1>2, RateNext, MaintenanceInductive, PTL DEF Spec

=============================================================================
