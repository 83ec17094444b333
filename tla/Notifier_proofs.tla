---------------------------- MODULE Notifier_proofs ----------------------------
(***************************************************************************)
(* The notifier keeps the promise of the durable outbox for every set of   *)
(* alerts, size of queue and outbox, number of retries, crashes and        *)
(* failing system calls, whatever the wall clock shows.  The inductive     *)
(* invariant says, beside the types, that memory owes what the disk        *)
(* guarantees (Kept) and that a write in progress writes what is in        *)
(* memory.                                                                 *)
(***************************************************************************)
EXTENDS Notifier, FiniteSetTheorems, TLAPS

\* The part of TypeOK the proofs need: who is sent, what is recorded.
Typed ==
    /\ queue \in Seq(Alerts)
    /\ pc \in PCs /\ step \in Steps
    /\ step # "none" <=> pc \in SavePoints
    /\ entries \in Seq(Record)
    /\ todo \in Seq(Alerts)
    /\ name \in Seq(Record)
    /\ tmp \in Seq(Record)
    /\ disk \subseteq Seq(Record)
    /\ pc \in {"resend", "send", "save_new", "save_mark"} => current \in Alerts
    /\ overflow \in BOOLEAN

\* A write in progress writes the outbox as it is in memory.
Writing ==
    /\ step # "none" => tmp = entries
    /\ step = "renamed" => name = tmp
    /\ disk # {}

IInv == Typed /\ Writing /\ Kept

-----------------------------------------------------------------------------
(* The operations on the outbox and what they owe *)

\* What an order of some indexes picks.
LEMMA OrderPicks ==
    ASSUME NEW records \in Seq(Record), NEW I \in SUBSET DOMAIN records, NEW q \in Orders(I)
    PROVE  /\ Pick(records, q) \in Seq(Record)
           /\ DOMAIN Pick(records, q) = DOMAIN q /\ DOMAIN q \subseteq Nat
           /\ \A k \in DOMAIN q : q[k] \in I /\ Pick(records, q)[k] = records[q[k]]
           /\ \A k, l \in DOMAIN q : q[k] = q[l] => k = l
           /\ \A i \in I : \E k \in DOMAIN q : q[k] = i
<1> DEFINE n == Cardinality(I)
<1>1. n \in Nat
  <2>1. DOMAIN records = 1 .. Len(records) /\ Len(records) \in Nat
    OBVIOUS
  <2>2. IsFiniteSet(1 .. Len(records))
    BY <2>1, FS_Interval
  <2>3. IsFiniteSet(I)
    BY <2>1, <2>2, FS_Subset
  <2> QED
    BY <2>3, FS_CardinalityType
<1>2. q \in [1 .. n -> I] /\ IsInjective(q) /\ \A i \in I : \E k \in 1 .. n : q[k] = i
  BY DEF Orders, Bijection, Injection, Surjection
<1>3. DOMAIN q = 1 .. n
  BY <1>2
<1>4. \A k \in 1 .. n : q[k] \in I /\ records[q[k]] \in Record
  BY <1>2
<1>5. Pick(records, q) = [k \in 1 .. n |-> records[q[k]]]
  BY <1>3 DEF Pick
<1>6. Pick(records, q) \in [1 .. n -> Record]
  BY <1>4, <1>5
<1>7. Pick(records, q) \in Seq(Record)
  BY <1>1, <1>6
<1> QED
  BY <1>1, <1>2, <1>3, <1>4, <1>5, <1>7 DEF IsInjective

LEMMA RecordFields ==
    ASSUME NEW records \in Seq(Record), NEW i \in DOMAIN records
    PROVE  /\ records[i].id \in Alerts /\ records[i].at \in Nat
           /\ records[i].delivered \in BOOLEAN
<1>1. records[i] \in Record
  OBVIOUS
<1> QED
  BY <1>1, NotifierAssumption DEF Record

\* What is not of the alert that is marked stays owed.
LEMMA MarkOwes ==
    ASSUME NEW a \in Alerts, NEW b \in Alerts, b # a, NEW records \in Seq(Record),
           b \in Owed(records)
    PROVE  b \in Owed(Mark(a, records))
<1> DEFINE out == Mark(a, records)
<1>1. PICK i \in DOMAIN records : records[i].id = b /\ Stays(i, records) /\ ~records[i].delivered
  BY DEF Owed
<1>2. DOMAIN out = DOMAIN records
  BY DEF Mark
<1>3. \A j \in DOMAIN records : out[j].id = records[j].id /\ out[j].at = records[j].at
  BY DEF Mark, Record
<1>4. out[i] = records[i]
  BY <1>1 DEF Mark
<1>5. Stays(i, out)
  BY <1>1, <1>2, <1>3 DEF Stays
<1> QED
  BY <1>1, <1>2, <1>4, <1>5 DEF Owed

LEMMA MarkTyped ==
    ASSUME NEW a \in Alerts, NEW records \in Seq(Record)
    PROVE  Mark(a, records) \in Seq(Record)
<1>1. DOMAIN records = 1 .. Len(records) /\ Len(records) \in Nat
  OBVIOUS
<1>2. \A e \in Record : [e EXCEPT !.delivered = TRUE] \in Record
  BY DEF Record
<1>3. \A i \in 1 .. Len(records) : records[i] \in Record
  OBVIOUS
<1>4. Mark(a, records) \in [1 .. Len(records) -> Record]
  BY <1>1, <1>2, <1>3 DEF Mark
<1> QED
  BY <1>1, <1>4

\* Loading keeps what is owed.
LEMMA LoadOwes ==
    ASSUME NEW a \in Alerts, NEW records \in Seq(Record), NEW out \in Loads(records)
    PROVE  a \in Owed(records) => a \in Owed(out)
<1> DEFINE I == {i \in DOMAIN records : Stays(i, records)}
<1>1. PICK q \in Orders(I) : out = Pick(records, q)
  BY DEF Loads
<1>2. I \in SUBSET DOMAIN records
  OBVIOUS
<1> HIDE DEF I
<1>3. /\ out \in Seq(Record)
      /\ DOMAIN out = DOMAIN q /\ DOMAIN q \subseteq Nat
      /\ \A k \in DOMAIN q : q[k] \in I /\ out[k] = records[q[k]]
      /\ \A k, l \in DOMAIN q : q[k] = q[l] => k = l
      /\ \A i \in I : \E k \in DOMAIN q : q[k] = i
  BY <1>1, <1>2, OrderPicks
<1>4. ASSUME a \in Owed(records) PROVE a \in Owed(out)
  <2>1. PICK i \in DOMAIN records : records[i].id = a /\ Stays(i, records) /\ ~records[i].delivered
    BY <1>4 DEF Owed
  <2>2. PICK k \in DOMAIN q : q[k] = i
    BY <1>3, <2>1 DEF I
  <2>3. ASSUME NEW l \in DOMAIN out, out[l].id = a PROVE l = k
    <3>1. q[l] \in DOMAIN records /\ Stays(q[l], records) /\ records[q[l]].id = a
      BY <1>3, <2>3 DEF I
    <3>2. i \in Nat /\ q[l] \in Nat /\ records[i].at \in Nat /\ records[q[l]].at \in Nat
      BY <2>1, <3>1, RecordFields
    <3>3. \/ records[q[l]].at < records[i].at
          \/ records[q[l]].at = records[i].at /\ i <= q[l]
      BY <2>1, <3>1 DEF Stays
    <3>4. \/ records[i].at < records[q[l]].at
          \/ records[i].at = records[q[l]].at /\ q[l] <= i
      BY <2>1, <3>1 DEF Stays
    <3>5. q[l] = i
      BY <3>2, <3>3, <3>4
    <3> QED
      BY <1>3, <2>2, <2>3, <3>5
  <2>4. k \in DOMAIN out /\ k \in Nat /\ out[k] = records[i]
    BY <1>3, <2>2
  <2>5. Stays(k, out)
    BY <2>1, <2>3, <2>4 DEF Stays
  <2> QED
    BY <2>1, <2>4, <2>5 DEF Owed
<1> QED
  BY <1>4

LEMMA LoadTyped ==
    ASSUME NEW records \in Seq(Record), NEW out \in Loads(records)
    PROVE  out \in Seq(Record)
<1> DEFINE I == {i \in DOMAIN records : Stays(i, records)}
<1>1. PICK q \in Orders(I) : out = Pick(records, q)
  BY DEF Loads
<1>2. I \in SUBSET DOMAIN records
  OBVIOUS
<1> HIDE DEF I
<1> QED
  BY <1>1, <1>2, OrderPicks

LEMMA NewRecordTyped ==
    ASSUME NEW a \in Alerts, NEW t \in Readings
    PROVE  NewRecord(a, t) \in Record
BY DEF NewRecord, Record

\* A new record leaves what is owed alone, and makes its alert owed if it is
\* dated after the earlier ones.
LEMMA AppendOwes ==
    ASSUME NEW a \in Alerts, NEW t \in Readings, NEW b \in Alerts, NEW records \in Seq(Record),
           \/ b \in Owed(records)
           \/ b = a /\ \A i \in DOMAIN records : records[i].id = a => ~(records[i].at >= t)
    PROVE  b \in Owed(Append(records, NewRecord(a, t)))
<1> DEFINE r == NewRecord(a, t)
           more == Append(records, r)
           n == Len(records) + 1
<1>1. /\ r \in Record /\ r.id = a /\ r.at = t /\ ~r.delivered /\ t \in Nat
  BY NewRecordTyped, NotifierAssumption DEF NewRecord
<1> HIDE DEF r
<1>2. /\ DOMAIN more = DOMAIN records \cup {n} /\ n \in Nat /\ more[n] = r
      /\ \A i \in DOMAIN records : more[i] = records[i] /\ i \in Nat /\ i < n
  BY <1>1
<1>3. \A i \in DOMAIN records : records[i].at \in Nat
  BY RecordFields
<1> HIDE DEF more, n
<1>4. ASSUME \A i \in DOMAIN records : records[i].id = a => records[i].at < t
      PROVE  a \in Owed(more)
  <2>1. Stays(n, more)
    BY <1>1, <1>2, <1>4 DEF Stays
  <2> QED
    BY <1>1, <1>2, <2>1 DEF Owed
<1>5. ASSUME b \in Owed(records) PROVE b \in Owed(more)
  <2>1. PICK i \in DOMAIN records : records[i].id = b /\ Stays(i, records) /\ ~records[i].delivered
    BY <1>5 DEF Owed
  <2>2. CASE b = a /\ records[i].at < t
    <3>1. \A j \in DOMAIN records : records[j].id = a => records[j].at < t
      BY <1>1, <1>3, <2>1, <2>2 DEF Stays
    <3> QED
      BY <1>4, <2>2, <3>1
  <2>3. CASE b # a \/ ~(records[i].at < t)
    <3>1. Stays(i, more)
      BY <1>1, <1>2, <1>3, <2>1, <2>3 DEF Stays
    <3> QED
      BY <1>2, <2>1, <3>1 DEF Owed
  <2> QED
    BY <2>2, <2>3
<1>6. CASE b = a /\ \A i \in DOMAIN records : records[i].id = a => ~(records[i].at >= t)
  <2>1. \A i \in DOMAIN records : records[i].id = a => records[i].at < t
    <3> SUFFICES ASSUME NEW i \in DOMAIN records, records[i].id = a PROVE records[i].at < t
      OBVIOUS
    <3>1. ~(records[i].at >= t)
      BY <1>6
    <3> QED
      BY <1>1, <1>3, <3>1
  <2> QED
    BY <1>4, <1>6, <2>1 DEF more, r
<1> QED
  BY <1>5, <1>6 DEF more, r

\* Compaction keeps what is owed, or an undelivered record is lost.
LEMMA CompactOwes ==
    ASSUME NEW a \in Alerts, NEW records \in Seq(Record), NEW out \in Compacts(records)
    PROVE  /\ out \in Seq(Record)
           /\ a \in Owed(records) /\ ~UndeliveredLost(records) => a \in Owed(out)
<1>1. CASE Len(records) <= OutboxMax
  BY <1>1 DEF Compacts
<1>2. CASE ~(Len(records) <= OutboxMax)
  <2> DEFINE I == DOMAIN records \ Evicted(records)
  <2>1. PICK q \in Orders(I) : /\ out = Pick(records, q)
                               /\ \A k, l \in DOMAIN q : k < l => Before(q[k], q[l], records)
    BY <1>2 DEF Compacts
  <2>2. I \in SUBSET DOMAIN records
    OBVIOUS
  <2> HIDE DEF I
  <2>3. /\ out \in Seq(Record)
        /\ DOMAIN out = DOMAIN q /\ DOMAIN q \subseteq Nat
        /\ \A k \in DOMAIN q : q[k] \in I /\ out[k] = records[q[k]]
        /\ \A i \in I : \E k \in DOMAIN q : q[k] = i
    BY <2>1, <2>2, OrderPicks
  <2>4. ASSUME a \in Owed(records), ~UndeliveredLost(records) PROVE a \in Owed(out)
    <3>1. PICK i \in DOMAIN records :
            records[i].id = a /\ Stays(i, records) /\ ~records[i].delivered
      BY <2>4 DEF Owed
    <3>2. i \in I
      <4>1. Len(records) > OutboxMax
        BY <1>2, NotifierAssumption
      <4> QED
        BY <2>4, <3>1, <4>1 DEF UndeliveredLost, I
    <3>3. PICK k \in DOMAIN q : q[k] = i
      BY <2>3, <3>2
    <3>4. ASSUME NEW l \in DOMAIN out, out[l].id = a
          PROVE  out[l].at < out[k].at \/ (out[l].at = out[k].at /\ k <= l)
      <4>1. /\ q[l] \in DOMAIN records /\ records[q[l]].id = a /\ l \in Nat /\ k \in Nat
            /\ out[l] = records[q[l]] /\ out[k] = records[i] /\ l \in DOMAIN q
        BY <2>2, <2>3, <3>3, <3>4
      <4>2. \/ records[q[l]].at < records[i].at
            \/ records[q[l]].at = records[i].at /\ i <= q[l]
        BY <3>1, <4>1 DEF Stays
      <4>3. /\ i \in Nat /\ q[l] \in Nat
            /\ records[i].at \in Nat /\ records[q[l]].at \in Nat
        BY <3>1, <4>1, RecordFields
      <4>4. ASSUME l < k PROVE Before(q[l], i, records)
        BY <2>1, <3>3, <4>1, <4>4
      <4>5. l < k => \/ records[q[l]].at < records[i].at
                     \/ records[q[l]].at = records[i].at /\ q[l] < i
        BY <4>4 DEF Before
      <4> QED
        BY <4>1, <4>2, <4>3, <4>5
    <3>5. k \in DOMAIN out /\ out[k] = records[i]
      BY <2>3, <3>3
    <3>6. Stays(k, out)
      BY <3>1, <3>4, <3>5 DEF Stays
    <3> QED
      BY <3>1, <3>5, <3>6 DEF Owed
  <2> QED
    BY <2>3, <2>4
<1> QED
  BY <1>1, <1>2

-----------------------------------------------------------------------------
(* The invariant *)

LEMMA InitInv == Init => IInv
<1> SUFFICES ASSUME Init PROVE IInv
  OBVIOUS
<1>1. Typed
  <2>1. overflow \in BOOLEAN
    BY Zenon DEF Init
  <2>2. queue \in Seq(Alerts)
    BY DEF Init
  <2>3. pc = "down" /\ step = "none" /\ entries = <<>> /\ todo = <<>>
    BY DEF Init, FileInit
  <2>4. name = <<>> /\ tmp = <<>> /\ disk = {<<>>}
    BY DEF Init, FileInit
  <2> QED
    BY <2>1, <2>2, <2>3, <2>4 DEF Typed, PCs, Steps, SavePoints
<1>2. Writing /\ Kept
  BY DEF Init, FileInit, Writing, Kept
<1> QED
  BY <1>1, <1>2 DEF IInv

\* When the file and the outbox in memory stay as they are, so does what is
\* kept of it, as long as nothing is raised.
LEMMA KeptAlone ==
    ASSUME IInv, UNCHANGED <<entries, name, disk, misdated, unread>>, pc # "down",
           received \subseteq received', overflow' = overflow,
           pc' \in {"save_new", "send"} => pc \in {"save_new", "send"} /\ current' = current
    PROVE  Kept'
BY DEF IInv, Kept, Excused, Guaranteed, Owed, Stays

LEMMA StartInv == IInv /\ (Start \/ StartUnread) => IInv'
<1>1. ASSUME IInv, Start PROVE IInv'
  <2> USE <1>1 DEF Start, fileVars, volatile, observed
  <2>1. entries' \in Loads(name) /\ name \in Seq(Record)
    BY DEF IInv, Typed
  <2>2. entries' \in Seq(Record)
    BY <2>1, LoadTyped
  <2>3. todo' \in Seq(Alerts)
    <3> DEFINE I == {i \in DOMAIN entries' : ~entries'[i].delivered}
    <3>1. PICK q \in Orders(I) : todo' = [k \in DOMAIN q |-> entries'[q[k]].id]
      OBVIOUS
    <3>2. I \in SUBSET DOMAIN entries'
      OBVIOUS
    <3>3. /\ Pick(entries', q) \in Seq(Record)
          /\ DOMAIN Pick(entries', q) = DOMAIN q
          /\ \A k \in DOMAIN q : q[k] \in DOMAIN entries'
      BY <2>2, <3>2, OrderPicks
    <3>4. DOMAIN q = 1 .. Len(Pick(entries', q)) /\ Len(Pick(entries', q)) \in Nat
      BY <3>3
    <3>5. \A k \in DOMAIN q : entries'[q[k]].id \in Alerts
      BY <2>2, <3>3, RecordFields
    <3>6. todo' \in [1 .. Len(Pick(entries', q)) -> Alerts]
      BY <3>1, <3>4, <3>5
    <3> QED
      BY <3>4, <3>6
  <2>4. pc' \in {"idle", "replay"} /\ step = "none"
    BY DEF IInv, Typed, SavePoints
  <2>5. UNCHANGED <<queue, step, name, tmp, disk, overflow>>
    OBVIOUS
  <2>6. Typed'
    BY <2>2, <2>3, <2>4, <2>5 DEF IInv, Typed, PCs, Steps, SavePoints
  <2>7. Writing'
    BY <2>4, <2>5 DEF IInv, Writing
  <2>8. Kept'
    <3>1. ASSUME NEW a \in Guaranteed' PROVE a \in Owed(entries)'
      <4>1. a \in Alerts /\ a \in Owed(name)
        BY <3>1, <2>5 DEF Guaranteed, Owed, Stays
      <4>2. a \in Owed(entries')
        BY <2>1, <4>1, LoadOwes
      <4> QED
        BY <4>2 DEF Owed, Stays
    <3> QED
      BY <2>4, <3>1 DEF Kept
  <2> QED
    BY <2>6, <2>7, <2>8 DEF IInv
<1>2. ASSUME IInv, StartUnread PROVE IInv'
  <2> USE <1>2 DEF StartUnread, fileVars, volatile
  <2>1. step = "none" /\ UNCHANGED <<queue, step, name, tmp, disk, overflow>>
    BY DEF IInv, Typed, SavePoints
  <2>2. pc' = "idle" /\ entries' = <<>> /\ todo' = <<>> /\ unread' = TRUE
    OBVIOUS
  <2>3. Typed'
    BY <2>1, <2>2 DEF IInv, Typed, PCs, Steps, SavePoints
  <2>4. Writing' /\ Kept'
    BY <2>1, <2>2 DEF IInv, Writing, Kept
  <2> QED
    BY <2>3, <2>4 DEF IInv
<1> QED
  BY <1>1, <1>2

LEMMA ReplayInv == IInv /\ (ReplayNext \/ ReplayEnds) => IInv'
<1>1. ASSUME IInv, ReplayNext PROVE IInv'
  <2> USE <1>1 DEF ReplayNext, fileVars, volatile, observed
  <2>1. Typed'
    BY DEF IInv, Typed, PCs, Steps, SavePoints
  <2>2. Writing'
    BY DEF IInv, Typed, SavePoints, Writing
  <2>3. Kept'
    BY KeptAlone
  <2> QED
    BY <2>1, <2>2, <2>3 DEF IInv
<1>2. ASSUME IInv, ReplayEnds PROVE IInv'
  <2> USE <1>2 DEF ReplayEnds, BeginSave, Create, volatile, observed
  <2>1. Typed'
    BY DEF IInv, Typed, PCs, Steps, SavePoints
  <2>2. Writing'
    BY DEF IInv, Typed, SavePoints, Writing
  <2>3. Kept'
    BY KeptAlone
  <2> QED
    BY <2>1, <2>2, <2>3 DEF IInv
<1> QED
  BY <1>1, <1>2

LEMMA QueueInv == ASSUME IInv, (\E a \in Alerts : Queue(a)) \/ TakeDuplicate PROVE IInv'
<1>1. queue' \in Seq(Alerts)
  <2>1. queue \in Seq(Alerts)
    BY DEF IInv, Typed
  <2>2. ASSUME NEW a \in Alerts, Queue(a) PROVE queue' \in Seq(Alerts)
    BY <2>1, <2>2 DEF Queue
  <2>3. CASE TakeDuplicate
    BY <2>1, <2>3 DEF TakeDuplicate
  <2> QED
    BY <2>2, <2>3
<1>2. /\ UNCHANGED <<pc, entries, todo, current, overflow, misdated, unread, received>>
      /\ UNCHANGED <<name, disk, tmp, step>> /\ pc # "down"
  BY DEF Queue, TakeDuplicate, fileVars, observed
<1>3. Typed'
  BY <1>1, <1>2 DEF IInv, Typed
<1>4. Writing'
  BY <1>2 DEF IInv, Writing
<1>5. Kept'
  BY <1>2, KeptAlone
<1> QED
  BY <1>3, <1>4, <1>5 DEF IInv

LEMMA TakeNewInv == IInv /\ TakeNew => IInv'
<1> SUFFICES ASSUME IInv, TakeNew PROVE IInv'
  OBVIOUS
<1> DEFINE a == Head(queue)
<1>1. a \in Alerts /\ Tail(queue) \in Seq(Alerts)
  <2>1. queue \in Seq(Alerts) /\ queue # <<>>
    BY DEF IInv, Typed, TakeNew
  <2> QED
    BY <2>1
<1>2. PICK t \in Readings :
        /\ entries' \in Compacts(Append(entries, NewRecord(a, t)))
        /\ overflow' = (overflow \/ UndeliveredLost(Append(entries, NewRecord(a, t))))
        /\ misdated' = Misdated(a, t)
  BY DEF TakeNew
<1>3. /\ queue' = Tail(queue) /\ current' = a /\ received' = received \ {a}
      /\ pc' = "save_new" /\ step' = "written" /\ tmp' = entries'
      /\ UNCHANGED <<todo, unread, name, disk>> /\ pc = "idle"
  BY DEF TakeNew, BeginSave, Create
<1> DEFINE appended == Append(entries, NewRecord(a, t))
<1>4. appended \in Seq(Record) /\ entries \in Seq(Record)
  BY <1>1, NewRecordTyped DEF IInv, Typed
<1>5. ASSUME NEW b \in Alerts,
             ~overflow',
             \/ b \in Owed(entries)
             \/ b = a /\ a \notin misdated'
      PROVE  b \in Owed(entries')
  <2>1. b = a /\ a \notin misdated' =>
            b = a /\ \A i \in DOMAIN entries : entries[i].id = a => ~(entries[i].at >= t)
    BY <1>2 DEF Misdated
  <2>2. b \in Owed(appended)
    BY <1>1, <1>4, <1>5, <2>1, AppendOwes
  <2>3. ~UndeliveredLost(appended)
    BY <1>2, <1>5
  <2> QED
    BY <1>2, <1>4, <2>2, <2>3, CompactOwes
<1>6. entries' \in Seq(Record)
  BY <1>1, <1>2, <1>4, CompactOwes
<1>7. Typed'
  <2>1. overflow' \in BOOLEAN
    BY <1>2, Zenon DEF IInv, Typed
  <2> QED
    BY <1>1, <1>3, <1>6, <2>1 DEF IInv, Typed, PCs, Steps, SavePoints
<1>8. Writing'
  BY <1>3 DEF IInv, Writing
<1>9. Kept'
  <2>1. ASSUME NEW b \in Guaranteed', ~unread' PROVE b \in Owed(entries') \/ Excused(b)'
    <3>1. b \in Alerts /\ b \in Guaranteed
      BY <1>3 DEF Guaranteed, Owed, Stays
    <3>2. b \in Owed(entries) \/ Excused(b)
      BY <1>3, <2>1, <3>1 DEF IInv, Kept
    <3>3. CASE overflow
      BY <1>2, <3>3 DEF Excused
    <3>4. CASE b = a
      BY <1>5, <3>1, <3>4 DEF Excused
    <3>5. CASE b # a /\ b \in received \cup misdated
      BY <1>2, <1>3, <3>5 DEF Excused, Misdated
    <3>6. CASE b \in Owed(entries)
      BY <1>5, <3>1, <3>6 DEF Excused
    <3> QED
      BY <3>2, <3>3, <3>4, <3>5, <3>6 DEF Excused
  <2>2. a \in Owed(entries') \/ a \in misdated' \/ overflow'
    BY <1>1, <1>5
  <2>3. Owed(entries)' = Owed(entries')
    BY DEF Owed, Stays
  <2> QED
    BY <1>3, <2>1, <2>2, <2>3 DEF Kept
<1> QED
  BY <1>7, <1>8, <1>9 DEF IInv

\* When the file under the name is the outbox in memory, the guarantees are of
\* what memory owes.
LEMMA KeptSaved ==
    ASSUME IInv, UNCHANGED <<entries, misdated, overflow>>,
           Guaranteed' \subseteq Owed(entries)',
           pc' \in {"save_new", "send"} => pc \in {"save_new", "send"} /\ current' = current
    PROVE  Kept'
BY DEF IInv, Kept, Owed, Stays

LEMMA SaveInv == IInv /\ (SaveStep \/ SaveReturns) => IInv'
<1>1. ASSUME IInv, SaveStep, Sync PROVE IInv'
  <2> USE <1>1 DEF SaveStep, Sync, volatile, observed
  <2>1. Typed'
    BY DEF IInv, Typed, Steps
  <2>2. Writing'
    BY DEF IInv, Writing
  <2>3. Kept'
    BY KeptAlone DEF SavePoints
  <2> QED
    BY <2>1, <2>2, <2>3 DEF IInv
<1>2. ASSUME IInv, SaveStep, Rename PROVE IInv'
  <2> USE <1>2 DEF SaveStep, Rename, volatile, observed
  <2>0. disk' = disk \cup {tmp} /\ tmp = entries
    BY DEF Flushed, IInv, Writing
  <2>1. Typed'
    BY <2>0 DEF IInv, Typed, Steps
  <2>2. Writing'
    BY <2>0 DEF IInv, Writing
  <2>3. Guaranteed' \subseteq Owed(entries)'
    BY <2>0 DEF Guaranteed
  <2>4. Kept'
    BY <2>3, KeptSaved
  <2> QED
    BY <2>1, <2>2, <2>4 DEF IInv
<1>3. ASSUME IInv, SaveReturns, SyncDir PROVE IInv'
  <2> USE <1>3 DEF SaveReturns, SyncDir, volatile, observed
  <2>0. name = entries
    BY DEF IInv, Writing
  <2>1. Typed'
    BY DEF IInv, Typed, Steps, PCs, SavePoints, AfterSave
  <2>2. Writing'
    BY DEF IInv, Writing
  <2>3. Guaranteed' \subseteq Owed(entries)'
    BY <2>0 DEF Guaranteed
  <2>4. pc' \in {"save_new", "send"} => pc \in {"save_new", "send"} /\ current' = current
    BY DEF AfterSave
  <2>5. Kept'
    BY <2>3, <2>4, KeptSaved
  <2> QED
    BY <2>1, <2>2, <2>5 DEF IInv
<1>4. ASSUME IInv, SaveReturns, Fail PROVE IInv'
  <2> USE <1>4 DEF SaveReturns, Fail, volatile, observed
  <2>1. Typed'
    BY DEF IInv, Typed, Steps, PCs, SavePoints, AfterSave
  <2>2. Writing'
    BY DEF IInv, Writing
  <2>3. pc' \in {"save_new", "send"} => pc \in {"save_new", "send"} /\ current' = current
    BY DEF AfterSave
  <2>4. pc # "down" /\ UNCHANGED <<entries, name, disk, misdated, unread, received, overflow>>
    BY DEF SavePoints
  <2>5. Kept'
    BY <2>3, <2>4, KeptAlone
  <2> QED
    BY <2>1, <2>2, <2>5 DEF IInv
<1> QED
  BY <1>1, <1>2, <1>3, <1>4 DEF SaveStep, SaveReturns

LEMMA SentInv == IInv /\ Sent => IInv'
<1> SUFFICES ASSUME IInv, Sent PROVE IInv'
  OBVIOUS
<1> USE DEF Sent, BeginSave, Create, fileVars
<1>1. current \in Alerts /\ entries \in Seq(Record)
  BY DEF IInv, Typed
<1>2. entries' \in Seq(Record)
  BY <1>1, MarkTyped
<1>3. Typed'
  BY <1>1, <1>2 DEF IInv, Typed, PCs, Steps, SavePoints
<1>4. Writing'
  BY DEF IInv, Writing, Typed, SavePoints
<1>5. Kept'
  <2>1. ASSUME NEW b \in Guaranteed', ~unread' PROVE b \in Owed(entries)' \/ Excused(b)'
    <3>1. b \in Alerts /\ b \in Guaranteed
      BY DEF Guaranteed, Owed, Stays
    <3>2. b \in Owed(entries) \/ Excused(b)
      BY <2>1, <3>1 DEF IInv, Kept
    <3>3. CASE Excused(b) \/ b = current
      BY <3>3 DEF Excused
    <3>4. CASE b # current /\ b \in Owed(entries)
      <4>1. b \in Owed(Mark(current, entries))
        BY <1>1, <3>1, <3>4, MarkOwes
      <4> QED
        BY <4>1 DEF Owed, Stays
    <3> QED
      BY <3>2, <3>3, <3>4
  <2>2. pc' \in {"save_mark", "replay"}
    OBVIOUS
  <2> QED
    BY <2>1, <2>2 DEF Kept
<1> QED
  BY <1>3, <1>4, <1>5 DEF IInv

LEMMA NotSentInv == ASSUME NEW arrived \in BOOLEAN, IInv, NotSent(arrived) PROVE IInv'
<1> USE DEF NotSent, fileVars
<1>1. Typed'
  BY DEF IInv, Typed, PCs, Steps, SavePoints
<1>2. Writing'
  BY DEF IInv, Writing
<1>3. Kept'
  BY KeptAlone
<1> QED
  BY <1>1, <1>2, <1>3 DEF IInv

LEMMA DownInv == IInv /\ Down => IInv'
<1>1. ASSUME IInv, Down, Abandon PROVE IInv'
  <2>1. Typed'
    <3>1. overflow' \in BOOLEAN
      BY <1>1, Zenon DEF Down
    <3>2. queue' \in Seq(Alerts)
      BY <1>1 DEF Down
    <3>3. /\ pc' = "down" /\ step' = "none" /\ entries' = <<>> /\ todo' = <<>>
          /\ tmp' = name /\ UNCHANGED <<name, disk>>
      BY <1>1 DEF Down, Abandon
    <3> QED
      BY <1>1, <3>1, <3>2, <3>3 DEF IInv, Typed, PCs, Steps, SavePoints
  <2>2. Writing'
    BY <1>1 DEF Down, Abandon, IInv, Writing
  <2>3. Kept'
    BY <1>1 DEF Down, Kept
  <2> QED
    BY <2>1, <2>2, <2>3 DEF IInv
<1>2. ASSUME IInv, Down, PowerLoss PROVE IInv'
  <2>1. PICK data \in disk : name' = data /\ disk' = {data} /\ tmp' = data
    BY <1>2 DEF PowerLoss
  <2>2. Typed'
    <3>1. overflow' \in BOOLEAN
      BY <1>2, Zenon DEF Down
    <3>2. queue' \in Seq(Alerts)
      BY <1>2 DEF Down
    <3>3. pc' = "down" /\ step' = "none" /\ entries' = <<>> /\ todo' = <<>>
      BY <1>2 DEF Down, PowerLoss
    <3>4. data \in Seq(Record)
      BY <1>2 DEF IInv, Typed
    <3> QED
      BY <2>1, <3>1, <3>2, <3>3, <3>4 DEF Typed, PCs, Steps, SavePoints
  <2>3. Writing'
    BY <1>2, <2>1 DEF Down, PowerLoss, IInv, Writing
  <2>4. Kept'
    BY <1>2 DEF Down, Kept
  <2> QED
    BY <2>2, <2>3, <2>4 DEF IInv
<1> QED
  BY <1>1, <1>2 DEF Down

LEMMA NextInv == IInv /\ [Next]_vars => IInv'
<1> SUFFICES ASSUME IInv, [Next]_vars PROVE IInv'
  OBVIOUS
<1>1. CASE Consumer
  BY <1>1, StartInv, ReplayInv, QueueInv, TakeNewInv, SaveInv, SentInv, NotSentInv DEF Consumer
<1>2. CASE \E a \in Alerts : Queue(a)
  BY <1>2, QueueInv
<1>3. CASE Down
  BY <1>3, DownInv
<1>4. CASE UNCHANGED vars
  <2> USE <1>4 DEF vars, fileVars
  <2>1. Typed' /\ Writing'
    BY DEF IInv, Typed, Writing
  <2>2. Kept'
    BY DEF IInv, Kept, Excused, Guaranteed, Owed, Stays, observed
  <2> QED
    BY <2>1, <2>2 DEF IInv
<1> QED
  BY <1>1, <1>2, <1>3, <1>4 DEF Next

\* The inductive invariant holds in every behaviour.
THEOREM NotifierInductive == Spec => []IInv
<1>1. Init => IInv
  BY InitInv
<1>2. IInv /\ [Next]_vars => IInv'
  BY NextInv
<1> QED
  BY <1>1, <1>2, PTL DEF Spec

\* While the daemon is up, memory owes whatever the disk guarantees (notify.rs).
THEOREM OutboxKeeps == Spec => []Kept
<1>1. IInv => Kept
  BY DEF IInv
<1> QED
  BY <1>1, NotifierInductive, PTL

\* Whenever power is lost, the outbox file is one that was written whole
\* (persist.rs: fsync before rename), if a torn file can be told from a whole one.
THEOREM OutboxNeverTorn ==
    ASSUME Torn \notin Seq(Record)
    PROVE  Spec => []NeverTorn
<1>1. IInv => NeverTorn
  BY DEF IInv, Typed, NeverTorn
<1> QED
  BY <1>1, NotifierInductive, PTL

-----------------------------------------------------------------------------
(* Refinement *)

LEMMA PromiseBegins == Init => PromiseKept!PromiseInit
BY DEF Init, FileInit, PromiseKept!PromiseInit, Guaranteed, Owed, Stays

\* One step of the abstract outbox, or none.
PromiseStep ==
    \/ \E a \in Alerts : PromiseKept!Raise(a) \/ PromiseKept!Arrive(a)
    \/ PromiseKept!Store
    \/ PromiseKept!Stop
    \/ PromiseKept!StartBlind
    \/ UNCHANGED PromiseKept!promised

\* A step that leaves the file alone leaves the guarantees alone.
LEMMA SameGuarantees ==
    ASSUME UNCHANGED <<name, disk>>
    PROVE  Guaranteed' = Guaranteed
BY DEF Guaranteed, Owed, Stays

LEMMA PromiseSteps == IInv /\ [Next]_vars => PromiseStep
<1> SUFFICES ASSUME IInv, [Next]_vars PROVE PromiseStep
  OBVIOUS
<1> USE DEF PromiseStep
<1>1. ASSUME UNCHANGED <<name, disk, received, overflow, unread, misdated>> PROVE PromiseStep
  BY <1>1, SameGuarantees DEF PromiseKept!promised
<1>2. CASE Start \/ ReplayNext \/ ReplayEnds \/ TakeDuplicate
  BY <1>1, <1>2 DEF Start, ReplayNext, ReplayEnds, TakeDuplicate, BeginSave, Create,
                    volatile, observed, fileVars
<1>11. CASE StartUnread
  BY <1>11, SameGuarantees DEF StartUnread, volatile, fileVars, PromiseKept!StartBlind
<1>3. CASE TakeNew
  <2>1. Head(queue) \in Alerts /\ overflow \in BOOLEAN
    BY <1>3 DEF TakeNew, IInv, Typed
  <2>2. UNCHANGED <<name, disk, unread>> /\ received' = received \ {Head(queue)}
    BY <1>3 DEF TakeNew, BeginSave, Create
  <2>3. /\ overflow' \in {overflow, TRUE}
        /\ misdated' \in {misdated \cup {Head(queue)}, misdated \ {Head(queue)}}
    <3>1. PICK t \in Readings :
            /\ overflow' = (overflow \/ UndeliveredLost(Append(entries, NewRecord(Head(queue), t))))
            /\ misdated' = Misdated(Head(queue), t)
      BY <1>3 DEF TakeNew
    <3>2. overflow' \in {overflow, TRUE}
      BY <2>1, <3>1
    <3> QED
      BY <3>1, <3>2 DEF Misdated
  <2>4. PromiseKept!Raise(Head(queue))
    BY <2>2, <2>3, SameGuarantees DEF PromiseKept!Raise
  <2> QED
    BY <2>1, <2>4
<1>4. CASE SaveStep
  <2>1. CASE Sync
    BY <1>1, <1>4, <2>1 DEF SaveStep, Sync, volatile, observed
  <2>2. CASE Rename
    <3>1. disk' = disk \cup {tmp} /\ name' = tmp /\ tmp = entries
      BY <2>2 DEF Rename, Flushed, IInv, Writing
    <3>2. pc # "down" /\ UNCHANGED <<received, overflow, unread, misdated>>
      BY <1>4, Zenon DEF SaveStep, SavePoints, volatile, observed
    <3>3. \A file : Owed(file)' = Owed(file)
      BY DEF Owed, Stays
    <3>4. Guaranteed \cap Owed(entries) \subseteq Guaranteed'
      BY <3>1 DEF Guaranteed
    <3>5. Guaranteed \subseteq Guaranteed' \cup received \cup misdated \/ overflow \/ unread
      BY <3>2, <3>4 DEF IInv, Kept, Excused
    <3>6. Guaranteed' \in SUBSET Alerts
      BY DEF Guaranteed
    <3> QED
      BY <3>2, <3>5, <3>6 DEF PromiseKept!Store
  <2> QED
    BY <1>4, <2>1, <2>2 DEF SaveStep
<1>5. CASE SaveReturns
  <2>1. CASE SyncDir
    <3>1. Guaranteed \subseteq Guaranteed' /\ Guaranteed' \in SUBSET Alerts
      BY <2>1 DEF SyncDir, Guaranteed
    <3>2. UNCHANGED <<received, overflow, unread, misdated>>
      BY <1>5 DEF SaveReturns, volatile, observed
    <3> QED
      BY <3>1, <3>2 DEF PromiseKept!Store
  <2>2. CASE Fail
    BY <1>1, <1>5, <2>2 DEF SaveReturns, Fail, volatile, observed
  <2> QED
    BY <1>5, <2>1, <2>2 DEF SaveReturns
<1>6. CASE Sent
  <2>1. current \in Alerts
    BY <1>6 DEF Sent, IInv, Typed
  <2>2. UNCHANGED <<name, disk, overflow, unread, misdated>> /\ received' = received \cup {current}
    BY <1>6 DEF Sent, BeginSave, Create, fileVars
  <2>3. PromiseKept!Arrive(current)
    BY <2>2, SameGuarantees DEF PromiseKept!Arrive
  <2> QED
    BY <2>1, <2>3
<1>7. ASSUME NEW arrived \in BOOLEAN, NotSent(arrived) PROVE PromiseStep
  <2>1. current \in Alerts
    BY <1>7 DEF NotSent, IInv, Typed
  <2>2. CASE arrived
    <3>1. PromiseKept!Arrive(current)
      BY <1>7, <2>2, SameGuarantees DEF NotSent, fileVars, PromiseKept!Arrive
    <3> QED
      BY <2>1, <3>1
  <2>3. CASE ~arrived
    BY <1>1, <1>7, <2>3 DEF NotSent, fileVars
  <2> QED
    BY <2>2, <2>3
<1>8. CASE \E a \in Alerts : Queue(a)
  BY <1>1, <1>8 DEF Queue, fileVars, observed
<1>9. CASE Down
  <2>1. Guaranteed \subseteq Guaranteed' /\ Guaranteed' \in SUBSET Alerts
    <3>1. CASE Abandon
      BY <3>1, SameGuarantees DEF Abandon, Guaranteed
    <3>2. CASE PowerLoss
      BY <3>2 DEF PowerLoss, Guaranteed
    <3> QED
      BY <1>9, <3>1, <3>2 DEF Down
  <2> QED
    BY <1>9, <2>1 DEF Down, PromiseKept!Stop
<1>10. CASE UNCHANGED vars
  BY <1>1, <1>10 DEF vars, observed, fileVars
<1> QED
  BY <1>2, <1>3, <1>4, <1>5, <1>6, <1>7, <1>8, <1>9, <1>10, <1>11 DEF Next, Consumer

\* The notifier implements the durable outbox: whatever is on record stays owed
\* until it is received or the overflow is shown (notify.rs, persist.rs).
THEOREM NotifierRefinesOutbox == Spec => KeepsThePromise
<1>1. Init => PromiseKept!PromiseInit
  BY PromiseBegins
<1>2. IInv /\ [Next]_vars
        => [\/ \E a \in Alerts : PromiseKept!Raise(a) \/ PromiseKept!Arrive(a)
            \/ PromiseKept!Store
            \/ PromiseKept!Stop
            \/ PromiseKept!StartBlind]_(PromiseKept!promised)
  BY PromiseSteps DEF PromiseStep
<1> QED
  BY <1>1, <1>2, NotifierInductive, PTL DEF Spec, KeepsThePromise, PromiseKept!Promise

=============================================================================
