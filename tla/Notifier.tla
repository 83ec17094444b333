------------------------------- MODULE Notifier -------------------------------
(***************************************************************************)
(* notify.rs: producers queue alerts without waiting, one consumer thread  *)
(* writes each to the outbox file, sends it to the NTFY server with        *)
(* retries and marks it.  At start it sends what the file holds            *)
(* undelivered.  The process may be killed and the host may lose power     *)
(* between any two system calls.                                           *)
(*                                                                         *)
(* A record carries the wall clock's reading (created_at, in seconds),     *)
(* which may repeat or go back from one record to the next.  An alert is   *)
(* its deduplication key, the hash of title and body.                      *)
(***************************************************************************)
EXTENDS Naturals, Sequences, FiniteSets, Functions, AtomicWrite

CONSTANTS
    Alerts,         \* keys
    QueueSize,      \* queue_size of the channel
    OutboxMax,      \* OUTBOX_MAX
    Retries,        \* how many entries ntfy.retries has
    Readings,       \* what the wall clock may show
    MaxRecords,     \* bound: records made and alerts waiting in a behaviour
    MaxFaults,      \* bound: crashes and power losses in a behaviour
    DiskFails,      \* whether system calls on the file may fail
    NoAlert         \* current, while nothing is being sent

ASSUME NotifierAssumption ==
    /\ {QueueSize, OutboxMax, Retries} \subseteq Nat \ {0}
    /\ {MaxRecords, MaxFaults} \subseteq Nat
    /\ DiskFails \in BOOLEAN
    /\ Readings \subseteq Nat
    /\ NoAlert \notin Alerts

VARIABLES
    queue,          \* the bounded channel
    pc,             \* where the consumer thread is
    entries,        \* Outbox.entries, in memory
    todo,           \* undelivered alerts the replay has not tried yet
    current,        \* the alert being written and sent
    attempt,        \* failed attempts for it
    dedup,          \* keys in the DedupCache; an expired one is missed when looked up
    overflow,       \* overflow_flag
    degraded,       \* NotifyRuntimeState.degraded
    made,           \* records made so far
    unread,         \* observer: this process could not read the file
    misdated,       \* observer: alerts whose last record is not dated after
                    \* each earlier one
    received,       \* the world: alerts the server got since they were raised
    faults          \* crashes so far

observed == <<unread, misdated, received>>
vars == <<queue, pc, entries, todo, current, attempt, dedup, overflow, degraded,
          made, observed, faults, fileVars>>

volatile == <<queue, dedup, overflow, degraded>>

Record == [id : Alerts, at : Readings, delivered : BOOLEAN]

SavePoints == {"save_replay", "save_new", "save_mark"}
PCs == {"down", "idle", "replay", "resend", "send"} \cup SavePoints

-----------------------------------------------------------------------------
(* The outbox in memory *)

\* The records with the indexes in q, in the order of q.
Pick(records, q) == [k \in DOMAIN q |-> records[q[k]]]

\* All orders of a finite set of indexes.
Orders(indexes) == Bijection(1 .. Cardinality(indexes), indexes)

\* Of the records with one id, load keeps the one dated last, and the first
\* of those with one date.
Stays(i, records) ==
    \A j \in DOMAIN records : records[j].id = records[i].id =>
        \/ records[j].at < records[i].at
        \/ records[j].at = records[i].at /\ i <= j

\* Alerts that a start from these records would send.
Owed(records) ==
    {a \in Alerts : \E i \in DOMAIN records :
        records[i].id = a /\ Stays(i, records) /\ ~records[i].delivered}

\* (mutant) the first record of an alert wins, whatever its date
LoadsFirst(records) ==
    LET kept == {i \in DOMAIN records : \A j \in 1 .. i - 1 : records[j].id # records[i].id}
    IN  {Pick(records, q) : q \in Orders(kept)}

\* Outbox::load: what stays, sorted by date.  The order of equal dates is that
\* of a HashMap.
Loads(records) ==
    {Pick(records, q) : q \in {o \in Orders({i \in DOMAIN records : Stays(i, records)}) :
        \A k, l \in DOMAIN o : k < l => records[o[k]].at <= records[o[l]].at}}

\* Outbox::mark_delivered: the first record with the id.
Mark(a, records) ==
    [i \in DOMAIN records |->
        IF records[i].id = a /\ \A j \in 1 .. i - 1 : records[j].id # a
        THEN [records[i] EXCEPT !.delivered = TRUE] ELSE records[i]]

\* sort_by_key is stable.
Before(i, j, records) ==
    \/ records[i].at < records[j].at
    \/ records[i].at = records[j].at /\ i < j

\* Delivered records go before undelivered ones, older before newer.
EvictedBefore(i, j, records) ==
    \/ records[i].delivered /\ ~records[j].delivered
    \/ records[i].delivered = records[j].delivered /\ Before(i, j, records)

Evicted(records) ==
    {i \in DOMAIN records :
        Cardinality({j \in DOMAIN records : EvictedBefore(j, i, records)}) + OutboxMax
            < Len(records)}

\* Outbox::compact_if_needed: the one outbox it leaves.  It sorts only what
\* is too long.
Compacts(records) ==
    IF Len(records) <= OutboxMax
    THEN {records}
    ELSE {Pick(records, q) : q \in {o \in Orders(DOMAIN records \ Evicted(records)) :
            \A k, l \in DOMAIN o : k < l => Before(o[k], o[l], records)}}

UndeliveredLost(records) ==
    /\ Len(records) > OutboxMax
    /\ \E i \in Evicted(records) : ~records[i].delivered

-----------------------------------------------------------------------------

Init ==
    /\ FileInit(<<>>)
    /\ queue = <<>>
    /\ pc = "down"
    /\ entries = <<>> /\ todo = <<>>
    /\ current = NoAlert
    /\ attempt = 0
    /\ dedup = {}
    /\ overflow = FALSE /\ degraded = FALSE
    /\ made = 0
    /\ unread = FALSE /\ misdated = {} /\ received = {}
    /\ faults = 0

\* The consumer starts: it loads the file and lists what is undelivered.
Start ==
    /\ pc = "down"
    /\ entries' \in Loads(name)
    /\ \E q \in Orders({i \in DOMAIN entries' : ~entries'[i].delivered}) :
        /\ \A k, l \in DOMAIN q : k < l => q[k] < q[l]
        /\ todo' = [k \in DOMAIN q |-> entries'[q[k]].id]
    /\ pc' = IF todo' = <<>> THEN "idle" ELSE "replay"
    /\ UNCHANGED <<volatile, current, attempt, made, observed, faults, fileVars>>

\* load cannot read the file: the error is logged, the outbox begins empty and
\* the next write replaces what the file holds.
StartUnread ==
    /\ pc = "down" /\ DiskFails
    /\ entries' = <<>> /\ todo' = <<>>
    /\ pc' = "idle"
    /\ unread' = TRUE
    /\ UNCHANGED <<volatile, current, attempt, made, misdated, received, faults, fileVars>>

\* Outbox::persist begins; it returns to the loop at the given point.
BeginSave(point) ==
    /\ pc' = point
    /\ Create(entries')

\* The replay goes on with the next record, and skips a duplicate.
ReplayNext ==
    /\ pc = "replay" /\ todo # <<>>
    /\ todo' = Tail(todo)
    /\ IF Head(todo) \in dedup
       THEN UNCHANGED <<pc, current, attempt>>
       ELSE pc' = "resend" /\ current' = Head(todo) /\ attempt' = 0
    /\ UNCHANGED <<volatile, entries, made, observed, faults, fileVars>>

ReplayEnds ==
    /\ pc = "replay" /\ todo = <<>>
    /\ UNCHANGED entries
    /\ BeginSave("save_replay")
    /\ UNCHANGED <<volatile, todo, current, attempt, made, observed, faults>>

\* NotifySender::queue: a full channel drops the alert.
Queue(a) ==
    /\ pc # "down" /\ made + Len(queue) < MaxRecords
    /\ queue' = IF Len(queue) < QueueSize THEN Append(queue, a) ELSE queue
    /\ UNCHANGED <<pc, entries, todo, current, attempt, dedup, overflow, degraded,
                   made, observed, faults, fileVars>>

\* rx.recv: a key that was delivered within the TTL is passed over.
TakeDuplicate ==
    /\ pc = "idle" /\ queue # <<>> /\ Head(queue) \in dedup
    /\ queue' = Tail(queue)
    /\ UNCHANGED <<pc, entries, todo, current, attempt, dedup, overflow, degraded,
                   made, observed, faults, fileVars>>

NewRecord(a, t) == [id |-> a, at |-> t, delivered |-> FALSE]

\* What the observer of dates notes when a record of a is dated t.
Misdated(a, t) ==
    IF \E i \in DOMAIN entries : entries[i].id = a /\ entries[i].at >= t
    THEN misdated \cup {a} ELSE misdated \ {a}

\* (mutant) the flag is left alone when an undelivered record is evicted
TakeNewSilently ==
    /\ pc = "idle" /\ queue # <<>>
    /\ made < MaxRecords
    /\ made' = made + 1
    /\ queue' = Tail(queue)
    /\ current' = Head(queue)
    /\ \E t \in Readings :
        /\ entries' \in Compacts(Append(entries, NewRecord(Head(queue), t)))
        /\ misdated' = Misdated(Head(queue), t)
    /\ BeginSave("save_new")
    /\ received' = received \ {Head(queue)}
    /\ dedup' = dedup \ {Head(queue)}
    /\ UNCHANGED <<todo, attempt, overflow, degraded, unread, faults>>

\* rx.recv of an alert that was not delivered, or so long ago that its TTL is
\* over: append, compact_if_needed, persist.
TakeNew ==
    /\ pc = "idle" /\ queue # <<>>
    /\ made < MaxRecords
    /\ made' = made + 1
    /\ queue' = Tail(queue)
    /\ current' = Head(queue)
    /\ \E t \in Readings :
        LET appended == Append(entries, NewRecord(Head(queue), t))
        IN  /\ entries' \in Compacts(appended)
            /\ overflow' = (overflow \/ UndeliveredLost(appended))
            /\ misdated' = Misdated(Head(queue), t)
    /\ BeginSave("save_new")
    /\ received' = received \ {Head(queue)}
    /\ dedup' = dedup \ {Head(queue)}
    /\ UNCHANGED <<todo, attempt, degraded, unread, faults>>

\* Where persist returns to, whether it succeeded or only logged an error.
AfterSave(point) == IF point = "save_new" THEN "send" ELSE "idle"

SaveStep ==
    /\ pc \in SavePoints
    /\ Sync \/ Rename
    /\ UNCHANGED <<volatile, pc, entries, todo, current, attempt, made, observed, faults>>

SaveReturns ==
    /\ pc \in SavePoints
    /\ SyncDir \/ (DiskFails /\ Fail)
    /\ pc' = AfterSave(pc)
    /\ current' = IF pc' = "idle" THEN NoAlert ELSE current
    /\ UNCHANGED <<volatile, entries, todo, attempt, made, observed, faults>>

\* send_ntfy returns Ok: the alert is recorded as sent and marked.  The loop
\* writes the outbox at once, the replay when it is over.
Sent ==
    /\ pc \in {"send", "resend"}
    /\ received' = received \cup {current}
    /\ dedup' = dedup \cup {current}
    /\ degraded' = FALSE
    /\ entries' = Mark(current, entries)
    /\ IF pc = "send"
       THEN BeginSave("save_mark")
       ELSE pc' = "replay" /\ UNCHANGED fileVars
    /\ current' = IF pc' = "replay" THEN NoAlert ELSE current
    /\ attempt' = 0
    /\ UNCHANGED <<queue, overflow, todo, made, unread, misdated, faults>>

\* (mutant) attempts are never exhausted
NotSentAgain(arrived) ==
    /\ pc \in {"send", "resend"}
    /\ received' = IF arrived THEN received \cup {current} ELSE received
    /\ attempt' = (attempt + 1) % Retries
    /\ UNCHANGED <<queue, pc, entries, todo, current, dedup, overflow, degraded,
                   made, unread, misdated, faults, fileVars>>

\* send_ntfy returns Err, though the alert may have arrived: another attempt
\* follows, or the record stays undelivered until the next start.
NotSent(arrived) ==
    /\ pc \in {"send", "resend"}
    /\ received' = IF arrived THEN received \cup {current} ELSE received
    /\ IF attempt + 1 < Retries
       THEN attempt' = attempt + 1 /\ UNCHANGED <<pc, current, degraded>>
       ELSE /\ attempt' = 0
            /\ current' = NoAlert
            /\ degraded' = TRUE
            /\ pc' = IF pc = "send" THEN "idle" ELSE "replay"
    /\ UNCHANGED <<queue, entries, todo, dedup, overflow, made, unread, misdated, faults,
                   fileVars>>

\* The process ends, by a signal, a crash or with the host: main does not wait
\* for the notifier.
Down ==
    /\ pc # "down" /\ faults < MaxFaults
    /\ faults' = faults + 1
    /\ pc' = "down"
    /\ queue' = <<>> /\ dedup' = {} /\ overflow' = FALSE /\ degraded' = FALSE
    /\ entries' = <<>> /\ todo' = <<>> /\ current' = NoAlert /\ attempt' = 0
    /\ unread' = FALSE
    /\ Abandon \/ PowerLoss
    /\ UNCHANGED <<made, misdated, received>>

Consumer ==
    \/ Start \/ StartUnread
    \/ ReplayNext \/ ReplayEnds
    \/ TakeDuplicate \/ TakeNew
    \/ SaveStep \/ SaveReturns
    \/ Sent \/ \E arrived \in BOOLEAN : NotSent(arrived)

Next ==
    \/ Consumer
    \/ \E a \in Alerts : Queue(a)
    \/ Down

Spec == Init /\ [][Next]_vars

\* The consumer thread keeps running, and systemd starts a daemon that died.
FairSpec == Spec /\ WF_vars(Consumer)

-----------------------------------------------------------------------------
(* Properties *)

TypeOK ==
    /\ queue \in Seq(Alerts)
    /\ pc \in PCs /\ step \in Steps
    /\ step # "none" <=> pc \in SavePoints
    /\ entries \in Seq(Record) /\ Len(entries) <= OutboxMax
    /\ todo \in Seq(Alerts)
    /\ disk \cup {name, tmp} \subseteq Seq(Record) \cup {Torn}
    /\ current \in Alerts \cup {NoAlert}
    /\ current = NoAlert <=> pc \in {"down", "idle", "replay", "save_replay"}
    /\ attempt \in 0 .. Retries - 1
    /\ dedup \subseteq Alerts /\ received \subseteq Alerts /\ misdated \subseteq Alerts
    /\ {overflow, degraded, unread} \subseteq BOOLEAN
    /\ made \in Nat /\ faults \in 0 .. MaxFaults

\* Alerts that every coming start will send, whatever happens before.
Guaranteed == {a \in Alerts : \A file \in disk \cup {name} : a \in Owed(file)}

\* Excuses: the operator has the alert or sees the overflow; and, which nobody
\* sees, its last record is dated no later than an earlier one.
Excused(a) == a \in received \/ a \in misdated \/ overflow

\* While the daemon is up and could read the file, what the disk guarantees is
\* undelivered in memory too: the next write cannot take back a promise.  And
\* the alert being sent for the first time is there, to be sent again should
\* this fail (notify.rs: compaction, marks, replay, persist before delivery).
Kept ==
    /\ pc # "down" /\ ~unread => \A a \in Guaranteed : a \in Owed(entries) \/ Excused(a)
    /\ pc \in {"save_new", "send"} =>
            current \in Owed(entries) \/ current \in misdated \/ overflow

\* The notifier keeps the promise of the durable outbox.
PromiseKept == INSTANCE Outbox WITH owed <- Guaranteed
KeepsThePromise == PromiseKept!Promise

\* An alert that a start finds undelivered in the file is received, or the
\* channel is reported degraded, unless the daemon goes down again.
ReplayTries ==
    \A a \in Alerts :
        (pc = "replay" /\ \E k \in DOMAIN todo : todo[k] = a)
            ~> (a \in received \/ degraded \/ pc = "down")

=============================================================================
