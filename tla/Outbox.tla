-------------------------------- MODULE Outbox --------------------------------
(***************************************************************************)
(* What the durable outbox promises, without queue, retries or files: an   *)
(* alert that is on record stays owed until the operator has received it   *)
(* or the loss is shown by the overflow flag.  It may be received twice.   *)
(*                                                                         *)
(* Two losses are not shown, and the promise names them: a start that      *)
(* cannot read the record begins a new one, and an alert that is raised    *)
(* again while the wall clock is not past its earlier record is not under  *)
(* the promise.                                                            *)
(***************************************************************************)
CONSTANTS Alerts

VARIABLES
    owed,           \* alerts every coming start that can read will deliver
    received,       \* alerts the operator has got since they were last raised
    overflow,       \* the flag GET /health reports
    unread,         \* the record could not be read at this start
    misdated        \* alerts raised again with no later date

promised == <<owed, received, overflow, unread, misdated>>

PromiseInit ==
    /\ owed = {}
    /\ received = {}
    /\ overflow = FALSE
    /\ unread = FALSE
    /\ misdated = {}

\* An alert is raised anew; there may be no room for it or for an older one.
Raise(a) ==
    /\ received' = received \ {a}
    /\ overflow' \in {overflow, TRUE}
    /\ misdated' \in {misdated \cup {a}, misdated \ {a}}
    /\ UNCHANGED <<owed, unread>>

Arrive(a) ==
    /\ received' = received \cup {a}
    /\ UNCHANGED <<owed, overflow, unread, misdated>>

\* The record changes: alerts come under the promise, and leave it only when
\* they have been received, the overflow is shown, or for one of the two
\* losses that are not.
Store ==
    /\ owed' \in SUBSET Alerts
    /\ owed \subseteq owed' \cup received \cup misdated \/ overflow \/ unread
    /\ UNCHANGED <<received, overflow, unread, misdated>>

\* The flag is volatile, the promise is not.
Stop ==
    /\ overflow' = FALSE /\ unread' = FALSE
    /\ owed' \in SUBSET Alerts
    /\ owed \subseteq owed'
    /\ UNCHANGED <<received, misdated>>

StartBlind ==
    /\ unread' = TRUE
    /\ UNCHANGED <<owed, received, overflow, misdated>>

Promise ==
    /\ PromiseInit
    /\ [][\/ \E a \in Alerts : Raise(a) \/ Arrive(a)
          \/ Store
          \/ Stop
          \/ StartBlind]_promised

=============================================================================
