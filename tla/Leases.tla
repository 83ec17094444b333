------------------------------- MODULE Leases -------------------------------
(***************************************************************************)
(* The lease arbiter of lease.rs: a map from resources to at most one      *)
(* holder, with a safety time-to-live.  The arbiter is plain data owned by *)
(* the control loop, so it is a module of operators on the map.            *)
(*                                                                         *)
(* The code stores the monotonic second of the acquisition and compares    *)
(* the age with max_ttl_secs.  What its callers can tell apart is only     *)
(* whether that age has reached the limit, so an entry carries the flag    *)
(* "expired" in its place; the flag is raised by the passage of time and   *)
(* lowered by nothing but a new entry.                                     *)
(***************************************************************************)
CONSTANT NoHolder   \* "no entry in the map"

\* A resource that is not in the map.
Unheld == [holder |-> NoHolder, expired |-> FALSE]

\* An entry as it is inserted.
HeldBy(h) == [holder |-> h, expired |-> FALSE]

\* The values an entry can take when holders come from the set H.
Lease(H) == [holder : H \cup {NoHolder}, expired : BOOLEAN]

\* LeaseArbiter::is_free
IsFree(l) == l.holder = NoHolder \/ l.expired

(***************************************************************************)
(* LeaseArbiter::acquire.  The holder itself is granted again without a    *)
(* refresh; another holder is evicted once the entry has expired and is    *)
(* otherwise left in place (Conflict), which every caller ignores.         *)
(***************************************************************************)
Acquire(l, h) ==
    IF l.holder = h \/ ~IsFree(l) THEN l ELSE HeldBy(h)

\* LeaseArbiter::force_release: whoever the holder is.
ForceRelease(l) == Unheld

\* Time passes and every entry in the map reaches the limit.
Expire(l) == IF l.holder = NoHolder THEN l ELSE [holder |-> l.holder, expired |-> TRUE]

=============================================================================
