------------------------------ MODULE Breaker -------------------------------
(***************************************************************************)
(* The circuit breaker of a service (breaker.rs): pure functions on its    *)
(* state.  The deadline until_mono_secs is kept as the time that is left;  *)
(* the trip count, which nothing reads, is left out.                       *)
(***************************************************************************)
EXTENDS Naturals

BreakerStates(cooldown) ==
    [tag : {"closed", "half_open"}, left : {0}] \cup [tag : {"open"}, left : 0 .. cooldown]

\* reset
Closed == [tag |-> "closed", left |-> 0]

Open(left) == [tag |-> "open", left |-> left]

HalfOpen == [tag |-> "half_open", left |-> 0]

\* (mutant) an open breaker lets recovery through
AllowsAlways(b) == TRUE

\* allows_recovery
AllowsRecovery(b) == b.left = 0

\* (mutant) the threshold is exceeded, not reached
RecordLate(b, restarts, threshold, cooldown) ==
    IF b.tag = "half_open" \/ (b.tag = "closed" /\ restarts > threshold)
    THEN Open(cooldown)
    ELSE b

\* record_restart: an open breaker stays as it is, expired or not.
RecordRestart(b, restarts, threshold, cooldown) ==
    IF b.tag = "half_open" \/ (b.tag = "closed" /\ restarts >= threshold)
    THEN Open(cooldown)
    ELSE b

\* on_healthy_probe
OnHealthyProbe(b) == IF b.tag = "half_open" THEN Closed ELSE b

\* maybe_transition
MaybeTransition(b) == IF b.tag = "open" /\ b.left = 0 THEN HalfOpen ELSE b

\* The clock: what is left of the cooldown after one unit of time.
BreakerAges(b) == IF b.left > 0 THEN Open(b.left - 1) ELSE b

=============================================================================
