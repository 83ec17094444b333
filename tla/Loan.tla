--------------------------------- MODULE Loan ---------------------------------
(***************************************************************************)
(* What a backup promises the services it stops and the repository, without*)
(* files, leases, command lists, threads and events.                       *)
(*                                                                         *)
(* Services are lent for the time of the copy.  A loan is on record, or    *)
(* the operator is warned that it is not, before restic begins to copy;    *)
(* all is given back before restic prunes and checks; and the end of the   *)
(* process at any time loses no loan that is on record.                    *)
(***************************************************************************)
CONSTANTS
    Services,
    Readable    \* the record can always be read

VARIABLES
    stage,      \* what the run is at, "none" between two runs
    restic,     \* of this stage: "ahead", "works" or "over"
    lent,       \* services that have been stopped and not been given back
    recorded,   \* a restart gives all of them back
    warned      \* GET /health says that a record could not be written

loan == <<stage, restic, lent, recorded, warned>>

Free ==
    /\ stage = "none" /\ restic = "ahead"
    /\ lent = {} /\ recorded = TRUE /\ warned = FALSE

\* Nobody's loan is left open when a run begins.
Begin ==
    /\ stage = "none" /\ lent = {}
    /\ stage' = "taking"
    /\ UNCHANGED <<restic, lent, recorded, warned>>

Take(s) ==
    /\ stage = "taking"
    /\ lent' = lent \cup {s}
    /\ recorded' \in {recorded, FALSE}
    /\ UNCHANGED <<stage, restic, warned>>

\* A service comes up, by whatever hand.
GiveBack ==
    /\ lent' \in SUBSET lent
    /\ recorded' \in {recorded, TRUE}
    /\ UNCHANGED <<stage, restic, warned>>

Copy ==
    /\ stage = "taking"
    /\ stage' = "copying"
    /\ recorded' \in {recorded, TRUE} /\ warned' \in {warned, TRUE}
    /\ recorded' \/ warned'
    /\ UNCHANGED <<restic, lent>>

\* Restic is tried once in each stage, and shares its stage with nobody.
Work ==
    /\ stage \in {"copying", "pruning", "checking"}
    /\ stage # "copying" => lent = {}
    /\ restic = "ahead"
    /\ restic' \in {"works", "over"}
    /\ UNCHANGED <<stage, lent, recorded, warned>>

WorkEnds ==
    /\ restic = "works"
    /\ restic' = "over"
    /\ UNCHANGED <<stage, lent, recorded, warned>>

\* The copy is over, for better or worse.
Return ==
    /\ stage = "copying" /\ restic = "over"
    /\ stage' = "returning" /\ restic' = "ahead"
    /\ UNCHANGED <<lent, recorded, warned>>

\* Nothing is lent any more as the run goes on, or ends.
Onward ==
    /\ \/ stage = "copying" /\ restic = "over" /\ stage' \in {"pruning", "none"}
       \/ stage = "returning" /\ stage' \in {"pruning", "none"}
       \/ stage = "pruning" /\ restic = "over" /\ stage' \in {"checking", "none"}
       \/ stage = "checking" /\ restic = "over" /\ stage' = "none"
    /\ stage # "returning" => lent = {}
    /\ lent' = {} /\ restic' = "ahead" /\ recorded' = TRUE
    /\ UNCHANGED warned

Warn ==
    /\ warned' = TRUE
    /\ UNCHANGED <<stage, restic, lent, recorded>>

\* The process ends.
Die ==
    /\ stage' = "none" /\ restic' = "ahead" /\ warned' = FALSE
    /\ lent' \in SUBSET lent /\ (recorded => lent' = lent)
    /\ recorded' = TRUE

\* The next one begins with what is on record.
Restart ==
    /\ stage = "none" /\ recorded
    /\ stage' \in {"none", "returning"}
    /\ lent' \in SUBSET lent /\ (Readable => lent' = lent)
    /\ stage' = "none" => lent' = {}
    /\ UNCHANGED <<restic, recorded, warned>>

Step ==
    \/ Begin
    \/ \E s \in Services : Take(s)
    \/ GiveBack
    \/ Copy
    \/ Work
    \/ WorkEnds
    \/ Return
    \/ Onward
    \/ Warn
    \/ Die
    \/ Restart

Promise == Free /\ [][Step]_loan

=============================================================================
