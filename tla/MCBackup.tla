------------------------------ MODULE MCBackup ------------------------------
(* Instances of Backup for TLC. *)
EXTENDS Backup, TLC

CONSTANTS s1, s2

\* The file of a fresh installation, and of one whose earlier program was
\* interrupted in a phase this daemon itself never writes.
FreshFile == {Idle}
LegacyFiles == {Idle} \cup
    {Phase(t, 0, {s1}) : t \in {"ResticUnlocking", "ServicesStopping"}} \cup
    {Phase(t, 0, {}) : t \in {"ServicesStarting", "ServicesVerifying", "Verifying"}}

Symmetry == Permutations({s1, s2})
=============================================================================
