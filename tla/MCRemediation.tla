---------------------------- MODULE MCRemediation ----------------------------
\* Remediation with values for its constants: hours are 1 or 2 units, the ring
\* holds two records.
EXTENDS Remediation, TLC

CONSTANTS s1

MCLimits == [a \in Limited |->
    [window |-> IF a = "TriggerBackup" THEN 2 ELSE 1,
     count |-> IF a = "MarkMaintenance" THEN 2 ELSE 1]]

MCRequests ==
    {<<"RestartService", s1>>, <<"RestartService", Unknown>>, <<"DockerRestart", None>>,
     <<"MarkMaintenance", s1>>, <<"MarkMaintenance", None>>, <<"ClearMaintenance", s1>>}

=============================================================================
