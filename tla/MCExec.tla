------------------------------- MODULE MCExec -------------------------------
\* Exec with values for its constants: one service that is probed by a program
\* and one that is probed over the network.
EXTENDS Exec, TLC

CONSTANTS s1, s2, w1

MCConfigs == {s1 :> "exec" @@ s2 :> "net", s1 :> "systemd" @@ s2 :> "net"}

=============================================================================
