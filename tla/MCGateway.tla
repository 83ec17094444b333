------------------------------ MODULE MCGateway ------------------------------
\* Gateway with values for its constants: two operators at the same time, one
\* who wants a remediation and one who may ask for anything.
EXTENDS Gateway, TLC

CONSTANTS r1, r2

MCInvocations == {r1, r2}
MCMayAsk ==
    r1 :> {"remediate"}
    @@ r2 :> {"remediate", "trigger", "malformed", "diagnose", "status", "doctor"}

=============================================================================
