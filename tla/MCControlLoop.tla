--------------------------- MODULE MCControlLoop ---------------------------
\* ControlLoop with values for its constants: a unit is about fifteen seconds
\* where the watchdog is concerned, hours are a few units.
EXTENDS ControlLoop, TLC

MCDays == "backup" :> {0} @@ "summary" :> {0, 1}
MCClockSteps == {-3, 3}
MCAt == "backup" :> 4 @@ "summary" :> 5

=============================================================================
