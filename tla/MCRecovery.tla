----------------------------- MODULE MCRecovery -----------------------------
(* Instances of Recovery for TLC. *)
EXTENDS Recovery

Alone == <<<<>>>>
Critical == <<"critical">>

\* A docker service and the docker daemon's node it needs.
Chain == <<<<>>, <<1>>>>
Mixed == <<"info", "warning">>

\* Two services that need nobody.
Pair == <<<<>>, <<>>>>
=============================================================================
