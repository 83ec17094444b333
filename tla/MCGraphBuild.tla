---------------------------- MODULE MCGraphBuild ----------------------------
(* Instances of GraphBuild for TLC: all graphs of three services with up to *)
(* two entries each, also entries named twice, undefined or the service.    *)
EXTENDS GraphBuild
=============================================================================
