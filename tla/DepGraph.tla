------------------------------ MODULE DepGraph ------------------------------
(***************************************************************************)
(* The dependency graph of graph.rs as the recovery cycle uses it: telling *)
(* the root causes of a set of failures from the services they block.      *)
(* GraphBuild models how the graph comes about.                            *)
(*                                                                         *)
(* A graph is a function from services to the sequence of the services     *)
(* they depend on, in the order of depends_on, which may name a service    *)
(* twice.  Services are numbers, in the order in which a BTreeMap visits   *)
(* their ids.                                                              *)
(***************************************************************************)
EXTENDS Naturals, Sequences

-----------------------------------------------------------------------------
(* DepGraph::classify_failures *)

\* The entries of depends_on that name an unhealthy service, and what the
\* first of them names.
UnhealthyEntries(parents, s, unhealthy) ==
    {i \in DOMAIN parents[s] : parents[s][i] \in unhealthy}

FirstUnhealthy(parents, s, unhealthy) ==
    LET entries == UnhealthyEntries(parents, s, unhealthy)
    IN  parents[s][CHOOSE i \in entries : \A j \in entries : i <= j]

\* Unhealthy services without an unhealthy parent.
RootCauses(parents, unhealthy) ==
    {s \in unhealthy : UnhealthyEntries(parents, s, unhealthy) = {}}

\* The keys of the map "blocked".
Blocked(parents, unhealthy) == unhealthy \ RootCauses(parents, unhealthy)

\* (mutant) the walk ends at the first unhealthy parent
NearestCause(parents, start, unhealthy) ==
    IF UnhealthyEntries(parents, start, unhealthy) = {}
    THEN start ELSE FirstUnhealthy(parents, start, unhealthy)

\* find_root_cause: along the first unhealthy parent of each, guarded against
\* going round in a circle.
RootCause(parents, start, unhealthy) ==
    LET walk[visited \in SUBSET unhealthy] ==
            [s \in unhealthy |->
                IF s \in visited \/ UnhealthyEntries(parents, s, unhealthy) = {} THEN s
                ELSE walk[visited \cup {s}][FirstUnhealthy(parents, s, unhealthy)]]
    IN  walk[{}][start]

=============================================================================
