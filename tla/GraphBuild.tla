----------------------------- MODULE GraphBuild -----------------------------
(***************************************************************************)
(* How graph.rs builds the dependency graph from the config: what it       *)
(* rejects, and Kahn's algorithm, one step per node taken from the queue   *)
(* and one per entry of depends_on that is counted down.                   *)
(*                                                                         *)
(* The order in which a BTreeMap visits services is any order here.        *)
(***************************************************************************)
EXTENDS DepGraph, SequencesExt

CONSTANTS
    Count,      \* the number of services
    MaxDeps     \* bound: entries of a depends_on

ASSUME DepGraphAssumption == Count \in Nat /\ MaxDeps \in Nat

Ids == 1 .. Count

Undefined == 0  \* an id that no service has

VARIABLES
    parents,    \* the config: depends_on of each service
    inDegree,   \* in_degree: entries of depends_on that are not counted yet
    queue,      \* services without such entries that are not in the order
    order,      \* topo_order
    visits,     \* of each service the entries for the node taken last, to be counted
    result      \* "sorting", "ok", or the kind of GraphError

graphVars == <<parents, inDegree, queue, order, visits, result>>

\* What DepGraph::build rejects before it sorts.
Invalid ==
    IF \E s \in Ids : Undefined \in ToSet(parents[s]) THEN "unknown"
    ELSE IF \E s \in Ids : s \in ToSet(parents[s]) THEN "self"
    ELSE "none"

BuildInit ==
    /\ parents \in [Ids -> BoundedSeq(Ids \cup {Undefined}, MaxDeps)]
    /\ inDegree = [s \in Ids |-> Len(parents[s])]
    /\ queue \in SetToSeqs({s \in Ids : Len(parents[s]) = 0})
    /\ order = <<>>
    /\ visits = [s \in Ids |-> {}]
    /\ result = IF Invalid = "none" THEN "sorting" ELSE Invalid

\* The entries for the node taken last have been counted.
Counted == \A c \in Ids : visits[c] = {}

\* queue.pop_front(), and the services of dependents[node]: each once for
\* every entry of its depends_on that names the node.
Take ==
    /\ result = "sorting" /\ Counted /\ queue # <<>>
    /\ order' = Append(order, Head(queue))
    /\ queue' = Tail(queue)
    /\ visits' = [c \in Ids |-> {i \in DOMAIN parents[c] : parents[c][i] = Head(queue)}]
    /\ UNCHANGED <<parents, inDegree, result>>

\* (mutant) a service that is named twice counts once
VisitOnce(c, i) ==
    /\ i \in visits[c]
    /\ visits' = [visits EXCEPT ![c] = {}]
    /\ inDegree' = [inDegree EXCEPT ![c] = IF @ > 0 THEN @ - 1 ELSE 0]
    /\ queue' = IF inDegree'[c] = 0 THEN Append(queue, c) ELSE queue
    /\ UNCHANGED <<parents, order, result>>

\* (mutant) a service is queued by its first dependency
VisitEarly(c, i) ==
    /\ i \in visits[c]
    /\ visits' = [visits EXCEPT ![c] = @ \ {i}]
    /\ inDegree' = [inDegree EXCEPT ![c] = 0]
    /\ queue' = IF inDegree[c] > 0 THEN Append(queue, c) ELSE queue
    /\ UNCHANGED <<parents, order, result>>

\* One turn of the loop over children: saturating_sub, and into the queue at 0.
Visit(c, i) ==
    /\ i \in visits[c]
    /\ visits' = [visits EXCEPT ![c] = @ \ {i}]
    /\ inDegree' = [inDegree EXCEPT ![c] = IF @ > 0 THEN @ - 1 ELSE 0]
    /\ queue' = IF inDegree'[c] = 0 THEN Append(queue, c) ELSE queue
    /\ UNCHANGED <<parents, order, result>>

Done ==
    /\ result = "sorting" /\ Counted /\ queue = <<>>
    /\ result' = IF Len(order) = Count THEN "ok" ELSE "cycle"
    /\ UNCHANGED <<parents, inDegree, queue, order, visits>>

BuildNext ==
    \/ Take
    \/ \E c \in Ids : \E i \in visits[c] : Visit(c, i)
    \/ Done

BuildSpec == BuildInit /\ [][BuildNext]_graphVars

-----------------------------------------------------------------------------
(* Properties *)

DependsOn(s) == ToSet(parents[s]) \cap Ids

\* What s depends on, directly or through others (the reference definition:
\* the smallest set that holds what s depends on and what its members do).
Ancestors(s) ==
    {t \in Ids : \A A \in SUBSET Ids :
                    DependsOn(s) \subseteq A /\ (\A a \in A : DependsOn(a) \subseteq A) => t \in A}

Cyclic == \E s \in Ids : s \in Ancestors(s)

\* While it sorts: nobody is taken or queued twice, and everybody comes after
\* all it depends on, in whatever order the queue is filled.
DependenciesFirst ==
    /\ IsInjective(order \o queue)
    /\ \A i \in DOMAIN order : \A p \in ToSet(parents[order[i]]) :
            \E k \in 1 .. i - 1 : order[k] = p

\* A graph is accepted exactly if it has no cycle, whatever entries are
\* named twice and in whatever order the config lists them.
RejectsCycles == result \in {"ok", "cycle"} => (result = "cycle" <=> Cyclic)

\* In an accepted graph, whatever has failed: somebody is treated, and who
\* is blocked is blocked by a root cause it depends on.
BlockedByARootCause ==
    result = "ok" =>
        \A unhealthy \in SUBSET Ids :
            \A s \in Blocked(parents, unhealthy) :
                LET root == RootCause(parents, s, unhealthy)
                IN  root \in RootCauses(parents, unhealthy) /\ root \in Ancestors(s)

=============================================================================
