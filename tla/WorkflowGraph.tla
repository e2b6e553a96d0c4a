---------------------------- MODULE WorkflowGraph ----------------------------
(* WorkflowDefinition.validate_graph: the checks of nodes and edges, then    *)
(* the search that takes a node from the end of the frontier and adds the    *)
(* targets it has not reached, one iteration of the loop per step.           *)
EXTENDS WorkflowDsl

CONSTANTS Graphs   \* the definitions to validate

ASSUME GraphsAreTyped == \A d \in Graphs : /\ d.nodes \in Seq(NodesOf(d))
                                          /\ \A n \in NodesOf(d) : n.type \in NodeTypes
                                          /\ \A e \in d.edges : e.kind \in EdgeKinds

VARIABLES graph, frontier, reachable, verdict

graphVars == <<graph, frontier, reachable, verdict>>

GraphInit == /\ graph \in Graphs
             /\ frontier = <<>> /\ reachable = {} /\ verdict = "none"

RefuseGraph == /\ verdict = "none" /\ ~GraphOK(graph)
               /\ verdict' = "invalid"
               /\ UNCHANGED <<graph, frontier, reachable>>

StartSearch == /\ verdict = "none" /\ GraphOK(graph)
               /\ verdict' = "search"
               /\ \E n \in OfType(graph, "start") : frontier' = <<n.id>> /\ reachable' = {n.id}
               /\ UNCHANGED graph

\* The new targets join the frontier in the order of their edges, which the
\* outcome does not depend on: any order is allowed.
Orders(S) == {q \in [1 .. Cardinality(S) -> S] : \A i, j \in DOMAIN q : i # j => q[i] # q[j]}

\* Mutant: a target is marked only when it is taken from the frontier.
Visit_Late ==
    LET current == frontier[Len(frontier)]
        new     == Outgoing(graph, current) \ {frontier[i] : i \in DOMAIN frontier}
    IN  /\ verdict = "search" /\ frontier # <<>>
        /\ \E q \in Orders(new) : frontier' = SubSeq(frontier, 1, Len(frontier) - 1) \o q
        /\ reachable' = {current}
        /\ UNCHANGED <<graph, verdict>>

Visit ==
    LET current == frontier[Len(frontier)]
        new     == Outgoing(graph, current) \ reachable
    IN  /\ verdict = "search" /\ frontier # <<>>
        /\ \E q \in Orders(new) : frontier' = SubSeq(frontier, 1, Len(frontier) - 1) \o q
        /\ reachable' = reachable \cup new
        /\ UNCHANGED <<graph, verdict>>

Conclude == /\ verdict = "search" /\ frontier = <<>>
            /\ verdict' = IF Ids(graph) \subseteq reachable THEN "valid" ELSE "invalid"
            /\ UNCHANGED <<graph, frontier, reachable>>

GraphNext == RefuseGraph \/ StartSearch \/ Visit \/ Conclude

GraphSpec == GraphInit /\ [][GraphNext]_graphVars

\* What the search should find: a set of nodes is cut off when it leaves the
\* start out and no edge enters it.
CutOff(def, S) == /\ S # {} /\ S \subseteq Ids(def)
                  /\ \A n \in OfType(def, "start") : n.id \notin S
                  /\ \A e \in def.edges : e.target \in S => e.source \in S

\* A definition is accepted exactly when its checks hold and every set of
\* nodes without the start is entered by an edge: no part of an accepted
\* workflow, cycles included, is unreachable.
AcceptedIsReachable ==
    /\ verdict = "valid"   => /\ GraphOK(graph)
                              /\ \A S \in SUBSET Ids(graph) : ~CutOff(graph, S)
    /\ verdict = "invalid" => \/ ~GraphOK(graph)
                              \/ \E S \in SUBSET Ids(graph) : CutOff(graph, S)
=============================================================================
