----------------------------- MODULE WorkflowDsl -----------------------------
(* Workflow definitions (workflows/dsl.py), what they refer to               *)
(* (workflows/yaml_io.py) and when one may be published                      *)
(* (workflows/publish_gate.py).  A definition is a sequence of nodes and a   *)
(* set of edges; a reference is a pair of a resource type and a name.        *)
EXTENDS Naturals, Sequences, FiniteSets

NodeTypes == {"start", "end", "agent", "llm", "condition", "mcp_tool", "http", "shell",
              "human_approval"}
EdgeKinds == {"sequence", "condition", "parallel", "loop", "resume"}

\* The data a node type carries names references of these types only.
DataRefs(type) ==
    CASE type = "agent"    -> {"tool_group"}
      [] type = "mcp_tool" -> {"tool_group", "mcp_server", "environment"}
      [] type = "http"     -> {"tool_group", "environment"}
      [] type = "shell"    -> {"shell_template", "environment"}
      [] OTHER             -> {}

NodesOf(def) == {def.nodes[i] : i \in DOMAIN def.nodes}
Ids(def)     == {n.id : n \in NodesOf(def)}
Node(def, id) == CHOOSE n \in NodesOf(def) : n.id = id
OfType(def, type) == {n \in NodesOf(def) : n.type = type}

\* An edge by itself: a loop has a loop configuration and only a loop has
\* one, and a conditional edge leaves by a handle.
EdgeOK(e) == /\ e.kind = "loop" <=> e.loop
             /\ e.kind = "condition" => e.handle # "none"

\* An edge in its graph.
EdgeFits(def, e) ==
    /\ {e.source, e.target} \subseteq Ids(def)
    /\ Node(def, e.target).type # "start"
    /\ Node(def, e.source).type # "end"
    /\ Node(def, e.source).type = "condition" => e.handle \in Node(def, e.source).cases

\* The checks of validate_graph before reachability.
GraphOK(def) ==
    /\ Cardinality(Ids(def)) = Len(def.nodes)
    /\ Cardinality(OfType(def, "start")) = 1
    /\ OfType(def, "end") # {}
    /\ \A e \in def.edges : EdgeOK(e) /\ EdgeFits(def, e)

Outgoing(def, id) == {e.target : e \in {x \in def.edges : x.source = id}}

\* permission_impact: the references, and whether an approval is needed.
References(def) ==
    UNION {{<<"tool_group", g>> : g \in n.tool_groups}
           \cup {r \in n.data : r[1] \in DataRefs(n.type)} : n \in NodesOf(def)}

ApprovalRequired(def) ==
    \E n \in NodesOf(def) :
        \/ n.risk \in {"high", "critical"}
        \/ n.type \in {"mcp_tool", "http", "shell"} /\ n.approval_required

MissingReferences(def, catalog) == References(def) \ catalog

\* A policy reference anywhere in the workflow satisfies the gate.
HasApprovalPolicy(def) == \E n \in NodesOf(def) : n.approval_policy

CanPublish(def, catalog) ==
    /\ MissingReferences(def, catalog) = {}
    /\ ApprovalRequired(def) => HasApprovalPolicy(def)
=============================================================================
