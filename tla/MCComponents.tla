----------------------------- MODULE MCComponents -----------------------------
(* One instance of every component that is modelled by itself.  A behaviour  *)
(* is one of a single component, the part: the variables of the others rest  *)
(* at an initial value, which their invariants are checked at as well.       *)
EXTENDS PolicyCenter, WorkflowGraph, WorkflowVersions, PromptReleases, ToolRegistry,
        CleanupSchedule, LifecycleRemediation, RunEvents, AgentLoop,
        CheckpointRetention, Knowledge, RunLessons, Chunking, RankFusion, Egress,
        TrustStore, NodeApprovals, SecretLeases, TLC

CONSTANT Parts   \* the components to check

VARIABLE part

----------------------------------------------------------------------------
\* Policies: a denial, a rule list that contradicts itself, one that does not.
AnyTarget  == [d \in Dimensions |-> {}]
Production == [AnyTarget EXCEPT !["environments"] = {"prod"}]
ToolRule(id, risks, match, action) ==
    [id |-> id, kind |-> "tool_invocation", risks |-> risks, match |-> match, action |-> action]
MCPolicyRules ==
    {<<ToolRule("r1", {"low", "high"}, Production, "deny")>>,
     <<ToolRule("r1", {"low"}, Production, "allow"), ToolRule("r2", {"low", "high"}, Production, "deny")>>,
     <<ToolRule("r1", {"low"}, Production, "allow"), ToolRule("r2", {"low"}, AnyTarget, "deny")>>}
MCSurfaces == {[kind |-> "tool_group", risk |-> "low", environment |-> "prod", ref |-> "g", tools |-> {}]}
MCRuntimeCalls ==
    {[kind |-> "tool_invocation", risk |-> r, refs |-> Production, flagged |-> FALSE] : r \in {"low", "high"}}

\* Graphs of a start, an end and one or two nodes between, with any edges of
\* a few; some have loops, nodes nothing leads to or a missing handle.
GraphNode(id, type) ==
    [id |-> id, type |-> type, risk |-> "low", tool_groups |-> {}, data |-> {},
     cases |-> IF type = "condition" THEN {"yes", "no"} ELSE {},
     approval_required |-> FALSE, approval_policy |-> FALSE]
GraphEdge(a, b, kind, handle) ==
    [source |-> a, target |-> b, kind |-> kind, loop |-> kind = "loop", handle |-> handle]
GraphNodes == <<GraphNode("s", "start"), GraphNode("c", "condition"), GraphNode("a", "llm"),
                GraphNode("b", "llm"), GraphNode("e", "end")>>
GraphEdges == {GraphEdge("s", "c", "sequence", "none"), GraphEdge("c", "a", "condition", "yes"),
               GraphEdge("c", "b", "condition", "no"), GraphEdge("c", "b", "condition", "maybe"),
               GraphEdge("a", "b", "sequence", "none"), GraphEdge("b", "a", "loop", "none"),
               GraphEdge("a", "e", "sequence", "none"), GraphEdge("c", "e", "condition", "no"),
               GraphEdge("e", "a", "sequence", "none")}
MCGraphs == {[nodes |-> GraphNodes, edges |-> E] : E \in SUBSET GraphEdges}

\* Workflows that call a tool of low risk, or of high risk without a policy.
Calling(risk) == [GraphNode("t", "http") EXCEPT !.data = {<<"tool_group", "g">>}, !.risk = risk]
MCDefinitions ==
    {[nodes |-> <<GraphNode("s", "start"), Calling(risk), GraphNode("e", "end")>>,
      edges |-> {GraphEdge("s", "t", "sequence", "none"), GraphEdge("t", "e", "sequence", "none")}]
        : risk \in {"low", "high"}}
MCCatalogs == {{}, {<<"tool_group", "g">>}}

EvalRun(recall) == [status |-> "completed", cases |-> 1, leakage |-> 0, deleted_visible |-> 0,
                    recall |-> recall, mrr |-> 6, context_recall |-> 8]
MCEvalRuns == {EvalRun(7), EvalRun(8)}

MCListings == {[t \in {"a"} |-> 0], [t \in {"a", "b"} |-> 2]}

MCForeignRules == {{"p1"}}

MCAgentBudgets == [max_iterations : 1 .. 3, max_tool_calls : 0 .. 3, autonomy : {0, 2},
                   allowed : {{}, {"a"}}]

\* A host, a name below it, and environments that list one, both or none.
MCUnder == {<<"y", "x">>}
EnvironmentOf(mode, hosts, ports) ==
    [hosts |-> hosts, ports |-> ports, mode |-> mode, configured |-> mode # "direct"]
MCEnvironments ==
    {EnvironmentOf(m, {[host |-> "x", wildcard |-> FALSE]}, {443}) : m \in Modes} \cup
    {EnvironmentOf(m, {[host |-> "x", wildcard |-> TRUE]}, {}) : m \in {"http_proxy", "docker_network"}} \cup
    {EnvironmentOf(m, {}, {443}) : m \in {"direct", "docker_network"}}
Inside(v6) == [kind |-> "private", v6 |-> v6]
MCAnswers == {{}, {[kind |-> "public", v6 |-> FALSE]},
              {[kind |-> "public", v6 |-> FALSE], Inside(FALSE)}, {Inside(TRUE)}}
----------------------------------------------------------------------------
\* The component whose part it is starts in any of its initial states.
MCInit ==
    /\ part \in Parts
    /\ PolicyInit /\ PromptInit /\ RegistryInit /\ ScheduleInit /\ RemediationInit /\ EventInit
    /\ CheckpointInit /\ KnowledgeInit /\ LessonInit
    /\ IF part = "graph" THEN GraphInit
       ELSE /\ graph = [nodes |-> GraphNodes, edges |-> {}]
            /\ frontier = <<>> /\ reachable = {} /\ verdict = "none"
    /\ WfInit
    /\ part # "versions" => catalog = {}
    /\ AgentInit
    /\ part # "agent" => node = [max_iterations |-> 1, max_tool_calls |-> 0, autonomy |-> 0, allowed |-> {}]
    /\ EgressInit
    /\ part # "egress" => deployed = "envoy"
    /\ TrustInit
    /\ part # "trust" => trustedStores = {}
    /\ NodeInit
    /\ part # "nodes" => nodeKind = [r \in NodeRuns |-> "http"]
    /\ LeaseInit
    /\ IF part = "chunking" THEN ChunkingInit
       ELSE chunking = [at |-> "parents", sections |-> SectionsOf(<<1>>), parents |-> <<>>, children |-> <<>>]
    /\ IF part = "ranking" THEN RankInit
       ELSE ranking = [at |-> "search", keyword |-> <<>>, vector |-> <<>>, fused |-> <<>>,
                       measures |-> NoMeasures]

Turn(p, Action, v) == IF part = p THEN Action ELSE UNCHANGED v

MCNext ==
    /\ UNCHANGED part
    /\ Turn("policies", PolicyNext, policyVars)
    /\ Turn("graph", GraphNext, graphVars)
    /\ Turn("versions", WfNext, wfVars)
    /\ Turn("prompts", PromptNext, promptVars)
    /\ Turn("tools", RegistryNext, registryVars)
    /\ Turn("schedule", ScheduleNext, scheduleVars)
    /\ Turn("remediation", RemediationNext, remediationVars)
    /\ Turn("events", EventNext, eventVars)
    /\ Turn("agent", AgentNext, agentVars)
    /\ Turn("checkpoints", CheckpointNext, checkpointVars)
    /\ Turn("knowledge", KnowledgeNext, knowledgeVars)
    /\ Turn("lessons", LessonNext, lessonVars)
    /\ Turn("chunking", ChunkingNext, chunking)
    /\ Turn("ranking", RankNext, ranking)
    /\ Turn("egress", EgressNext, egressVars)
    /\ Turn("trust", TrustNext, trustVars)
    /\ Turn("nodes", NodeNext, nodeVars)
    /\ Turn("leases", LeaseNext, leaseVars)
=============================================================================
