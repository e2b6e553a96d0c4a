------------------------------ MODULE AgentLoop ------------------------------
(* An agent node (workflow_runtime/agent.py): a LangGraph loop of a plan     *)
(* step, which asks the model for a decision, and a tool step, which makes   *)
(* the call through the tool gateway, under budgets of iterations, calls and *)
(* time; and its resumption after the approval of a call.                    *)
EXTENDS Naturals, Sequences, FiniteSets

CONSTANTS AgentBudgets,  \* the budgets a node may have
          AgentTools     \* the tools the model may name

AgentBudget == [max_iterations : Nat \ {0}, max_tool_calls : Nat, autonomy : 0 .. 3,
                allowed : SUBSET AgentTools]

ASSUME AgentBudgetsAreBudgets == AgentBudgets \subseteq AgentBudget

VARIABLES node,    \* the node's data
          agent,   \* the state of the subgraph
          calls    \* the calls the gateway has made or put up for approval

agentVars == <<node, agent, calls>>

NewAgent == [at |-> "plan", status |-> "running", iteration |-> 0, tool_calls |-> 0,
             observations |-> <<>>, decision |-> "none", steps |-> 0]

AgentInit ==
    /\ node \in AgentBudgets
    /\ agent = NewAgent
    /\ calls = 0

\* Mutant: the limit allows for the plan steps only.
RecursionLimit_Half(b) == b.max_iterations + 3

\* The steps LangGraph allows.
RecursionLimit(b) == IF b.max_iterations * 2 + 3 < 4 THEN 4 ELSE b.max_iterations * 2 + 3

\* A step of the graph.  At the limit LangGraph gives up and the node fails,
\* which EndsByBudget shows does not happen.
Step(next) ==
    /\ agent.steps < RecursionLimit(node)
    /\ agent' = [next EXCEPT !.steps = agent.steps + 1]

PlanBudget ==
    /\ agent.at = "plan"
    /\ agent.iteration >= node.max_iterations
    /\ Step([agent EXCEPT !.at = "end", !.status = "budget_exceeded", !.decision = "final"])
    /\ UNCHANGED <<node, calls>>

\* The model decides to end or to call a tool.
Plan(decision) ==
    /\ agent.at = "plan"
    /\ agent.iteration < node.max_iterations
    /\ Step([agent EXCEPT !.iteration = @ + 1, !.decision = decision,
               !.at = IF decision = "final" THEN "end" ELSE "tool",
               !.status = IF decision = "final" THEN "success" ELSE "running"])
    /\ UNCHANGED <<node, calls>>

\* The answer is no decision, the model call fails or awaits an approval.
PlanFails ==
    /\ agent.at = "plan"
    /\ agent.iteration < node.max_iterations
    /\ agent' = [agent EXCEPT !.at = "end", !.status = "failed"]
    /\ UNCHANGED <<node, calls>>

Callable(tool) ==
    /\ node.autonomy # 0
    /\ agent.tool_calls < node.max_tool_calls
    /\ node.allowed # {} => tool \in node.allowed

\* A tool the node may not call, and a call after the runtime budget.
RefuseTool(slow) ==
    /\ agent.at = "tool"
    /\ slow \/ ~Callable(agent.decision)
    /\ agent' = [agent EXCEPT !.at = "end", !.status = "failed"]
    /\ UNCHANGED <<node, calls>>

CallTool ==
    /\ agent.at = "tool"
    /\ Callable(agent.decision)
    /\ Step([agent EXCEPT !.at = "plan", !.tool_calls = @ + 1,
               !.observations = Append(@, agent.decision), !.decision = "none"])
    /\ calls' = calls + 1
    /\ UNCHANGED node

\* Mutant: the call that awaits its approval is not counted.
PendTool_Uncounted ==
    /\ agent.at = "tool"
    /\ Callable(agent.decision)
    /\ Step([agent EXCEPT !.at = "end", !.status = "pending_approval"])
    /\ calls' = calls + 1
    /\ UNCHANGED node

\* The call awaits an approval: the node pauses with what it has observed.
PendTool ==
    /\ agent.at = "tool"
    /\ Callable(agent.decision)
    /\ Step([agent EXCEPT !.at = "end", !.status = "pending_approval", !.tool_calls = @ + 1])
    /\ calls' = calls + 1
    /\ UNCHANGED node

\* The gateway refuses the call, or it fails.
ToolFails ==
    /\ agent.at = "tool"
    /\ Callable(agent.decision)
    /\ agent' = [agent EXCEPT !.at = "end", !.status = "failed"]
    /\ calls' = calls + 1
    /\ UNCHANGED node

\* The approved call has been made: its output is the last observation and
\* the node ends without another plan.
ResumeAgent ==
    /\ agent.status = "pending_approval"
    /\ agent' = [agent EXCEPT !.status = "resumed", !.observations = Append(@, agent.decision)]
    /\ UNCHANGED <<node, calls>>

AgentNext ==
    \/ PlanBudget \/ PlanFails \/ CallTool \/ PendTool \/ ToolFails \/ ResumeAgent
    \/ \E decision \in AgentTools \cup {"final"} : Plan(decision)
    \/ \E slow \in BOOLEAN : RefuseTool(slow)

AgentSpec == AgentInit /\ [][AgentNext]_agentVars

\* The node stays within its budgets, and it is they that end it, with an
\* answer, and never the step limit of the graph, which would fail the run.
EndsByBudget ==
    /\ agent.iteration <= node.max_iterations
    /\ calls <= node.max_tool_calls
    /\ agent.at \in {"plan", "tool"} => agent.steps < RecursionLimit(node)

\* A node that ends well accounts for every call: what it reports, and what
\* it observed, is what was called, over a pause for an approval too.
EveryCallIsObserved ==
    /\ agent.status # "failed" => agent.tool_calls = calls
    /\ agent.status \in {"success", "budget_exceeded", "resumed"} =>
          /\ Len(agent.observations) = calls
          /\ \A i \in DOMAIN agent.observations :
                node.allowed # {} => agent.observations[i] \in node.allowed
=============================================================================
