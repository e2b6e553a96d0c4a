----------------------------- MODULE NodeApprovals -----------------------------
(* The node of a run that waits for an approval, and its resumption          *)
(* (workflow_runtime/runner.py): the runner asks the gateway of the node's   *)
(* kind for the call, the gateway may put it up for approval, and a request  *)
(* to resume the run names the approval, its own or another, with which the  *)
(* gateway makes the call.  Approvals models what a gateway does between;    *)
(* WorkflowRuns the statuses of the run before and after the node.           *)
EXTENDS Naturals

CONSTANTS NodeRuns,    \* runs with one node to execute, and tool calls that belong to no run
          NodeResumes  \* requests to resume a run

NodeKinds == {"tool", "agent", "shell", "model", "http", "human", "direct"}

VARIABLES nodeKind,      \* the kind of the node of the run, or direct; it never changes
          nodeStatus,    \* the status of the run
          nodeTask,      \* the approval task its node created
          nodeCalls,     \* how often its call was made
          nodeResult,    \* whose call's result the node has
          resumption     \* each request: where it is, its run and the task it names

nodeVars == <<nodeKind, nodeStatus, nodeTask, nodeCalls, nodeResult, resumption>>

ToolTask == {"tool", "agent", "direct"}
NoResult == "none"
NoResumption == [at |-> "idle"]

NodeInit ==
    /\ nodeKind \in [NodeRuns -> NodeKinds]
    /\ nodeStatus = [r \in NodeRuns |-> "running"]
    /\ nodeTask = [r \in NodeRuns |-> "none"]
    /\ nodeCalls = [r \in NodeRuns |-> 0]
    /\ nodeResult = [r \in NodeRuns |-> NoResult]
    /\ resumption = [q \in NodeResumes |-> NoResumption]

SetStatusOf(r, s) == nodeStatus' = [nodeStatus EXCEPT ![r] = s]

(***************************************************************************)
(* The node is executed.                                                   *)
(***************************************************************************)
NodeSucceeds(r) == /\ nodeCalls' = [nodeCalls EXCEPT ![r] = @ + 1]
                   /\ nodeResult' = [nodeResult EXCEPT ![r] = r]
                   /\ SetStatusOf(r, "success")
                   /\ UNCHANGED <<nodeTask, resumption>>

\* The call was not made, or its result is an error.
NodeFails(r) == /\ \E made \in {0, 1} : nodeCalls' = [nodeCalls EXCEPT ![r] = @ + made]
                /\ SetStatusOf(r, "failed")
                /\ UNCHANGED <<nodeTask, nodeResult, resumption>>

\* The task is committed by the gateway before the run waits for it.
NodeWaits(r) == /\ nodeTask' = [nodeTask EXCEPT ![r] = "pending"]
                /\ SetStatusOf(r, "parking")
                /\ UNCHANGED <<nodeCalls, nodeResult, resumption>>

ExecutesNode(r, kind) == nodeStatus[r] = "running" /\ nodeKind[r] = kind

ToolOutput(r) == NodeSucceeds(r) \/ NodeFails(r) \/ NodeWaits(r)

RunToolNode(r)  == ExecutesNode(r, "tool")  /\ ToolOutput(r)
RunAgentNode(r) == ExecutesNode(r, "agent") /\ ToolOutput(r)
RunShellNode(r) == ExecutesNode(r, "shell") /\ (NodeSucceeds(r) \/ NodeFails(r) \/ NodeWaits(r))
RunModelNode(r) == ExecutesNode(r, "model") /\ (NodeSucceeds(r) \/ NodeFails(r) \/ NodeWaits(r))

\* An HTTP request is never put up for approval.
RunHttpNode(r)  == ExecutesNode(r, "http")  /\ (NodeSucceeds(r) \/ NodeFails(r))

\* The graph is interrupted; there is no task.
RunHumanNode(r) == /\ ExecutesNode(r, "human")
                   /\ SetStatusOf(r, "parking")
                   /\ UNCHANGED <<nodeTask, nodeCalls, nodeResult, resumption>>

\* A client calls a tool itself, without naming a run.
InvokeDirectly(r) == /\ ExecutesNode(r, "direct")
                     /\ nodeTask' = [nodeTask EXCEPT ![r] = "pending"]
                     /\ SetStatusOf(r, "answered")
                     /\ UNCHANGED <<nodeCalls, nodeResult, resumption>>

\* The checkpoint and then the run's status are written.
ParkNode(r) == /\ nodeStatus[r] = "parking"
               /\ SetStatusOf(r, "pending_approval")
               /\ UNCHANGED <<nodeTask, nodeCalls, nodeResult, resumption>>

\* Decisions, and how they overlap with resumptions, are those of Approvals.
DecideTask(r) == /\ nodeTask[r] = "pending"
                 /\ \E d \in {"approved", "rejected"} : nodeTask' = [nodeTask EXCEPT ![r] = d]
                 /\ UNCHANGED <<nodeStatus, nodeCalls, nodeResult, resumption>>

\* The tool gateway's own endpoint resumes a task, and the run keeps waiting.
ResumeByGateway(t) == /\ nodeTask[t] = "approved" /\ nodeKind[t] \in ToolTask
                      /\ nodeTask' = [nodeTask EXCEPT ![t] = "resumed"]
                      /\ nodeCalls' = [nodeCalls EXCEPT ![t] = @ + 1]
                      /\ UNCHANGED <<nodeStatus, nodeResult, resumption>>

(***************************************************************************)
(* A run is resumed.                                                       *)
(***************************************************************************)
\* The request's task is used before the one the run waits for.
StartResume(q, r, t) ==
    /\ resumption[q] = NoResumption
    /\ nodeStatus[r] = "pending_approval"
    /\ resumption' = [resumption EXCEPT ![q] = [at |-> "gateway", run |-> r, task |-> t]]
    /\ UNCHANGED <<nodeStatus, nodeTask, nodeCalls, nodeResult>>

Resumed(q) == resumption[q].run
Named(q)   == resumption[q].task
EndResume(q) == resumption' = [resumption EXCEPT ![q] = NoResumption]

\* The node was the last: the run is reported success.
FinishRun(q, result) == /\ nodeResult' = [nodeResult EXCEPT ![Resumed(q)] = result]
                        /\ SetStatusOf(Resumed(q), "success")
                        /\ EndResume(q)

ToCall(q) == /\ nodeTask[Named(q)] = "approved"
             /\ resumption' = [resumption EXCEPT ![q].at = "call"]
             /\ UNCHANGED <<nodeStatus, nodeTask, nodeCalls, nodeResult>>

AtGateway(q, kind) == resumption[q].at = "gateway" /\ nodeKind[Resumed(q)] = kind

\* What the tool gateway refuses (404, 403, 409) leaves the run as it is.
RefuseResumption(q) == EndResume(q) /\ UNCHANGED <<nodeStatus, nodeTask, nodeCalls, nodeResult>>

\* Every other refusal is a failure of the run.
FailResumption(q) == /\ SetStatusOf(Resumed(q), "failed")
                     /\ EndResume(q)
                     /\ UNCHANGED <<nodeTask, nodeCalls, nodeResult>>

ResumeToolNode(q)  == AtGateway(q, "tool") /\ \/ nodeKind[Named(q)] \in ToolTask /\ ToCall(q)
                                              \/ RefuseResumption(q)
ResumeAgentTool(q) == AtGateway(q, "agent") /\ \/ nodeKind[Named(q)] \in ToolTask /\ ToCall(q)
                                               \/ RefuseResumption(q)

\* The gateway takes the call, its run and its node from the task it is given.
ResumeShellNode(q) == AtGateway(q, "shell") /\ \/ nodeKind[Named(q)] = "shell" /\ ToCall(q)
                                               \/ FailResumption(q)

\* The model gateway compares the task's run and node with the request's.
ResumeModelNode(q) == AtGateway(q, "model") /\ \/ Named(q) = Resumed(q) /\ ToCall(q)
                                               \/ FailResumption(q)

\* A human approval is resumed by the graph, whatever task is named.
ResumeHumanNode(q) == /\ AtGateway(q, "human")
                      /\ FinishRun(q, Resumed(q))
                      /\ UNCHANGED <<nodeTask, nodeCalls>>

\* The call is made and the task is spent; an error is a failure of the run.
MakeCall(q) ==
    /\ resumption[q].at = "call"
    /\ nodeTask' = [nodeTask EXCEPT ![Named(q)] = "resumed"]
    /\ nodeCalls' = [nodeCalls EXCEPT ![Named(q)] = @ + 1]
    /\ \/ resumption' = [resumption EXCEPT ![q].at = "answer"] /\ UNCHANGED nodeStatus
       \/ SetStatusOf(Resumed(q), "failed") /\ EndResume(q)
    /\ UNCHANGED nodeResult

\* Mutant: the answer of a tool call is taken for the run's whichever it is.
OwnAnswer_Any(r, t) == TRUE

\* The answer of a tool call is compared with the run and the node it names.
OwnAnswer(r, t) == nodeKind[r] \in ToolTask => t = r \/ nodeKind[t] = "direct"

FinishNode(q) ==
    /\ resumption[q].at = "answer"
    /\ IF OwnAnswer(Resumed(q), Named(q))
       THEN FinishRun(q, Named(q)) /\ UNCHANGED <<nodeTask, nodeCalls>>
       ELSE FailResumption(q)

\* The process stops: the run waits as before, also for a task that is spent.
LoseResumption(q) == resumption[q] # NoResumption /\ RefuseResumption(q)

NodeStep ==
    \/ \E r \in NodeRuns :
          \/ RunToolNode(r) \/ RunAgentNode(r) \/ RunShellNode(r) \/ RunModelNode(r)
          \/ RunHttpNode(r) \/ RunHumanNode(r) \/ InvokeDirectly(r)
          \/ ParkNode(r) \/ DecideTask(r) \/ ResumeByGateway(r)
    \/ \E q \in NodeResumes :
          \/ \E r, t \in NodeRuns : StartResume(q, r, t)
          \/ ResumeToolNode(q) \/ ResumeAgentTool(q) \/ ResumeShellNode(q) \/ ResumeModelNode(q)
          \/ ResumeHumanNode(q) \/ MakeCall(q) \/ FinishNode(q) \/ LoseResumption(q)

NodeNext == NodeStep /\ UNCHANGED nodeKind

NodeSpec == NodeInit /\ [][NodeNext]_nodeVars

(***************************************************************************)
(* Properties.                                                             *)
(***************************************************************************)
\* A run that waited and succeeded did so by an approval that was given and is
\* spent, and no run but a shell node's takes the result of another run's call,
\* whatever tasks the requests to resume it named.
OwnResult ==
    \A r \in NodeRuns : nodeStatus[r] = "success" /\ nodeTask[r] # "none" =>
        LET t == nodeResult[r]
        IN  /\ t \in NodeRuns /\ nodeTask[t] = "resumed" /\ nodeCalls[t] > 0
            /\ nodeKind[r] # "shell" /\ t # r => nodeKind[r] # "model" /\ nodeKind[t] = "direct"

\* "approval task run mismatch" (execution/gateway.py): a shell node does not
\* succeed by the approval of another run.
ShellOwnResult ==
    \A r \in NodeRuns : nodeStatus[r] = "success" /\ nodeKind[r] = "shell" => nodeResult[r] = r
=============================================================================
