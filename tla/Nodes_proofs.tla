---------------------------- MODULE Nodes_proofs ----------------------------
(* The nodes of a run and what it leaves: the loop of an agent node, nodes   *)
(* that wait for an approval, the run's events and its checkpoints.          *)
EXTENDS AgentLoop, NodeApprovals, RunEvents, CheckpointRetention, FiniteSetTheorems,
        SequenceTheorems, TLAPS

(***************************************************************************)
(* AgentLoop.                                                              *)
(***************************************************************************)
AgentState ==
    [at : {"plan", "tool", "end"},
     status : {"running", "success", "budget_exceeded", "pending_approval", "resumed", "failed"},
     iteration : Nat, tool_calls : Nat, observations : Seq(AgentTools),
     decision : AgentTools \cup {"none", "final"}, steps : Nat]

IsAllowed(tool) == node.allowed # {} => tool \in node.allowed

\* Where the loop stands tells how many steps it has taken, how many calls it
\* has made and how many of them it has observed.
AgentInv ==
    /\ node \in AgentBudgets
    /\ agent \in AgentState
    /\ calls \in Nat
    /\ agent.iteration <= node.max_iterations
    /\ calls <= node.max_tool_calls
    /\ \A i \in 1 .. Len(agent.observations) : IsAllowed(agent.observations[i])
    /\ agent.at \in {"plan", "tool"} =>
          agent.status = "running" /\ agent.tool_calls = calls /\ Len(agent.observations) = calls
    /\ agent.at = "plan" => agent.steps = 2 * agent.iteration
    /\ agent.at = "tool" => agent.steps + 1 = 2 * agent.iteration /\ agent.decision \in AgentTools
    /\ agent.at = "end" => agent.status # "running"
    /\ agent.status = "pending_approval" =>
          /\ agent.tool_calls = calls /\ Len(agent.observations) + 1 = calls
          /\ agent.decision \in AgentTools /\ IsAllowed(agent.decision)
    /\ agent.status \in {"success", "budget_exceeded", "resumed"} =>
          agent.tool_calls = calls /\ Len(agent.observations) = calls

\* The limit of the graph leaves room for two steps per iteration.
LEMMA LimitIsEnough ==
  ASSUME NEW b \in AgentBudgets
  PROVE  /\ b.max_iterations \in Nat \ {0} /\ b.max_tool_calls \in Nat
         /\ RecursionLimit(b) = 2 * b.max_iterations + 3
<1>1. b.max_iterations \in Nat \ {0} /\ b.max_tool_calls \in Nat
  BY AgentBudgetsAreBudgets DEF AgentBudget
<1> QED BY <1>1 DEF RecursionLimit

LEMMA AgentFirst == AgentInit => AgentInv
<1> SUFFICES ASSUME AgentInit PROVE AgentInv
  OBVIOUS
<1>1. node.max_iterations \in Nat \ {0} /\ node.max_tool_calls \in Nat
  BY LimitIsEnough DEF AgentInit
<1>2. NewAgent \in AgentState /\ Len(NewAgent.observations) = 0
  BY DEF NewAgent, AgentState
<1> QED BY <1>1, <1>2 DEF AgentInit, AgentInv, NewAgent

\* What an observed call adds.
LEMMA ObservationAdded ==
  ASSUME AgentInv, agent.decision \in AgentTools, IsAllowed(agent.decision),
         NEW o, o = Append(agent.observations, agent.decision)
  PROVE  /\ o \in Seq(AgentTools)
         /\ Len(o) = Len(agent.observations) + 1
         /\ \A i \in 1 .. Len(o) : IsAllowed(o[i])
<1>1. agent.observations \in Seq(AgentTools) /\ \A i \in 1 .. Len(agent.observations) : IsAllowed(agent.observations[i])
  BY DEF AgentInv, AgentState
<1> HIDE DEF IsAllowed
<1>2. /\ o \in Seq(AgentTools) /\ Len(o) = Len(agent.observations) + 1
      /\ \A i \in 1 .. Len(agent.observations) : o[i] = agent.observations[i]
      /\ o[Len(agent.observations) + 1] = agent.decision
  BY <1>1, AppendProperties
<1>3. ASSUME NEW i \in 1 .. Len(o) PROVE IsAllowed(o[i])
  <2>1. CASE i = Len(o)
    BY <1>2, <2>1
  <2>2. CASE i # Len(o)
    <3>1. Len(agent.observations) \in Nat
      BY <1>1, LenProperties
    <3>2. i \in 1 .. Len(agent.observations)
      BY <1>2, <2>2, <3>1
    <3> QED BY <1>1, <1>2, <3>2
  <2> QED BY <2>1, <2>2
<1> QED BY <1>2, <1>3

LEMMA AgentStep == AgentInv /\ [AgentNext]_agentVars => AgentInv'
<1> SUFFICES ASSUME AgentInv, [AgentNext]_agentVars PROVE AgentInv'
  OBVIOUS
<1>0. /\ node.max_iterations \in Nat \ {0} /\ node.max_tool_calls \in Nat
      /\ agent \in AgentState /\ Len(agent.observations) \in Nat
  BY LimitIsEnough, LenProperties DEF AgentInv, AgentState
<1>1. CASE PlanBudget
  <2>1. agent' = [at |-> "end", status |-> "budget_exceeded", iteration |-> agent.iteration,
                  tool_calls |-> agent.tool_calls, observations |-> agent.observations,
                  decision |-> "final", steps |-> agent.steps + 1]
    BY <1>0, <1>1 DEF PlanBudget, Step, AgentState
  <2>2. agent' \in AgentState
    BY <1>0, <2>1 DEF AgentState
  <2> QED BY <1>0, <1>1, <2>1, <2>2 DEF PlanBudget, AgentInv, AgentState, IsAllowed
<1>2. ASSUME NEW decision \in AgentTools \cup {"final"}, Plan(decision) PROVE AgentInv'
  <2>1. agent' = [at |-> IF decision = "final" THEN "end" ELSE "tool",
                  status |-> IF decision = "final" THEN "success" ELSE "running",
                  iteration |-> agent.iteration + 1, tool_calls |-> agent.tool_calls,
                  observations |-> agent.observations, decision |-> decision, steps |-> agent.steps + 1]
    BY <1>0, <1>2 DEF Plan, Step, AgentState
  <2>2. agent' \in AgentState
    BY <1>0, <1>2, <2>1 DEF AgentState
  <2> QED BY <1>0, <1>2, <2>1, <2>2 DEF Plan, AgentInv, AgentState, IsAllowed
<1>3. CASE PlanFails
  <2>1. agent' \in AgentState
    BY <1>0, <1>3 DEF PlanFails, AgentState
  <2> QED BY <1>0, <1>3, <2>1 DEF PlanFails, AgentInv, AgentState, IsAllowed
<1>4. ASSUME NEW slow \in BOOLEAN, RefuseTool(slow) PROVE AgentInv'
  <2>1. agent' \in AgentState
    BY <1>0, <1>4 DEF RefuseTool, AgentState
  <2> QED BY <1>0, <1>4, <2>1 DEF RefuseTool, AgentInv, AgentState, IsAllowed
<1>5. CASE CallTool
  <2> DEFINE o == Append(agent.observations, agent.decision)
  <2>1. /\ agent.decision \in AgentTools /\ IsAllowed(agent.decision)
        /\ agent.tool_calls = calls /\ calls < node.max_tool_calls
    BY <1>5 DEF CallTool, Callable, AgentInv, IsAllowed
  <2>2. agent' = [at |-> "plan", status |-> agent.status, iteration |-> agent.iteration,
                  tool_calls |-> agent.tool_calls + 1, observations |-> o,
                  decision |-> "none", steps |-> agent.steps + 1]
    BY <1>0, <1>5 DEF CallTool, Step, AgentState
  <2>3. o \in Seq(AgentTools) /\ Len(o) = Len(agent.observations) + 1 /\ \A i \in 1 .. Len(o) : IsAllowed(o[i])
    BY <2>1, ObservationAdded
  <2> HIDE DEF o
  <2>4. agent' \in AgentState
    BY <1>0, <2>2, <2>3 DEF AgentState
  <2>5. agent'.observations = o
    BY <1>0, <2>2 DEF AgentState
  <2>6. (\A i \in 1 .. Len(agent.observations) : IsAllowed(agent.observations[i]))'
    BY <1>5, <2>3, <2>5 DEF CallTool, IsAllowed
  <2> QED BY <1>0, <1>5, <2>1, <2>2, <2>3, <2>4, <2>5, <2>6 DEF CallTool, AgentInv, AgentState
<1>6. CASE PendTool
  <2>1. /\ agent.decision \in AgentTools /\ IsAllowed(agent.decision)
        /\ agent.tool_calls = calls /\ calls < node.max_tool_calls
    BY <1>6 DEF PendTool, Callable, AgentInv, IsAllowed
  <2>2. agent' = [at |-> "end", status |-> "pending_approval", iteration |-> agent.iteration,
                  tool_calls |-> agent.tool_calls + 1, observations |-> agent.observations,
                  decision |-> agent.decision, steps |-> agent.steps + 1]
    BY <1>0, <1>6 DEF PendTool, Step, AgentState
  <2>3. agent' \in AgentState
    BY <1>0, <2>2 DEF AgentState
  <2> QED BY <1>0, <1>6, <2>1, <2>2, <2>3 DEF PendTool, AgentInv, AgentState, IsAllowed
<1>7. CASE ToolFails
  <2>1. agent' \in AgentState
    BY <1>0, <1>7 DEF ToolFails, AgentState
  <2> QED BY <1>0, <1>7, <2>1 DEF ToolFails, Callable, AgentInv, AgentState, IsAllowed
<1>8. CASE ResumeAgent
  <2> DEFINE o == Append(agent.observations, agent.decision)
  <2>1. /\ agent.decision \in AgentTools /\ IsAllowed(agent.decision) /\ agent.at = "end"
    BY <1>8 DEF ResumeAgent, AgentInv, AgentState
  <2>2. agent' = [at |-> agent.at, status |-> "resumed", iteration |-> agent.iteration,
                  tool_calls |-> agent.tool_calls, observations |-> o,
                  decision |-> agent.decision, steps |-> agent.steps]
    BY <1>0, <1>8 DEF ResumeAgent, AgentState
  <2>3. o \in Seq(AgentTools) /\ Len(o) = Len(agent.observations) + 1 /\ \A i \in 1 .. Len(o) : IsAllowed(o[i])
    BY <2>1, ObservationAdded
  <2> HIDE DEF o
  <2>4. agent' \in AgentState
    BY <1>0, <2>2, <2>3 DEF AgentState
  <2>5. agent'.observations = o
    BY <1>0, <2>2 DEF AgentState
  <2>6. (\A i \in 1 .. Len(agent.observations) : IsAllowed(agent.observations[i]))'
    BY <1>8, <2>3, <2>5 DEF ResumeAgent, IsAllowed
  <2> QED BY <1>0, <1>8, <2>1, <2>2, <2>3, <2>4, <2>5, <2>6 DEF ResumeAgent, AgentInv, AgentState
<1>9. CASE UNCHANGED agentVars
  BY <1>9 DEF agentVars, AgentInv, IsAllowed
<1> QED BY <1>1, <1>2, <1>3, <1>4, <1>5, <1>6, <1>7, <1>8, <1>9 DEF AgentNext

\* An agent node ends by its budgets of iterations and calls, whatever they
\* are, and never by the step limit of its graph, which would fail the run.
THEOREM AgentBudgetCorrect == AgentSpec => []EndsByBudget
<1>1. AgentInv => EndsByBudget
  <2> SUFFICES ASSUME AgentInv PROVE EndsByBudget
    OBVIOUS
  <2>1. /\ node.max_iterations \in Nat \ {0} /\ agent.iteration \in Nat /\ agent.steps \in Nat
        /\ RecursionLimit(node) = 2 * node.max_iterations + 3
    BY LimitIsEnough DEF AgentInv, AgentState
  <2> QED BY <2>1 DEF AgentInv, EndsByBudget
<1> QED BY <1>1, AgentFirst, AgentStep, PTL DEF AgentSpec

\* A node that ends well has observed every call it made, and no tool outside
\* those allowed to it, over a pause for an approval too.
THEOREM AgentCallsCorrect == AgentSpec => []EveryCallIsObserved
<1>1. AgentInv => EveryCallIsObserved
  <2> SUFFICES ASSUME AgentInv PROVE EveryCallIsObserved
    OBVIOUS
  <2>1. DOMAIN agent.observations = 1 .. Len(agent.observations)
    BY LenProperties DEF AgentInv, AgentState
  <2>2. agent.status # "failed" => agent.tool_calls = calls
    BY DEF AgentInv, AgentState
  <2> QED BY <2>1, <2>2 DEF AgentInv, EveryCallIsObserved, IsAllowed
<1> QED BY <1>1, AgentFirst, AgentStep, PTL DEF AgentSpec

(***************************************************************************)
(* NodeApprovals: whose result a run that waited succeeds with, for any    *)
(* numbers of runs of any kinds, of tool calls and of requests to resume.  *)
(***************************************************************************)
TaskStates  == {"none", "pending", "approved", "rejected", "resumed"}
Resumptions == [at : {"gateway", "call", "answer"}, run : NodeRuns, task : NodeRuns]

NodeTypeOK ==
    /\ nodeStatus \in [NodeRuns -> {"running", "parking", "answered", "pending_approval", "success", "failed"}]
    /\ nodeTask \in [NodeRuns -> TaskStates]
    /\ nodeCalls \in [NodeRuns -> Nat]
    /\ nodeResult \in [NodeRuns -> NodeRuns \cup {NoResult}]
    /\ resumption \in [NodeResumes -> Resumptions \cup {NoResumption}]

\* A node that is still to be executed has no task, and a human node or a
\* request never gets one.
TasksOK ==
    \A r \in NodeRuns : nodeStatus[r] = "running" \/ nodeKind[r] = "human" => nodeTask[r] = "none"

\* The kinds a call may be made for, and with which task.
MayCall(r, t) ==
    \/ nodeKind[r] \in {"tool", "agent"} /\ nodeKind[t] \in ToolTask
    \/ nodeKind[r] = "shell"
    \/ nodeKind[r] = "model" /\ t = r

\* A request that passed the gateway names a task that was approved, and one
\* that has its answer a task that is spent.
CallsOK ==
    \A q \in NodeResumes :
        /\ resumption[q].at \in {"call", "answer"} =>
              MayCall(Resumed(q), Named(q)) /\ nodeTask[Named(q)] \in {"approved", "resumed"}
        /\ resumption[q].at = "answer" => nodeTask[Named(q)] = "resumed" /\ nodeCalls[Named(q)] > 0

NodeInv == NodeTypeOK /\ TasksOK /\ CallsOK /\ OwnResult

LEMMA NodeFirst == NodeInit => NodeInv
  BY DEF NodeInit, NodeInv, NodeTypeOK, TasksOK, CallsOK, OwnResult, TaskStates, NoResumption, NoResult

\* What a task has come to is never taken back, and its calls are counted up.
Spent == \A t \in NodeRuns :
            /\ nodeTask[t] \in {"approved", "resumed"} => nodeTask'[t] \in {"approved", "resumed"}
            /\ nodeTask[t] = "resumed" => nodeTask'[t] = "resumed"
            /\ nodeCalls'[t] \in Nat /\ nodeCalls'[t] >= nodeCalls[t]

\* A step of one run's node: only its own row changes, and no result is taken.
LEMMA NodeRowStep ==
  ASSUME NodeInv, UNCHANGED <<nodeKind, resumption>>, NEW r \in NodeRuns,
         NEW s \in {"parking", "answered", "pending_approval", "success", "failed"}, NEW t \in TaskStates,
         nodeStatus' = [nodeStatus EXCEPT ![r] = s],
         nodeTask' = [nodeTask EXCEPT ![r] = t],
         nodeKind[r] = "human" => t = "none",
         nodeTask[r] \in {"approved", "resumed"} => t = nodeTask[r],
         nodeCalls' \in [NodeRuns -> Nat], \A x \in NodeRuns : nodeCalls'[x] >= nodeCalls[x],
         \/ s # "success" /\ UNCHANGED nodeResult
         \/ t = "none" /\ nodeResult' = [nodeResult EXCEPT ![r] = r]
  PROVE  NodeInv'
<1>1. NodeTypeOK'
  BY DEF NodeInv, NodeTypeOK
<1>2. TasksOK'
  BY DEF NodeInv, NodeTypeOK, TasksOK
<1>3. Spent
  BY DEF NodeInv, NodeTypeOK, Spent
<1>4. CallsOK'
  BY <1>3 DEF NodeInv, NodeTypeOK, CallsOK, MayCall, Resumed, Named, Spent, Resumptions, NoResumption
<1>5. OwnResult'
  BY <1>3 DEF NodeInv, NodeTypeOK, OwnResult, Spent
<1> QED BY <1>1, <1>2, <1>4, <1>5 DEF NodeInv

\* A step of a request to resume before its call: no row changes.
LEMMA RequestStep ==
  ASSUME NodeInv, UNCHANGED <<nodeKind, nodeStatus, nodeTask, nodeCalls, nodeResult>>,
         NEW q \in NodeResumes, NEW x \in Resumptions \cup {NoResumption},
         resumption' = [resumption EXCEPT ![q] = x],
         x # NoResumption => \/ x.at = "gateway"
                             \/ x.at = "call" /\ MayCall(x.run, x.task) /\ nodeTask[x.task] = "approved"
  PROVE  NodeInv'
<1>1. NodeTypeOK'
  BY DEF NodeInv, NodeTypeOK
<1>2. TasksOK' /\ OwnResult'
  BY DEF NodeInv, TasksOK, OwnResult
<1>3. ASSUME NEW p \in NodeResumes, resumption'[p].at \in {"call", "answer"}
      PROVE  /\ MayCall(resumption'[p].run, resumption'[p].task)
             /\ nodeTask[resumption'[p].task] \in {"approved", "resumed"}
             /\ resumption'[p].at = "answer" =>
                   nodeTask[resumption'[p].task] = "resumed" /\ nodeCalls[resumption'[p].task] > 0
  <2>1. CASE p = q
    BY <1>3, <2>1 DEF NodeInv, NodeTypeOK, Resumptions, NoResumption
  <2>2. CASE p # q
    BY <1>3, <2>2 DEF NodeInv, NodeTypeOK, CallsOK, Resumed, Named
  <2> QED BY <2>1, <2>2
<1>4. CallsOK'
  BY <1>3 DEF CallsOK, MayCall, Resumed, Named
<1> QED BY <1>1, <1>2, <1>4 DEF NodeInv

\* A request that is given up, whether or not its run fails with it.
LEMMA EndStep ==
  ASSUME NodeInv, UNCHANGED <<nodeKind, nodeTask, nodeCalls, nodeResult>>,
         NEW q \in NodeResumes, resumption[q] # NoResumption, EndResume(q),
         SetStatusOf(Resumed(q), "failed") \/ UNCHANGED nodeStatus
  PROVE  NodeInv'
<1>1. Resumed(q) \in NodeRuns
  BY DEF NodeInv, NodeTypeOK, Resumed, Resumptions
<1>2. NodeTypeOK'
  BY <1>1 DEF NodeInv, NodeTypeOK, EndResume, SetStatusOf
<1>3. TasksOK' /\ OwnResult'
  BY <1>1 DEF NodeInv, NodeTypeOK, TasksOK, OwnResult, EndResume, SetStatusOf
<1>4. CallsOK'
  BY <1>1 DEF NodeInv, NodeTypeOK, CallsOK, MayCall, Resumed, Named, EndResume, NoResumption
<1> QED BY <1>2, <1>3, <1>4 DEF NodeInv

\* The call spends the task, and its run waits for the answer or fails.
LEMMA CallStep == ASSUME NodeInv, UNCHANGED nodeKind, NEW q \in NodeResumes, MakeCall(q) PROVE NodeInv'
<1> DEFINE r == Resumed(q)
           t == Named(q)
<1>1. /\ resumption[q] \in Resumptions /\ resumption[q].at = "call"
      /\ r \in NodeRuns /\ t \in NodeRuns /\ MayCall(r, t) /\ nodeTask[t] \in {"approved", "resumed"}
  BY DEF NodeInv, NodeTypeOK, CallsOK, MakeCall, Resumed, Named, Resumptions, NoResumption
<1>2. nodeTask' = [nodeTask EXCEPT ![t] = "resumed"] /\ nodeCalls' = [nodeCalls EXCEPT ![t] = @ + 1]
  BY DEF MakeCall
<1>3. Spent /\ nodeTask'[t] = "resumed" /\ nodeCalls'[t] > 0
  BY <1>1, <1>2 DEF NodeInv, NodeTypeOK, Spent
<1>4. /\ nodeStatus' = nodeStatus \/ nodeStatus' = [nodeStatus EXCEPT ![r] = "failed"]
      /\ UNCHANGED nodeResult
  BY DEF MakeCall, SetStatusOf
<1>5. /\ [resumption[q] EXCEPT !.at = "answer"] \in Resumptions
      /\ [resumption[q] EXCEPT !.at = "answer"].run = r /\ [resumption[q] EXCEPT !.at = "answer"].task = t
  BY <1>1 DEF Resumptions, Resumed, Named
<1>6. \E x \in Resumptions \cup {NoResumption} :
          /\ resumption' = [resumption EXCEPT ![q] = x]
          /\ x # NoResumption => x.run = r /\ x.task = t
  <2>1. CASE resumption' = [resumption EXCEPT ![q].at = "answer"]
    BY <1>5, <2>1
  <2>2. CASE EndResume(q)
    BY <2>2 DEF EndResume
  <2> QED BY <2>1, <2>2 DEF MakeCall
<1>7. NodeTypeOK'
  BY <1>1, <1>2, <1>4, <1>6 DEF NodeInv, NodeTypeOK, TaskStates
<1>8. TasksOK'
  BY <1>1, <1>2, <1>4 DEF NodeInv, NodeTypeOK, TasksOK
<1>9. ASSUME NEW p \in NodeResumes, resumption'[p].at \in {"call", "answer"}
      PROVE  /\ MayCall(resumption'[p].run, resumption'[p].task)
             /\ nodeTask'[resumption'[p].task] \in {"approved", "resumed"}
             /\ resumption'[p].at = "answer" =>
                   nodeTask'[resumption'[p].task] = "resumed" /\ nodeCalls'[resumption'[p].task] > 0
  <2>1. CASE p = q
    BY <1>1, <1>3, <1>6, <1>9, <2>1 DEF NodeInv, NodeTypeOK, NoResumption
  <2>2. CASE p # q
    <3>1. resumption'[p] = resumption[p]
      BY <1>6, <2>2 DEF NodeInv, NodeTypeOK
    <3>2. resumption[p] \in Resumptions
      BY <3>1, <1>9 DEF NodeInv, NodeTypeOK, NoResumption
    <3>3. resumption[p].task \in NodeRuns
      BY <3>2 DEF Resumptions
    <3>4. /\ MayCall(resumption[p].run, resumption[p].task)
          /\ nodeTask[resumption[p].task] \in {"approved", "resumed"}
          /\ resumption[p].at = "answer" =>
                nodeTask[resumption[p].task] = "resumed" /\ nodeCalls[resumption[p].task] > 0
      BY <1>9, <3>1 DEF NodeInv, CallsOK, Resumed, Named
    <3>5. nodeCalls[resumption[p].task] \in Nat
      BY <3>3 DEF NodeInv, NodeTypeOK
    <3> HIDE DEF r, t
    <3> QED BY <1>3, <3>1, <3>3, <3>4, <3>5 DEF Spent
  <2> QED BY <2>1, <2>2
<1>10. CallsOK'
  BY <1>9, UNCHANGED nodeKind DEF CallsOK, MayCall, Resumed, Named
<1>11. OwnResult'
  BY <1>1, <1>2, <1>3, <1>4 DEF NodeInv, NodeTypeOK, TasksOK, OwnResult, Spent
<1> QED BY <1>7, <1>8, <1>10, <1>11 DEF NodeInv

\* A run that is finished takes the result of a spent task it may take.
LEMMA FinishStep ==
  ASSUME NodeInv, UNCHANGED <<nodeKind, nodeTask, nodeCalls>>, NEW q \in NodeResumes,
         resumption[q] # NoResumption, NEW t \in NodeRuns, FinishRun(q, t),
         \/ nodeTask[Resumed(q)] = "none"
         \/ /\ nodeTask[t] = "resumed" /\ nodeCalls[t] > 0
            /\ MayCall(Resumed(q), t) /\ OwnAnswer(Resumed(q), t)
  PROVE  NodeInv'
<1> DEFINE r == Resumed(q)
<1>1. r \in NodeRuns
  BY DEF NodeInv, NodeTypeOK, Resumed, Resumptions
<1>2. /\ nodeResult' = [nodeResult EXCEPT ![r] = t]
      /\ nodeStatus' = [nodeStatus EXCEPT ![r] = "success"]
      /\ resumption' = [resumption EXCEPT ![q] = NoResumption]
  BY DEF FinishRun, SetStatusOf, EndResume
<1>3. NodeTypeOK'
  BY <1>1, <1>2 DEF NodeInv, NodeTypeOK
<1>4. TasksOK'
  BY <1>1, <1>2 DEF NodeInv, NodeTypeOK, TasksOK
<1>5. CallsOK'
  BY <1>1, <1>2 DEF NodeInv, NodeTypeOK, CallsOK, MayCall, Resumed, Named, NoResumption
<1>6. OwnResult'
  BY <1>1, <1>2 DEF NodeInv, NodeTypeOK, OwnResult, OwnAnswer, MayCall, ToolTask
<1> QED BY <1>3, <1>4, <1>5, <1>6 DEF NodeInv

\* The node's own steps.
LEMMA NodeOutputStep ==
  ASSUME NodeInv, UNCHANGED nodeKind, NEW r \in NodeRuns, nodeStatus[r] = "running", nodeKind[r] # "human",
         NodeSucceeds(r) \/ NodeFails(r) \/ NodeWaits(r)
  PROVE  NodeInv'
<1>1. /\ nodeTask \in [NodeRuns -> TaskStates] /\ nodeCalls \in [NodeRuns -> Nat]
      /\ nodeTask[r] = "none" /\ nodeTask = [nodeTask EXCEPT ![r] = "none"]
  BY DEF NodeInv, NodeTypeOK, TasksOK
<1> USE DEF SetStatusOf
<1>2. CASE NodeSucceeds(r)
  <2>1. /\ UNCHANGED <<nodeKind, resumption>>
        /\ nodeStatus' = [nodeStatus EXCEPT ![r] = "success"]
        /\ nodeTask' = [nodeTask EXCEPT ![r] = "none"]
        /\ nodeResult' = [nodeResult EXCEPT ![r] = r]
    BY <1>1, <1>2 DEF NodeSucceeds
  <2>2. nodeCalls' \in [NodeRuns -> Nat] /\ \A x \in NodeRuns : nodeCalls'[x] >= nodeCalls[x]
    BY <1>1, <1>2 DEF NodeSucceeds
  <2>3. "none" \in TaskStates
    BY DEF TaskStates
  <2> QED BY <1>1, <2>1, <2>2, <2>3, NodeRowStep
<1>3. CASE NodeFails(r)
  <2>1. /\ UNCHANGED <<nodeKind, resumption, nodeResult>>
        /\ nodeStatus' = [nodeStatus EXCEPT ![r] = "failed"]
        /\ nodeTask' = [nodeTask EXCEPT ![r] = "none"]
    BY <1>1, <1>3 DEF NodeFails
  <2>2. nodeCalls' \in [NodeRuns -> Nat] /\ \A x \in NodeRuns : nodeCalls'[x] >= nodeCalls[x]
    BY <1>1, <1>3 DEF NodeFails
  <2>3. "none" \in TaskStates
    BY DEF TaskStates
  <2> QED BY <1>1, <2>1, <2>2, <2>3, NodeRowStep
<1>4. CASE NodeWaits(r)
  <2>1. /\ UNCHANGED <<nodeKind, resumption, nodeResult, nodeCalls>>
        /\ nodeStatus' = [nodeStatus EXCEPT ![r] = "parking"]
        /\ nodeTask' = [nodeTask EXCEPT ![r] = "pending"]
    BY <1>1, <1>4 DEF NodeWaits
  <2>2. nodeCalls' \in [NodeRuns -> Nat] /\ \A x \in NodeRuns : nodeCalls'[x] >= nodeCalls[x]
    BY <1>1, <2>1
  <2>3. "pending" \in TaskStates
    BY DEF TaskStates
  <2> QED BY <1>1, <2>1, <2>2, <2>3, NodeRowStep
<1> QED BY <1>2, <1>3, <1>4

LEMMA NodeOwnStep ==
  ASSUME NodeInv, UNCHANGED nodeKind, NEW r \in NodeRuns,
         \/ RunToolNode(r) \/ RunAgentNode(r) \/ RunShellNode(r) \/ RunModelNode(r)
         \/ RunHttpNode(r) \/ RunHumanNode(r) \/ InvokeDirectly(r)
         \/ ParkNode(r) \/ DecideTask(r) \/ ResumeByGateway(r)
  PROVE  NodeInv'
<1>1. /\ nodeTask \in [NodeRuns -> TaskStates] /\ nodeCalls \in [NodeRuns -> Nat]
      /\ nodeTask[r] \in TaskStates /\ nodeTask = [nodeTask EXCEPT ![r] = nodeTask[r]]
      /\ nodeKind[r] = "human" => nodeTask[r] = "none"
  BY DEF NodeInv, NodeTypeOK, TasksOK
<1>2. CASE RunToolNode(r) \/ RunAgentNode(r) \/ RunShellNode(r) \/ RunModelNode(r) \/ RunHttpNode(r)
  BY <1>2, NodeOutputStep
     DEF RunToolNode, RunAgentNode, RunShellNode, RunModelNode, RunHttpNode, ExecutesNode, ToolOutput
<1>3. UNCHANGED nodeCalls =>
          nodeCalls' \in [NodeRuns -> Nat] /\ \A x \in NodeRuns : nodeCalls'[x] >= nodeCalls[x]
  BY <1>1
<1>4. CASE RunHumanNode(r) \/ ParkNode(r)
  <2>1. UNCHANGED <<nodeKind, resumption, nodeResult, nodeCalls>> /\ nodeTask' = [nodeTask EXCEPT ![r] = nodeTask[r]]
    BY <1>1, <1>4 DEF RunHumanNode, ParkNode
  <2>2. \E s \in {"parking", "pending_approval"} : nodeStatus' = [nodeStatus EXCEPT ![r] = s]
    BY <1>4 DEF RunHumanNode, ParkNode, SetStatusOf
  <2> QED BY <1>1, <1>3, <2>1, <2>2, NodeRowStep
<1>5. CASE InvokeDirectly(r)
  <2>1. nodeTask[r] = "none" /\ nodeKind[r] # "human" /\ "pending" \in TaskStates
    BY <1>5 DEF InvokeDirectly, ExecutesNode, NodeInv, TasksOK, TaskStates
  <2>2. /\ UNCHANGED <<nodeKind, resumption, nodeResult, nodeCalls>>
        /\ nodeTask' = [nodeTask EXCEPT ![r] = "pending"]
        /\ nodeStatus' = [nodeStatus EXCEPT ![r] = "answered"]
    BY <1>5 DEF InvokeDirectly, SetStatusOf
  <2> QED BY <1>3, <2>1, <2>2, NodeRowStep
<1> DEFINE Same == UNCHANGED <<nodeKind, nodeStatus, nodeResult, resumption>>
\* A decision and a resumption of a task change no status.
<1>6. ASSUME NEW s \in TaskStates, Same, nodeTask[r] # "none",
             nodeTask' = [nodeTask EXCEPT ![r] = s], nodeTask[r] \in {"approved", "resumed"} => s = "resumed",
             nodeCalls' \in [NodeRuns -> Nat], \A x \in NodeRuns : nodeCalls'[x] >= nodeCalls[x]
      PROVE  NodeInv'
  <2>1. NodeTypeOK'
    BY <1>6 DEF NodeInv, NodeTypeOK
  <2>2. TasksOK'
    BY <1>6 DEF NodeInv, NodeTypeOK, TasksOK
  <2>3. Spent
    BY <1>6 DEF NodeInv, NodeTypeOK, Spent
  <2>4. CallsOK'
    BY <1>6, <2>3 DEF NodeInv, NodeTypeOK, CallsOK, MayCall, Resumed, Named, Spent, Resumptions, NoResumption
  <2>5. OwnResult'
    BY <1>6, <2>3 DEF NodeInv, NodeTypeOK, OwnResult, Spent
  <2> QED BY <2>1, <2>2, <2>4, <2>5 DEF NodeInv
<1>7. CASE DecideTask(r)
  <2>1. PICK s \in {"approved", "rejected"} : nodeTask' = [nodeTask EXCEPT ![r] = s]
    BY <1>7 DEF DecideTask
  <2>2. Same /\ UNCHANGED nodeCalls /\ nodeTask[r] = "pending"
    BY <1>7 DEF DecideTask
  <2>3. s \in TaskStates
    BY DEF TaskStates
  <2> QED BY <1>6, <1>3, <2>1, <2>2, <2>3
<1>8. CASE ResumeByGateway(r)
  <2>1. Same /\ nodeTask[r] = "approved" /\ nodeTask' = [nodeTask EXCEPT ![r] = "resumed"]
    BY <1>8 DEF ResumeByGateway
  <2>2. nodeCalls' \in [NodeRuns -> Nat] /\ \A x \in NodeRuns : nodeCalls'[x] >= nodeCalls[x]
    BY <1>1, <1>8 DEF ResumeByGateway
  <2>3. "resumed" \in TaskStates
    BY DEF TaskStates
  <2> QED BY <1>6, <2>1, <2>2, <2>3
<1> QED BY <1>2, <1>4, <1>5, <1>7, <1>8

\* The requests to resume a run.
LEMMA ResumptionStep ==
  ASSUME NodeInv, UNCHANGED nodeKind, NEW q \in NodeResumes,
         \/ \E r, t \in NodeRuns : StartResume(q, r, t)
         \/ ResumeToolNode(q) \/ ResumeAgentTool(q) \/ ResumeShellNode(q) \/ ResumeModelNode(q)
         \/ ResumeHumanNode(q) \/ MakeCall(q) \/ FinishNode(q) \/ LoseResumption(q)
  PROVE  NodeInv'
<1>1. resumption[q] # NoResumption =>
         resumption[q] \in Resumptions /\ Resumed(q) \in NodeRuns /\ Named(q) \in NodeRuns
  BY DEF NodeInv, NodeTypeOK, Resumptions, Resumed, Named
<1>2. ASSUME NEW r \in NodeRuns, NEW t \in NodeRuns, StartResume(q, r, t) PROVE NodeInv'
  <2>1. [at |-> "gateway", run |-> r, task |-> t] \in Resumptions
    BY DEF Resumptions
  <2> QED BY <1>2, <2>1, RequestStep DEF StartResume
<1>3. ASSUME NEW kind, AtGateway(q, kind) PROVE resumption[q] # NoResumption
  BY <1>3 DEF AtGateway, NoResumption
<1>4. ASSUME resumption[q] # NoResumption, MayCall(Resumed(q), Named(q)), ToCall(q) PROVE NodeInv'
  <2> DEFINE x == [resumption[q] EXCEPT !.at = "call"]
  <2>1. x \in Resumptions /\ x.at = "call" /\ x.run = Resumed(q) /\ x.task = Named(q)
    BY <1>1, <1>4 DEF Resumptions, Resumed, Named
  <2>2. resumption' = [resumption EXCEPT ![q] = x]
    BY <1>4 DEF ToCall
  <2> HIDE DEF x
  <2> QED BY <1>4, <2>1, <2>2, RequestStep DEF ToCall
<1>5. ASSUME resumption[q] # NoResumption, RefuseResumption(q) \/ FailResumption(q) PROVE NodeInv'
  BY <1>5, EndStep DEF RefuseResumption, FailResumption
<1>6. CASE ResumeToolNode(q) \/ ResumeAgentTool(q)
  BY <1>3, <1>4, <1>5, <1>6 DEF ResumeToolNode, ResumeAgentTool, AtGateway, MayCall
<1>7. CASE ResumeShellNode(q) \/ ResumeModelNode(q)
  BY <1>3, <1>4, <1>5, <1>7 DEF ResumeShellNode, ResumeModelNode, AtGateway, MayCall
<1>8. CASE ResumeHumanNode(q)
  <2>1. nodeTask[Resumed(q)] = "none"
    BY <1>1, <1>3, <1>8 DEF ResumeHumanNode, AtGateway, NodeInv, TasksOK
  <2> QED BY <1>1, <1>3, <1>8, <2>1, FinishStep DEF ResumeHumanNode
<1>9. CASE FinishNode(q)
  <2>1. /\ resumption[q] # NoResumption /\ nodeTask[Named(q)] = "resumed" /\ nodeCalls[Named(q)] > 0
        /\ MayCall(Resumed(q), Named(q))
    BY <1>9 DEF FinishNode, NodeInv, CallsOK, NoResumption
  <2>2. CASE OwnAnswer(Resumed(q), Named(q))
    BY <1>1, <1>9, <2>1, <2>2, FinishStep DEF FinishNode
  <2>3. CASE ~OwnAnswer(Resumed(q), Named(q))
    BY <1>5, <1>9, <2>1, <2>3 DEF FinishNode
  <2> QED BY <2>2, <2>3
<1>10. CASE LoseResumption(q)
  BY <1>5, <1>10 DEF LoseResumption
<1> QED BY <1>2, <1>6, <1>7, <1>8, <1>9, <1>10, CallStep

LEMMA NodeStepOK == NodeInv /\ [NodeNext]_nodeVars => NodeInv'
<1> SUFFICES ASSUME NodeInv, [NodeNext]_nodeVars PROVE NodeInv'
  OBVIOUS
<1>1. CASE NodeNext
  BY <1>1, NodeOwnStep, ResumptionStep DEF NodeNext, NodeStep
<1>2. CASE UNCHANGED nodeVars
  BY <1>2 DEF nodeVars, NodeInv, NodeTypeOK, TasksOK, CallsOK, MayCall, OwnResult, Resumed, Named
<1> QED BY <1>1, <1>2

\* A run that waited succeeds by an approval that is spent, and takes no other
\* run's result unless it is a shell node's (runner.py, resume).
THEOREM OwnResultCorrect == NodeSpec => []OwnResult
<1>1. NodeInv => OwnResult
  BY DEF NodeInv
<1> QED BY <1>1, NodeFirst, NodeStepOK, PTL DEF NodeSpec

(***************************************************************************)
(* RunEvents: what a stream delivers, for any numbers of recorders, of     *)
(* followers and of events, and any size of a page.                        *)
(***************************************************************************)
Streams == [cursor : Nat, page : Seq(Nat), got : SUBSET Nat]

\* Sequences have no gaps: a recorder's number is the next one or is taken.
EventsAreDense(k) ==
    /\ k \in Nat
    /\ events = 1 .. k
    /\ recording \in [Recorders -> 0 .. (k + 1)]

\* The page of a stream begins with the first event after its cursor and
\* leaves none out.
PageIsWhole(f) ==
    LET page == stream[f].page
    IN  /\ \A i \in 1 .. Len(page) : page[i] \in events /\ page[i] > stream[f].cursor
        /\ \A i, j \in 1 .. Len(page) : i < j => page[i] < page[j]
        /\ \A e \in events : e > stream[f].cursor =>
              (\E i \in 1 .. Len(page) : page[i] = e) \/ \A i \in 1 .. Len(page) : page[i] < e

\* Its cursor never points beyond what is recorded.
StreamsOK ==
    /\ stream \in [Followers -> Streams]
    /\ \A f \in Followers :
          /\ stream[f].cursor = 0 \/ stream[f].cursor \in events
          /\ PageIsWhole(f)

EventInv == (\E k : EventsAreDense(k)) /\ StreamsOK /\ NothingIsSkipped

LEMMA EventFirst == EventInit => EventInv
<1> SUFFICES ASSUME EventInit PROVE EventInv
  OBVIOUS
<1>1. EventsAreDense(0)
  BY DEF EventInit, EventsAreDense
<1>2. [cursor |-> 0, page |-> <<>>, got |-> {}] \in Streams
  BY DEF Streams
<1>3. StreamsOK
  BY <1>2 DEF EventInit, StreamsOK, PageIsWhole
<1>4. NothingIsSkipped
  BY DEF EventInit, NothingIsSkipped
<1> QED BY <1>1, <1>3, <1>4 DEF EventInv

\* The next sequence is the one after the last.
LEMMA HighestIsLast == ASSUME NEW k \in Nat PROVE HighestOf(1 .. k) = k
<1>1. CASE k = 0
  BY <1>1 DEF HighestOf
<1>2. CASE k > 0
  <2>1. k \in 1 .. k /\ \A y \in 1 .. k : k >= y
    BY <1>2
  <2>2. \A x \in 1 .. k : (\A y \in 1 .. k : x >= y) => x = k
    BY <2>1
  <2> QED BY <2>1, <2>2 DEF HighestOf, Max
<1> QED BY <1>1, <1>2

\* Reading and losing a number concern no stream.
LEMMA RecorderStep ==
  ASSUME EventInv, NEW w \in Recorders, ReadHighest(w) \/ InsertEvent(w) \/ LoseEvent(w)
  PROVE  EventInv'
<1>1. PICK k : EventsAreDense(k)
  BY DEF EventInv
<1>2. k \in Nat /\ events = 1 .. k /\ recording \in [Recorders -> 0 .. (k + 1)]
  BY <1>1 DEF EventsAreDense
<1>3. ASSUME UNCHANGED <<events, stream>>, NEW n \in 0 .. (k + 1), recording' = [recording EXCEPT ![w] = n]
      PROVE  EventInv'
  <2>1. EventsAreDense(k)'
    BY <1>2, <1>3 DEF EventsAreDense
  <2> QED BY <1>3, <2>1 DEF EventInv, StreamsOK, PageIsWhole, NothingIsSkipped
<1>4. CASE ReadHighest(w)
  <2>1. NextSequence(w) = k + 1 /\ k + 1 \in 0 .. (k + 1) /\ k + 1 \in Nat
    BY <1>2, HighestIsLast DEF NextSequence
  <2> QED BY <1>3, <1>4, <2>1 DEF ReadHighest
<1>5. CASE LoseEvent(w)
  <2>1. 0 \in 0 .. (k + 1)
    BY <1>2
  <2> QED BY <1>3, <1>5, <2>1 DEF LoseEvent
\* An event that is inserted comes after all the others.
<1>6. CASE InsertEvent(w)
  <2>1. recording[w] = k + 1
    BY <1>2, <1>6 DEF InsertEvent, Taken
  <2>2. events' = 1 .. (k + 1) /\ UNCHANGED stream
    BY <1>2, <1>6, <2>1 DEF InsertEvent
  <2>3. EventsAreDense(k + 1)'
    BY <1>2, <1>6, <2>2 DEF EventsAreDense, InsertEvent
  <2>4. \A f \in Followers : stream[f].cursor \in 0 .. k /\ stream[f] \in Streams
    BY <1>2 DEF EventInv, StreamsOK
  <2>5. ASSUME NEW f \in Followers PROVE PageIsWhole(f)'
    <3>1. /\ \A i \in 1 .. Len(stream[f].page) : stream[f].page[i] \in 1 .. k /\ stream[f].page[i] > stream[f].cursor
          /\ \A i, j \in 1 .. Len(stream[f].page) : i < j => stream[f].page[i] < stream[f].page[j]
          /\ \A e \in 1 .. k : e > stream[f].cursor =>
                \/ \E i \in 1 .. Len(stream[f].page) : stream[f].page[i] = e
                \/ \A i \in 1 .. Len(stream[f].page) : stream[f].page[i] < e
      BY <1>2 DEF EventInv, StreamsOK, PageIsWhole
    <3>2. \A i \in 1 .. Len(stream[f].page) : stream[f].page[i] < k + 1
      BY <1>2, <3>1
    <3>3. \A e \in 1 .. (k + 1) : e \in 1 .. k \/ e = k + 1
      BY <1>2
    <3>4. \A i \in 1 .. Len(stream[f].page) : stream[f].page[i] \in 1 .. (k + 1)
      BY <1>2, <3>1
    <3>5. ASSUME NEW e \in 1 .. (k + 1), e > stream[f].cursor
          PROVE  \/ \E i \in 1 .. Len(stream[f].page) : stream[f].page[i] = e
                 \/ \A i \in 1 .. Len(stream[f].page) : stream[f].page[i] < e
      <4>1. CASE e \in 1 .. k
        BY <3>1, <3>5, <4>1
      <4>2. CASE e = k + 1
        BY <3>2, <4>2
      <4> QED BY <3>3, <4>1, <4>2
    <3> QED BY <2>2, <3>1, <3>4, <3>5 DEF PageIsWhole
  <2>6. StreamsOK'
    <3>1. stream' \in [Followers -> Streams]
      BY <2>2 DEF EventInv, StreamsOK
    <3>2. \A f \in Followers : stream'[f].cursor = 0 \/ stream'[f].cursor \in events'
      BY <1>2, <2>2, <2>4
    <3> QED BY <2>5, <3>1, <3>2 DEF StreamsOK
  <2>7. NothingIsSkipped'
    BY <1>2, <2>2, <2>4 DEF EventInv, NothingIsSkipped
  <2> QED BY <2>3, <2>6, <2>7 DEF EventInv
<1> QED BY <1>4, <1>5, <1>6

\* A page is in order and begins after the cursor.
LEMMA PollStep == ASSUME EventInv, NEW f \in Followers, Poll(f) PROVE EventInv'
<1> DEFINE c == stream[f].cursor
           after == {e \in events : e > c}
           size == IF Cardinality(after) < PageSize THEN Cardinality(after) ELSE PageSize
<1>1. PICK k : EventsAreDense(k)
  BY DEF EventInv
<1>2. k \in Nat /\ events = 1 .. k /\ stream[f] \in Streams /\ c \in Nat
  BY <1>1 DEF EventsAreDense, EventInv, StreamsOK, Streams
<1>3. IsFiniteSet(after)
  BY <1>2, FS_Interval, FS_Subset
<1>4. size \in Nat
  BY <1>3, FS_CardinalityType, PageIsPositive
<1>5. PICK q \in [1 .. size -> after] :
        /\ \A i, j \in 1 .. size : i < j => q[i] < q[j]
        /\ \A e \in after : (\E i \in 1 .. size : q[i] = e) \/ \A i \in 1 .. size : q[i] < e
        /\ stream' = [stream EXCEPT ![f].page = q]
  BY DEF Poll, PagesAfter
<1> HIDE DEF size
<1>6. q \in Seq(Nat) /\ Len(q) = size
  BY <1>2, <1>4, <1>5
<1>7. UNCHANGED <<events, recording>>
  BY DEF Poll
<1>8. /\ stream' \in [Followers -> Streams]
      /\ stream'[f].page = q /\ stream'[f].cursor = c /\ stream'[f].got = stream[f].got
      /\ \A g \in Followers : g # f => stream'[g] = stream[g]
  <2>1. [stream[f] EXCEPT !.page = q] \in Streams
    BY <1>2, <1>6 DEF Streams
  <2>2. /\ [stream[f] EXCEPT !.page = q].page = q /\ [stream[f] EXCEPT !.page = q].cursor = c
        /\ [stream[f] EXCEPT !.page = q].got = stream[f].got
    BY <1>2 DEF Streams
  <2>3. stream' = [stream EXCEPT ![f] = [stream[f] EXCEPT !.page = q]]
    BY <1>5
  <2> QED BY <2>1, <2>2, <2>3 DEF EventInv, StreamsOK
<1>9. PageIsWhole(f)'
  BY <1>5, <1>6, <1>7, <1>8 DEF PageIsWhole
<1>10. \A g \in Followers : g # f => PageIsWhole(g)'
  BY <1>7, <1>8 DEF EventInv, StreamsOK, PageIsWhole
<1>11. StreamsOK'
  BY <1>7, <1>8, <1>9, <1>10 DEF EventInv, StreamsOK
<1>12. NothingIsSkipped'
  BY <1>7, <1>8 DEF EventInv, NothingIsSkipped
<1>13. EventsAreDense(k)'
  BY <1>1, <1>7 DEF EventsAreDense
<1> QED BY <1>11, <1>12, <1>13 DEF EventInv

\* An event after the head of a page is in the rest of the page, or after all of it.
LEMMA RestOfPage ==
  ASSUME NEW page \in Seq(Nat), page # <<>>, NEW e \in Nat, e > Head(page),
         (\E i \in 1 .. Len(page) : page[i] = e) \/ \A i \in 1 .. Len(page) : page[i] < e
  PROVE  LET p == Tail(page)
         IN  (\E i \in 1 .. Len(p) : p[i] = e) \/ \A i \in 1 .. Len(p) : p[i] < e
<1> DEFINE p == Tail(page)
<1>1. /\ Len(page) \in Nat /\ Len(p) = Len(page) - 1 /\ Head(page) = page[1]
      /\ \A i \in 1 .. Len(p) : p[i] = page[i + 1]
  OBVIOUS
<1> HIDE DEF p
<1>2. ASSUME NEW i \in 1 .. Len(page), page[i] = e PROVE \E j \in 1 .. Len(p) : p[j] = e
  <2>1. i # 1
    BY <1>1, <1>2
  <2>2. i - 1 \in 1 .. Len(p) /\ (i - 1) + 1 = i
    BY <1>1, <2>1
  <2>3. p[i - 1] = e
    BY <1>1, <1>2, <2>2
  <2> QED BY <2>2, <2>3
<1>3. ASSUME \A i \in 1 .. Len(page) : page[i] < e, NEW i \in 1 .. Len(p) PROVE p[i] < e
  <2>1. i + 1 \in 1 .. Len(page)
    BY <1>1
  <2> QED BY <1>1, <1>3, <2>1
<1> QED BY <1>2, <1>3 DEF p

\* What is delivered first is the first event after the cursor.
LEMMA DeliverStep == ASSUME EventInv, NEW f \in Followers, Deliver(f) PROVE EventInv'
<1> DEFINE s == stream[f]
           t == [cursor |-> Head(s.page), page |-> Tail(s.page), got |-> s.got \cup {Head(s.page)}]
<1>1. PICK k : EventsAreDense(k)
  BY DEF EventInv
<1>2. /\ k \in Nat /\ events = 1 .. k /\ s \in Streams /\ s.page # <<>> /\ PageIsWhole(f)
      /\ UNCHANGED <<events, recording>> /\ stream' = [stream EXCEPT ![f] = t]
  BY <1>1 DEF EventsAreDense, EventInv, StreamsOK, Deliver
<1>3. s.page \in Seq(Nat) /\ s.got \in SUBSET Nat /\ s.cursor \in Nat /\ Len(s.page) \in Nat /\ Len(s.page) > 0
  BY <1>2 DEF Streams
<1>4. /\ Head(s.page) = s.page[1] /\ Head(s.page) \in Nat /\ Tail(s.page) \in Seq(Nat)
      /\ Len(Tail(s.page)) = Len(s.page) - 1
      /\ \A i \in 1 .. Len(Tail(s.page)) : Tail(s.page)[i] = s.page[i + 1]
  BY <1>3
<1>5. t \in Streams
  BY <1>3, <1>4 DEF Streams
<1>6. /\ stream' \in [Followers -> Streams] /\ stream'[f] = t
      /\ \A g \in Followers : g # f => stream'[g] = stream[g]
  BY <1>2, <1>5 DEF EventInv, StreamsOK
<1>7. Head(s.page) \in events /\ Head(s.page) > s.cursor
  BY <1>2, <1>3, <1>4 DEF PageIsWhole
<1>8. \A i \in 1 .. Len(s.page) : i # 1 => s.page[1] < s.page[i]
  BY <1>2, <1>3 DEF PageIsWhole
\* No event lies between the cursor and the head of the page.
<1>9. \A e \in events : e > s.cursor => e >= Head(s.page)
  <2> SUFFICES ASSUME NEW e \in events, e > s.cursor PROVE e >= Head(s.page)
    OBVIOUS
  <2>1. (\E i \in 1 .. Len(s.page) : s.page[i] = e) \/ \A i \in 1 .. Len(s.page) : s.page[i] < e
    BY <1>2 DEF PageIsWhole
  <2>2. 1 \in 1 .. Len(s.page) /\ e \in Nat /\ s.page[1] \in Nat
    BY <1>2, <1>3, <1>4
  <2>3. CASE \E i \in 1 .. Len(s.page) : s.page[i] = e
    BY <1>4, <1>8, <2>2, <2>3
  <2>4. CASE \A i \in 1 .. Len(s.page) : s.page[i] < e
    BY <1>4, <2>2, <2>4
  <2> QED BY <2>1, <2>3, <2>4
<1>10. PageIsWhole(f)'
  <2> DEFINE p == Tail(s.page)
  <2>1. \A i \in 1 .. Len(p) : i + 1 \in 1 .. Len(s.page) /\ i + 1 # 1
    BY <1>3, <1>4
  <2>2. \A i \in 1 .. Len(p) : p[i] \in events /\ p[i] > Head(s.page)
    BY <1>2, <1>4, <1>8, <2>1 DEF PageIsWhole
  <2>3. \A i, j \in 1 .. Len(p) : i < j => p[i] < p[j]
    BY <1>2, <1>4, <2>1 DEF PageIsWhole
  <2>4. ASSUME NEW e \in events, e > Head(s.page)
        PROVE  (\E i \in 1 .. Len(p) : p[i] = e) \/ \A i \in 1 .. Len(p) : p[i] < e
    <3>1. e \in Nat /\ e > s.cursor
      BY <1>2, <1>3, <1>4, <1>7, <2>4
    <3>2. (\E i \in 1 .. Len(s.page) : s.page[i] = e) \/ \A i \in 1 .. Len(s.page) : s.page[i] < e
      BY <1>2, <3>1 DEF PageIsWhole
    <3> HIDE DEF t
    <3> QED BY <1>2, <1>3, <2>4, <3>1, <3>2, RestOfPage
  <2>5. t.page = p /\ t.cursor = Head(s.page)
    OBVIOUS
  <2>6. stream'[f] = t /\ events' = events
    BY <1>2, <1>6
  <2> HIDE DEF t, p, s
  <2> QED BY <2>2, <2>3, <2>4, <2>5, <2>6 DEF PageIsWhole
<1>11. \A g \in Followers : g # f => PageIsWhole(g)'
  BY <1>2, <1>6 DEF EventInv, StreamsOK, PageIsWhole
<1>12. StreamsOK'
  <2>1. t.cursor \in events
    BY <1>7
  <2> HIDE DEF t
  <2> QED BY <1>2, <1>6, <1>10, <1>11, <2>1 DEF EventInv, StreamsOK
<1>13. NothingIsSkipped'
  <2>1. ASSUME NEW e \in events, e <= Head(s.page) PROVE e \in s.got \cup {Head(s.page)}
    <3>1. e \in Nat /\ s.cursor \in Nat /\ Head(s.page) \in Nat
      BY <1>2, <1>3, <1>4
    <3>2. e <= s.cursor => e \in s.got
      BY <2>1 DEF EventInv, NothingIsSkipped
    <3>3. e > s.cursor => e = Head(s.page)
      BY <1>9, <2>1, <3>1
    <3> QED BY <3>1, <3>2, <3>3
  <2>2. {e \in events : e <= t.cursor} \subseteq t.got
    BY <2>1
  <2> HIDE DEF t
  <2> QED BY <1>2, <1>6, <2>2 DEF EventInv, NothingIsSkipped
<1>14. EventsAreDense(k)'
  BY <1>1, <1>2 DEF EventsAreDense
<1> QED BY <1>12, <1>13, <1>14 DEF EventInv

LEMMA ReconnectStep == ASSUME EventInv, NEW f \in Followers, Reconnect(f) PROVE EventInv'
<1> DEFINE t == [stream[f] EXCEPT !.page = <<>>]
<1>1. /\ UNCHANGED <<events, recording>> /\ stream' = [stream EXCEPT ![f] = t]
      /\ stream[f] \in Streams
  BY DEF Reconnect, EventInv, StreamsOK
<1>2. t \in Streams /\ t.page = <<>> /\ t.cursor = stream[f].cursor /\ t.got = stream[f].got
  <2>1. <<>> \in Seq(Nat)
    OBVIOUS
  <2>2. \A p \in Seq(Nat) : LET u == [stream[f] EXCEPT !.page = p]
                           IN  u \in Streams /\ u.page = p /\ u.cursor = stream[f].cursor /\ u.got = stream[f].got
    BY <1>1 DEF Streams
  <2> QED BY <2>1, <2>2
<1> HIDE DEF t
<1>3. /\ stream' \in [Followers -> Streams] /\ stream'[f] = t
      /\ \A g \in Followers : g # f => stream'[g] = stream[g]
  BY <1>1, <1>2 DEF EventInv, StreamsOK
<1>4. \A g \in Followers : PageIsWhole(g)'
  BY <1>1, <1>2, <1>3 DEF EventInv, StreamsOK, PageIsWhole
<1>5. StreamsOK'
  BY <1>1, <1>2, <1>3, <1>4 DEF EventInv, StreamsOK
<1>6. NothingIsSkipped'
  BY <1>1, <1>2, <1>3 DEF EventInv, NothingIsSkipped
<1>7. \A k : EventsAreDense(k) => EventsAreDense(k)'
  BY <1>1 DEF EventsAreDense
<1> QED BY <1>5, <1>6, <1>7 DEF EventInv

LEMMA EventStep == EventInv /\ [EventNext]_eventVars => EventInv'
<1> SUFFICES ASSUME EventInv, [EventNext]_eventVars PROVE EventInv'
  OBVIOUS
<1>1. CASE UNCHANGED eventVars
  BY <1>1 DEF eventVars, EventInv, EventsAreDense, StreamsOK, PageIsWhole, NothingIsSkipped
<1> QED BY <1>1, RecorderStep, PollStep, DeliverStep, ReconnectStep DEF EventNext

\* A stream delivers every event up to its cursor, also those that were
\* committed after it had moved (sqlalchemy_store.py, stream_workflow_run_events).
THEOREM NothingIsSkippedCorrect == EventSpec => []NothingIsSkipped
<1>1. EventInv => NothingIsSkipped
  BY DEF EventInv
<1> QED BY <1>1, EventFirst, EventStep, PTL DEF EventSpec

(***************************************************************************)
(* CheckpointRetention: a run that can be resumed keeps its checkpoints, for*)
(* any numbers of runs, of requests, of days and any retention of a day or *)
(* more.                                                                   *)
(***************************************************************************)
Statuses == EndStatuses \cup {"queued", "running", "pending_approval", "cancel_requested"}
Executions == {"none", "starting", "running", "saved", "resuming"}
StatusRows == [status : Statuses, on : Nat]
RetentionRows == [at : {"idle", "deleting"}, dry : BOOLEAN, left : SUBSET Threads]

CheckpointTypeOK ==
    /\ day \in Nat
    /\ runStatus \in [Threads -> StatusRows]
    /\ execution \in [Threads -> Executions]
    /\ retention \in [RetentionRuns -> RetentionRows]

\* Whoever still executes a run that has ended read it today, and the run
\* ended today: it has days to go before it expires.
EndedToday ==
    \A r \in Threads : ~Executes(r, {"none"}) /\ runStatus[r].status \in EndStatuses => runStatus[r].on = day

\* So the runs a request is about to delete are over for good.
LeftIsOver ==
    \A q \in RetentionRuns : retention[q].at = "deleting" =>
        \A r \in retention[q].left : Executes(r, {"none"}) /\ runStatus[r].status \in EndStatuses

\* Whoever may make a run wait has its checkpoints.
WaitsWithThread == \A r \in Threads : Executes(r, {"saved", "resuming"}) => r \in saved

CheckpointInv == CheckpointTypeOK /\ EndedToday /\ LeftIsOver /\ WaitsWithThread /\ ResumableKeepsThread

LEMMA CheckpointFirst == CheckpointInit => CheckpointInv
  BY DEF CheckpointInit, CheckpointInv, CheckpointTypeOK, EndedToday, LeftIsOver, WaitsWithThread,
         ResumableKeepsThread, Executes, Statuses, EndStatuses, Executions, StatusRows, RetentionRows

\* A step of one run: what it does next, its status if that is written today,
\* and its checkpoints.
LEMMA RunStep ==
  ASSUME CheckpointInv, UNCHANGED <<day, retention>>, NEW r \in Threads, NEW e \in Executions, NEW s \in Statuses,
         execution' = [execution EXCEPT ![r] = e],
         \/ UNCHANGED runStatus /\ s = runStatus[r].status
         \/ SetStatus(r, s),
         saved' = saved \/ saved' = saved \cup {r},
         execution[r] # "none" \/ runStatus[r].status \notin EndStatuses,
         UNCHANGED runStatus /\ e # "none" /\ s \in EndStatuses => execution[r] # "none",
         e \in {"saved", "resuming"} \/ s = "pending_approval" => r \in saved'
  PROVE  CheckpointInv'
<1>1. [status |-> s, on |-> day] \in StatusRows
  BY DEF StatusRows, CheckpointInv, CheckpointTypeOK
<1>2. CheckpointTypeOK'
  BY <1>1 DEF CheckpointInv, CheckpointTypeOK, SetStatus
<1>3. EndedToday'
  BY DEF CheckpointInv, CheckpointTypeOK, EndedToday, SetStatus, Executes
<1>4. LeftIsOver'
  BY DEF CheckpointInv, CheckpointTypeOK, LeftIsOver, SetStatus, Executes, RetentionRows
<1>5. WaitsWithThread'
  BY DEF CheckpointInv, CheckpointTypeOK, WaitsWithThread, SetStatus, Executes
<1>6. ResumableKeepsThread'
  BY DEF CheckpointInv, CheckpointTypeOK, ResumableKeepsThread, SetStatus
<1> QED BY <1>2, <1>3, <1>4, <1>5, <1>6 DEF CheckpointInv

LEMMA RunsStep ==
  ASSUME CheckpointInv, NEW r \in Threads,
         \/ ReadQueued(r) \/ StartRun(r) \/ SaveCheckpoint(r) \/ WaitForApproval(r)
         \/ EndRun(r) \/ CancelRun(r) \/ ReadResume(r) \/ RefuseResume(r)
  PROVE  CheckpointInv'
<1> USE DEF Executes, Becomes, Executions, Statuses
<1>1. /\ execution[r] \in Executions /\ runStatus[r].status \in Statuses
      /\ execution = [execution EXCEPT ![r] = execution[r]]
      /\ runStatus[r].status = "pending_approval" => r \in saved
      /\ execution[r] \in {"saved", "resuming"} => r \in saved
  BY DEF CheckpointInv, CheckpointTypeOK, StatusRows, WaitsWithThread, ResumableKeepsThread
<1>2. CASE ReadQueued(r)
  <2>1. /\ UNCHANGED <<day, retention, runStatus, saved>> /\ runStatus[r].status = "queued"
        /\ execution' = [execution EXCEPT ![r] = "starting"]
    BY <1>2 DEF ReadQueued
  <2> QED BY <1>1, <2>1, RunStep DEF EndStatuses
<1>3. CASE StartRun(r)
  <2>1. /\ UNCHANGED <<day, retention, saved>> /\ execution[r] = "starting" /\ SetStatus(r, "running")
        /\ execution' = [execution EXCEPT ![r] = "running"]
    BY <1>3 DEF StartRun
  <2> QED BY <1>1, <2>1, RunStep
<1>4. CASE SaveCheckpoint(r)
  <2>1. /\ UNCHANGED <<day, retention, runStatus>> /\ execution[r] # "none" /\ saved' = saved \cup {r}
        /\ \E e \in {"saved", "resuming"} : execution' = [execution EXCEPT ![r] = e]
    BY <1>4 DEF SaveCheckpoint
  <2>2. r \in saved'
    BY <2>1
  <2> QED BY <1>1, <2>1, <2>2, RunStep
<1>5. CASE WaitForApproval(r)
  <2>1. /\ UNCHANGED <<day, retention, saved>> /\ execution[r] \in {"saved", "resuming"}
        /\ SetStatus(r, "pending_approval") /\ execution' = [execution EXCEPT ![r] = "none"]
    BY <1>5 DEF WaitForApproval
  <2> QED BY <1>1, <2>1, RunStep
<1>6. CASE EndRun(r)
  <2>1. /\ UNCHANGED <<day, retention, saved>> /\ execution[r] # "none"
        /\ execution' = [execution EXCEPT ![r] = "none"]
        /\ \E s \in EndStatuses : SetStatus(r, s)
    BY <1>6 DEF EndRun, EndStatuses
  <2> QED BY <1>1, <2>1, RunStep DEF EndStatuses
<1>7. CASE CancelRun(r)
  <2>1. /\ UNCHANGED <<day, retention, saved, execution>> /\ runStatus[r].status \notin EndStatuses
        /\ \E s \in {"cancelled", "cancel_requested"} : SetStatus(r, s)
    BY <1>7 DEF CancelRun, EndStatuses
  <2>2. execution' = [execution EXCEPT ![r] = execution[r]]
    BY <1>1, <2>1
  <2>3. ASSUME NEW s \in {"cancelled", "cancel_requested"}, SetStatus(r, s) PROVE ~(UNCHANGED runStatus /\ s \in EndStatuses)
    BY <2>1, <2>3 DEF SetStatus, CheckpointInv, CheckpointTypeOK
  <2>4. PICK s \in {"cancelled", "cancel_requested"} : SetStatus(r, s)
    BY <2>1
  <2>5. s \in Statuses /\ s # "pending_approval"
    BY DEF EndStatuses
  <2> QED BY <1>1, <2>1, <2>2, <2>3, <2>4, <2>5, RunStep
<1>8. CASE ReadResume(r)
  <2>1. /\ UNCHANGED <<day, retention, runStatus, saved>> /\ runStatus[r].status = "pending_approval"
        /\ execution' = [execution EXCEPT ![r] = "resuming"]
    BY <1>8 DEF ReadResume
  <2> QED BY <1>1, <2>1, RunStep DEF EndStatuses
<1>9. CASE RefuseResume(r)
  <2>1. /\ UNCHANGED <<day, retention, runStatus, saved>> /\ execution[r] # "none"
        /\ execution' = [execution EXCEPT ![r] = "none"]
    BY <1>9 DEF RefuseResume
  <2> QED BY <1>1, <2>1, RunStep
<1> QED BY <1>2, <1>3, <1>4, <1>5, <1>6, <1>7, <1>8, <1>9

\* A run that has expired is over, and nobody executes it.
LEMMA ExpiredIsOver ==
  ASSUME CheckpointInv, NEW r \in Threads, Expired(r)
  PROVE  Executes(r, {"none"}) /\ runStatus[r].status \in EndStatuses
<1>1. r \in EndedThreads /\ runStatus[r].on + RetentionDays <= day
  BY DEF Expired
<1>2. runStatus[r].on \in Nat /\ day \in Nat /\ RetentionDays \in Nat \ {0}
  BY RetentionIsADay DEF CheckpointInv, CheckpointTypeOK, StatusRows
<1>3. runStatus[r].on # day
  BY <1>1, <1>2
<1> QED BY <1>1, <1>3 DEF EndedThreads, CheckpointInv, EndedToday

\* Retention only takes the checkpoints of runs that are over.
LEMMA RetentionStep ==
  ASSUME CheckpointInv, NEW q \in RetentionRuns, ReadCandidates(q) \/ DeleteThread(q) \/ FailDelete(q)
  PROVE  CheckpointInv'
<1>1. UNCHANGED <<day, runStatus, execution>>
  BY DEF ReadCandidates, DeleteThread, FailDelete
<1>2. CASE ReadCandidates(q)
  <2>1. PICK S \in SUBSET Threads, dry \in BOOLEAN :
           /\ Candidate(S)
           /\ retention' = [retention EXCEPT ![q] =
                [at |-> IF dry \/ S = {} THEN "idle" ELSE "deleting", dry |-> dry, left |-> S]]
    BY <1>2 DEF ReadCandidates
  <2>2. \A r \in S : Executes(r, {"none"}) /\ runStatus[r].status \in EndStatuses
    BY <2>1, ExpiredIsOver DEF Candidate
  <2>3. [at |-> IF dry \/ S = {} THEN "idle" ELSE "deleting", dry |-> dry, left |-> S] \in RetentionRows
    BY DEF RetentionRows
  <2>4. CheckpointTypeOK'
    BY <1>1, <2>1, <2>3 DEF CheckpointInv, CheckpointTypeOK
  <2>5. LeftIsOver'
    BY <1>1, <2>1, <2>2 DEF CheckpointInv, CheckpointTypeOK, LeftIsOver, Executes
  <2>6. UNCHANGED saved
    BY <1>2 DEF ReadCandidates
  <2> QED BY <1>1, <2>4, <2>5, <2>6 DEF CheckpointInv, EndedToday, WaitsWithThread, ResumableKeepsThread, Executes
<1>3. CASE DeleteThread(q) \/ FailDelete(q)
  <2>1. PICK r \in retention[q].left : Finish(q, r) /\ (saved' = saved \ {r} \/ saved' = saved)
    BY <1>3 DEF DeleteThread, FailDelete
  <2>2. r \in Threads /\ Executes(r, {"none"}) /\ runStatus[r].status \in EndStatuses
    BY <1>3, <2>1 DEF DeleteThread, FailDelete, CheckpointInv, CheckpointTypeOK, LeftIsOver, RetentionRows
  <2>3. PICK row \in RetentionRows :
           /\ retention' = [retention EXCEPT ![q] = row]
           /\ row.left \subseteq retention[q].left
           /\ row.at \in {"idle", retention[q].at}
    <3>1. retention[q] \in RetentionRows
      BY DEF CheckpointInv, CheckpointTypeOK
    <3> DEFINE row == [at |-> IF retention[q].left = {r} THEN "idle" ELSE retention[q].at,
                       dry |-> retention[q].dry, left |-> retention[q].left \ {r}]
    <3>2. row \in RetentionRows
      BY <3>1 DEF RetentionRows
    <3>3. retention' = [retention EXCEPT ![q] = row]
      BY <2>1 DEF Finish, CheckpointInv, CheckpointTypeOK, RetentionRows
    <3> QED BY <3>2, <3>3
  <2>4. CheckpointTypeOK'
    BY <1>1, <2>3 DEF CheckpointInv, CheckpointTypeOK
  <2>5. LeftIsOver'
    BY <1>1, <2>3 DEF CheckpointInv, CheckpointTypeOK, LeftIsOver, Executes
  <2>6. WaitsWithThread' /\ ResumableKeepsThread'
    BY <1>1, <2>1, <2>2 DEF CheckpointInv, WaitsWithThread, ResumableKeepsThread, Executes, EndStatuses
  <2> QED BY <1>1, <2>4, <2>5, <2>6 DEF CheckpointInv, EndedToday, Executes
<1> QED BY <1>2, <1>3

LEMMA CheckpointStep == CheckpointInv /\ [CheckpointNext]_checkpointVars => CheckpointInv'
<1> SUFFICES ASSUME CheckpointInv, [CheckpointNext]_checkpointVars PROVE CheckpointInv'
  OBVIOUS
<1> USE DEF CheckpointInv, CheckpointTypeOK, EndedToday, LeftIsOver, WaitsWithThread, ResumableKeepsThread, Executes
<1>1. CASE NextDay
  <2>1. day' \in Nat
    BY <1>1 DEF NextDay
  <2> QED BY <1>1, <2>1 DEF NextDay
<1>2. CASE SetUpTables
  BY <1>2 DEF SetUpTables
<1>3. CASE UNCHANGED checkpointVars
  BY <1>3 DEF checkpointVars
<1> QED BY <1>1, <1>2, <1>3, RunsStep, RetentionStep DEF CheckpointNext

\* Retention never takes the checkpoints of a run that waits for an approval
\* (checkpoint_lifecycle.py), whatever overtakes it.
THEOREM ResumableKeepsThreadCorrect == CheckpointSpec => []ResumableKeepsThread
<1>1. CheckpointInv => ResumableKeepsThread
  BY DEF CheckpointInv
<1> QED BY <1>1, CheckpointFirst, CheckpointStep, PTL DEF CheckpointSpec
=============================================================================
