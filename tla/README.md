# Formal models of AegisFlow

TLA+ models of AegisFlow, a platform that runs agent workflows under policies,
approvals and audit: the life of a **workflow run** over the durable queue, the
worker loops, the graph runner and the HTTP handlers; the **calls** a run makes
through the gateways and the approvals they need; and the components around
them that decide what may be published, called, fetched, kept and read. Paths
below are under `src/backend/app/` unless they say more.

    tlc -workers 2 -config MCRuns.cfg MCRuns               # likewise MCGateways, MCImages, MCComponents
    tlc -workers 2 -config MCContract.cfg MCWorkflowRuns   # likewise MCLive and most V*.cfg
    tlc -workers 2 -config VApprovedTwice.cfg MCApprovals
    tlc -workers 2 -config VOtherResult.cfg MCComponents
    tlapm WorkflowRuns_proofs.tla                          # any *_proofs.tla

## Files

| file | models |
| --- | --- |
| `WorkflowRuns.tla` | runs, queue, workers, runner, run API: rows, actors, one action per store call |
| `RunContract.tla` | what a client that polls the status of a run may see, without the machinery |
| `Approvals.tla` | tool, shell, model and HTTP calls, their approval tasks, decisions and resumptions |
| `NodeApprovals.tla` | the node of a run that waits for an approval, and the request that resumes it |
| `RunEvents.tla` | the numbered events of a run and the streams that follow them |
| `AgentLoop.tla` | the loop of an agent node under its budgets |
| `CheckpointRetention.tla` | deletion of graph checkpoints against runs that are reopened |
| `PolicyCenter.tla` | approval policies: versions in interleaved transactions; evaluation of a call |
| `WorkflowDsl.tla`, `WorkflowGraph.tla` | workflow definitions, their checks and the reachability search |
| `WorkflowVersions.tla` | drafts, the publish gate, versions, restore (extends `WorkflowDsl`) |
| `PromptReleases.tla` | prompt versions and the labels they are released under |
| `ToolRegistry.tla` | synchronisation of an MCP server's tools and their authorisation |
| `SecretLeases.tla` | credentials of MCP servers and the leases a call carries |
| `ImageAdmissions.tla` | admission of a shell image, its evidence, reports and their cleanup |
| `CleanupSchedule.tla` | the leased schedule of that cleanup |
| `LifecycleRemediation.tla` | rules of the bucket all projects share, by approved requests |
| `TrustStore.tla` | uploaded certificates and the verifications that use them |
| `Egress.tla` | what requests and containers can reach, through check, proxy and network policies |
| `Knowledge.tla`, `Retrieval.tla` | documents and versions; queries over them (extends `Knowledge`) |
| `Chunking.tla`, `RankFusion.tla`, `RunLessons.tla` | the chunk pipeline; fusion of rankings; lessons of runs |
| `WorkflowRuns_proofs.tla`, `Approvals_proofs.tla` | theorems about the module they are named after |
| `Nodes_proofs.tla` | theorems about `AgentLoop`, `NodeApprovals`, `RunEvents`, `CheckpointRetention` |
| `Policies_proofs.tla`, `Workflows_proofs.tla` | about `PolicyCenter`, `PromptReleases`; `WorkflowVersions`, `WorkflowGraph` |
| `Tools_proofs.tla` | about `Egress`, `ToolRegistry`, `SecretLeases`, `ImageAdmissions`, `CleanupSchedule`, `LifecycleRemediation`, `TrustStore` |
| `Knowledge_proofs.tla` | about `Knowledge`, `Retrieval`, `RankFusion`, `Chunking` |
| `Extrema.tla` | least and greatest numbers: the lemmas the proofs share |
| `MCWorkflowRuns.tla`, `MCRuns.tla`, `MCApprovals.tla`, `MCGateways.tla`, `MCImages.tla`, `MCComponents.tla` | the modules the configurations instantiate |
| `MC*.cfg` | runs that must pass |
| `V*.cfg` | runs that must find a property violated (see *Findings*) |

Definitions named `X_Something`, marked `a bug` or `Mutant`, are wrong versions of `X`. They
show that each checked property notices the mistake and take no part in a
next-state relation.

## 1. Inventory of the system

| component | state | operations | what is hard |
| --- | --- | --- | --- |
| run queue (`workflow_runtime/sqlalchemy_store.py`) | `workflow_run_queue_items`: status, attempts, lease, available_at, expires_at | enqueue, claim (`FOR UPDATE SKIP LOCKED`), mark running, complete, fail (retry or dead letter), cancel, reconcile, clean up | only the claim locks; leases are not renewed; nobody checks the owner |
| worker and scheduler (`background.py`) | a task per process, a wake-up event | start, loop, drain, submit, cancel, shutdown | crash, restart, a loop ended by an exception, several processes |
| run API (`api/routes/workflow_runtime.py`) | `workflow_runs`: status, pending_approval | submit, run, retry, cancel, resume, event stream | check-then-act against the worker and each other |
| graph runner (`runner.py`) | the position in the graph, checkpoints | run, run_existing, resume, one node at a time | status read before an await and written after it |
| run events (`sqlalchemy_store.py`) | sequence for each run | record, list, stream | `max + 1` race; a cursor that can pass a late event |
| agent subgraph (`agent.py`) | iterations, tool calls, time | plan, call, observe, finish | budgets; an approval in the middle |
| checkpoint retention (`checkpoint_lifecycle.py`) | threads, statuses and dates of runs | scan, confirm, delete | candidates that are reopened before they are deleted |
| gateways and approvals (`tool_gateway/`, `execution/`, `model_gateway/`, `runtime_approvals/`) | approval tasks, invocations | invoke, ask, decide, expire, resume | decided twice, called twice, a crash after the call |
| policy center | policies, versions | create, validate, publish, roll back, evaluate | precedence of rules; publications that overlap |
| workflows | drafts, versions | import, update, publish, archive, restore | the draft changes between gate and insertion |
| model gateway | prompt versions, releases | release under a label | two releases of a label at once |
| tool registry | tools, servers, groups, credentials, leases | synchronise, authorise, lease, revoke | stale copies written back; archiving on the way |
| images | admissions, reports, certificates, schedules, bucket rules | resolve, store, clean up, remediate, upload, verify | an object store and a table changed in turn; leases |
| egress (`security/`) | environments, proxy deployments | check, plan, deploy, call | names that resolve elsewhere after the check |
| knowledge, retrieval | documents, versions, chunks, access lists, lessons | import, delete, query, evaluate | an import that races a deletion; lists that change during a search |
| templates, debug chat, command views, administration, access, audit, observability, settings, migrations, web console, deployment | – | reads, or one transaction each | – |

They meet in the run: an API handler creates the run row and the queue row; a
worker of any process claims the queue row and calls the runner; the runner
calls a gateway for each node, which evaluates the policies in force, may take
a lease, may ask for an approval, and sends the call through the egress of the
environment. An approval leaves the run in `pending_approval` until a `resume`
request executes the rest in its own handler, from the checkpoints, which
retention must have left. Cancellation is a status the runner polls. Redis only
says that something was enqueued, and nobody in the code subscribes to it.

`PROJECT.json` lists every component with its sources and what is left out of
it, and every hazard with its line and the property that covers it.

## 2. Plan

1. **WorkflowRuns, RunContract** – done; every property of its safety runs is
   proved, the refinement of `RunContract` included.
2. **Approvals, NodeApprovals, SecretLeases, Egress** – done: the way of a call
   from the node to the outside.
3. **RunEvents, AgentLoop, CheckpointRetention** – done: the rest of the runtime.
4. **PolicyCenter, WorkflowGraph, WorkflowVersions, PromptReleases** – done: what
   is published, and the gates.
5. **ToolRegistry, ImageAdmissions, CleanupSchedule, LifecycleRemediation,
   TrustStore** – done: the registry.
6. **Knowledge, Retrieval, Chunking, RankFusion, RunLessons** – done.
7. **Theorems** – every invariant and action property that a run checks.
8. Left: one specification of `WorkflowRuns` with `NodeApprovals` in place of
   its `RunNode` and `Redo`; the contents of redaction; refinements of smaller
   abstract specifications by `Approvals` and `PolicyCenter`.

## 3. WorkflowRuns: state and actions

| variable | code |
| --- | --- |
| `run[r]`, `pend[r]` | `WorkflowRun.status`, `.pending_approval` (the node it names, 0 for `{}`) |
| `item[r]` | the queue row: `status`, `attempt_count`, lease (`none`, `live`, `expired`), and `due` |
| `entered[r]` | the policy gate events of the run: the last node that has one |
| `mode[w]` | the process of a worker: down, starting, loop, drain (the one-shot task), dead (loop ended, process alive) |
| `plan[w]` | what `reconcile_stale_queue_items` has decided and not committed |
| `pc`, `job`, `pos` | where an actor is in its code, its run, the node the runner visits next |
| `late`, `torn` | history, see below |
| `faults` | number of crashes, ended loops and abandoned requests |

`due` folds the two times `claim_next_queue_item` compares: `now`, `later`
(`available_at` in the future, after a backoff), `past` (beyond `expires_at`,
never claimed again).

Actions follow the store calls, because each is a transaction of its own:

* A method whose writes depend on what it read is **two actions**: `CancelLoad` /
  `CancelCommit`, `CancelItemLoad` / `CancelItemCommit`, `StartLoad` /
  `StartCommit`, `FailLoad` / `RetryItem` or `BuryItem`, `BuryLoad` / `BuryRun`,
  `LoadRun` / `OpenRun`, `ResumeLoad` / `ResumeCheck` / `Redo`. SQLAlchemy writes
  only the columns that differ from what was loaded; that is why
  `CancelItemCommit` clears a lease only if the load saw one, and why a plan can
  `"keep"` a column.
* A method that writes constants is **one action**: `update_run` with a given
  status, `mark_queue_item_running`, `complete_queue_item`. A write of the value
  that was loaded is skipped by SQLAlchemy and can be taken to happen at the load.
* Sessions do not expire objects on commit, but each call drops its object, so
  the next call reads the row again. The exception is `cancel_pending_run`
  called by `request_cancel_run`: it gets the very object its caller holds, its
  second check is void, and both are `CancelCommit`.
* `Claim` locks its row, so it is one action.

What an actor does between two store calls is part of the second one.

Abstractions, and why they are safe:

* A workflow is the path of `Nodes` nodes one run visits: what is checked depends
  on the order of the nodes of a run and not on which they are. A node succeeds,
  asks for an approval, or raises (`RunNode`); which, is not determined by the
  model. An error of the tool gateway below 500 raised while a `resume` is under
  way leaves the run waiting for its approval, as `runner.py:588` does.
  **Limitation:** a definition may give a node several outgoing sequence edges
  (`runner.py:684`), and LangGraph then runs the branches in parallel within one
  executor. A run of such a workflow is not covered by `WorkflowRuns`; with one
  outgoing edge per node, or a condition that picks one, a run takes one path.
* Checkpoints are not state: the runner's checkpointer only serves the node at
  which a run is resumed, which `pend` gives.
* A process has one consumer of the queue. `submit` starts an additional drain
  task only when the loop is gone (`drain`); two such tasks of one process
  differ from two processes in nothing the model has.
* `Retry` creates a new run; whose inputs it copies is not modelled.
* Events, audit, spans and Redis are left out. That recording an event may fail
  is `LoopDies` in a worker and `Abandon` in a request.
* `cleanup_expired_queue_payloads` and `run_queued` have no caller outside the
  tests and are no actions.

Faults are `Crash` (a process stops, whatever it was doing), `LoopDies` (an
exception ends the consuming task, the process lives on), `Abandon` (a request
ends between two calls). `MaxFaults` bounds them. A policy gate event that is
there already ends a loop too (`FenceHit`): that is not a fault but what the
code does, and it is not bounded.

**Torn runs.** Two things let two workers hold one run: a lease that runs out
while its worker is at work (only runs of `SlowRuns` can do so), and a startup
reconciliation that commits what it decided about an item that has since
changed, as when two processes start together. Either puts the run in `torn`, and
properties that cannot hold for such a run except it, by name. Both are real and
both happen in `MCRuns`; they are an exception of the properties, not of
the model. One process whose leases outlast its work tears nothing
(`ContractAlone`, proved).

## 4. The other modules

They follow the same grain: what a handler reads and what it writes are one
action when one statement or one transaction covers them, and two when
something else can commit in between. A request that stops half way is an action
of its own (`Lose...`, `Crash`, `...Dies`).

**Approvals.** A *call* is the invocation row of a tool, a shell template, a model
or an HTTP request (`kind`); `inv` and `task` are the statuses of its two rows,
`effects` counts how often it left the platform. `StartInvoke`, `StartDecide`,
`StartResumeTool`, `StartResumeRuntime` take up a request (`invoke`, `decide`,
`resume_approval` of the services and `api/routes/runtime_approvals.py`), and the
handler `proc[h]` then takes one await at a time: registry, policy, lease or
prompt, the call, the record. `Administer` changes registry and policy under
it, `Expire` passes `expires_at`. `schedule` splits the instance: with `turns` the
requests about a call come one after another (crashes included), with `overlap`
they interleave. What holds only in turns says so; `VApprovedTwice` shows why.
A failed model call may be repeated, which `wins` tells from a second success.

**NodeApprovals.** The statuses of a run around one node, by the kind of the node,
and the two steps of a resumption: the gateway makes the call of the task the
request names, then the runner compares and goes on. The gateways' own awaits
are `Approvals`' and are one step here. What the code does and the model keeps: a
resumption before the decision fails a run that waits for a shell or a model
call and leaves one that waits for a tool as it is; the gateway's own resume
endpoint, or a crash after the call, spends the task and leaves the run pending
for ever; a tool call of another run's task is made before the mismatch is
noticed; and a task whose call names no run is accepted by any run.

**RunEvents.** `record_event` reads the highest sequence (`ReadHighest`) and
inserts the next (`InsertEvent`, or fails on the unique constraint); the stream
polls a page past its cursor, delivers it and reconnects with `Last-Event-ID`.

**AgentLoop.** `Plan`, `CallTool`, `RefuseTool`, `PendTool`, `ToolFails` are the two
nodes of the LangGraph loop in `agent.py` with the guards of iterations, calls and
autonomy, `PlanBudget` the end by budget. `ResumeAgent` is the resumption
(`build_agent_resume_output`): the output of the approved call becomes the last
observation and the node ends there, without another plan, so that no budget is
taken up again. `steps` counts supersteps
against LangGraph's own recursion limit. The clock is a choice at each step.

**CheckpointRetention.** `ReadCandidates` is the one query for old threads whose
run has ended, `DeleteThread` the loop after it; `StartRun`, `WaitForApproval`,
`ReadResume`, `CancelRun` are the writes that may come between. Days pass by
`NextDay`, and the date of a status is the day it was written.

**PolicyCenter.** Rows of one `policy_ref`; each session executes a transaction at
READ COMMITTED, whose `UPDATE` waits for rows another has written and re-reads
them: `SupersedeSelect`, `SupersedeApply`, `Commit...`. The one constraint is that
of the version numbers (`uq_policy_center_approval_policy_version`): an insertion
that finds its number taken is refused with its whole transaction. Nothing keeps
two rows from being published at once; the newest is in force. `EvaluatePolicy`
and `RuleMatches` translate `runtime.py`: the first rule that matches decides, or
the default when none does, and either is raised to an approval for high and
critical risk.

**WorkflowDsl, WorkflowGraph, WorkflowVersions.** `GraphOK` is the conjunction of the
checks of nodes and edges; `Visit` is one iteration of the search loop, which
`AcceptedIsReachable` compares with a definition that does not search: no set of
nodes without the start lacks an entering edge. `WorkflowVersions` has each
handler of `api/routes/workflows.py` as read, analysis against the resources
(`PublishGate`), and write, with the unique constraints on version numbers.

**PromptReleases.** Transactions as in `PolicyCenter`, here with a partial unique
index on the active release of a label; `told` is what clients were answered. The gate of a protected label compares an evaluation run with the
thresholds.

**ToolRegistry.** A synchronisation reads the server row, lists the tools, reads
the definitions, and writes back only columns that differ from its copy, with
the server's sync version; so does its failure with the status of the server
(`SyncStatus`). Group items authorise by name.

**SecretLeases.** `EnsureCredential` registers a server with a credential,
`ReadServer`, `ReadCredential`, `CommitLease`, `CallWithLease` are a call. Nothing in the
code reads when a lease expires, archiving a credential leaves its leases
active, and `record_credential_access_intent` has no caller: none of these is an
action or a guard.

**ImageAdmissions, CleanupSchedule, LifecycleRemediation, TrustStore.** An admission
collects evidence, stores the reports the policy retains, and records it with
the policy it read at its start: it reads the row (`SelectAdmission`), sets every
column and commits those that differ from what it read (`CommitAdmission`), with
no lock and no version. Two requests that overlap can so leave a row that has
the decision of one and the checks of the other, and TLC reaches an approved row
with a failed check; `EnforcedIsClean` therefore speaks of what some request
found, and of the checks only when the row is what one request found. A cleanup
deletes expired reports one by one and writes back the evidence it read at its
start (`SelectEvidence`, `CommitEvidence`). Evidence holds more than the model has
of it, so that two values that look alike may differ: `rewritten` chooses.
Lifecycle rules of the bucket remove reports at any time (`BucketExpires`): the
managed rule says 30 days (`image_artifact_lifecycle_remediation.py:29`), while a
policy may retain reports for 1 to 3650, and rules of others say what they like.
`KeptUntilExpiry` excepts what they removed (`swept`). The schedule is claimed under a lease by a
conditional update; `late` remembers that a worker outlived one. A remediation
reads the whole configuration of the bucket, checks its approval, puts the
configuration back and marks the approval used. An upload puts its object under
a version, then inserts the row; a verification reads policy, rows and objects.

**Egress.** The check of `egress_policy.py` when a target is registered and when a
request is sent, the plan of `egress_proxy.py`, and what the generated Envoy,
Squid and Kubernetes profiles let through. Names change their answers at any
time (`Resolves`). A container may send by the proxy or not. Only the client
policy of the Kubernetes manifests keeps it from going past the proxy
(`LeavesDirectly`): the networks of the Compose files are plain bridges, without
`internal: true`, and nothing is claimed of a container there that does not go by
the proxy. The unsafe ranges of Squid and of the manifests are IPv4 ranges
(`InUnsafeRange`): an address such as `fd00:ec2::254` passes Squid, while the
policy of the manifests lets the proxy out to IPv4 networks alone. Networks that
are neither listed there nor public (`special`) pass both. Direct mode promises nothing about addresses between check and
connection, and the DNS pinning flag is only recorded by the code. The lists of a
deployed profile are assumed to be those of its environment. Templates of the
Helm chart are not modelled. One request is on its way at a time.

**Knowledge, Retrieval, Chunking, RankFusion, RunLessons.** An import reads the
document, then its versions, and commits at the end; the chunks of a version
share its fields. A query loads visible chunks, drops what the asker may not
read, searches, and checks the lists again. Each check reads the lists of the
knowledge base, the document and the chunk of each candidate in statements of
their own (`ReadAcl`, one list at a time), and lists are written outside this
program at any point (`ChangeAcl`). A bar that moves from one list to another
between two of these reads slips through, although one of the lists barred the
asker throughout: TLC reaches it, and `ResultsAreVisible` claims it only for a
single list that bars all the time. Chunks are intervals of token positions; scores are
fractions, compared by cross multiplication.

## 5. What is checked

| run | instance | states | shows |
| --- | --- | --- | --- |
| `MCRuns` | 1 run, 2 nodes, 2 attempts, a canceller, 1 fault; *queue*: 2 workers, submit, resume, a slow run; *direct*: run, 3 resumers, 1 process | 1.29 M | the eight properties of the life of a run |
| `MCContract` | 2 runs, a worker, 2 submissions, run, resume, 2 faults | 646 k | every behaviour implements `RunContract` |
| `MCLive` | 2 runs, 2 workers, submit, run, resume, no fault | 58 k | `EveryRunEnds` under `Fairness` |
| `MCGateways` | *calls*: 1 call of any kind, 2 handlers, 2 changes by administrators, 1 crash; *queries*: 1 query, 2 documents, an import, a deletion, 3 changes of lists | 1.92 M | approvals against calls, in turns and overlapping; what a query returns while lists change |
| `MCImages` | *reports*: 2 resolutions, 2 cleanups, 2 reports; *verdicts*: 3 resolutions, 1 cleanup, 1 report | 520 k | copies of the evidence against the object store; what a template may run when rows are mixed |
| `MCComponents` | eighteen components, each on an instance of its own | 691 k | one or two properties of each |

`MCRuns`, `MCGateways` and `MCImages` have two instances each, in italics above,
and a behaviour is one of either. In `MCRuns` and `MCImages` the `CONSTRAINT`
`Instances` says what each leaves out, and the two share the states that lie in
both; in `MCGateways` each has its own variables and the other's rest. In
`MCComponents` a behaviour is one of a single component, `part`; the variables
of the others rest at an initial value. So the run is the union of eighteen
independent ones, and its invariants are each about one component. `Parts`
selects some of them.

| property | kind | in words |
| --- | --- | --- |
| `TypeOK` | invariant, **proved** | ranges; no executor passes the end of the path |
| `OneHolder` | invariant, **proved** | a run that is not torn has one worker |
| `AttemptsBounded` | invariant, **proved** | retries and requeues together stay within `max_attempts` |
| `SuccessIsComplete` | invariant, **proved** | success means every node was entered |
| `OneLateNode` | invariant, **proved** | after a cancellation an executor enters at most one more node |
| `CompletedIsOver` | invariant, **proved** | a completed item has a run that is neither queued nor running |
| `DeadLetterIsReported` | action, **proved** | a run comes to look alive behind a dead letter only when the worker burying it dies |
| `FinishedStays` | action, **proved** | retries and reconciliation do not reopen a finished or waiting run |
| `ContractHolds` | refinement, **proved** | a client sees the life cycle of `RunContract` |
| `EveryRunEnds` | liveness | every accepted run ends or waits |
| `NoUnapprovedCall` | invariant, **proved** | what was put up for approval is called only after somebody approved it |
| `OncePerCrash` | invariant, **proved** | in turns, a call is made once, and once more for each crash |
| `RefusedIsNotCalled` | invariant, **proved** | in turns, a refused call was not made |
| `PendingIsDecidable` | invariant, **proved** | a pending invocation has a task, unless its request died |
| `FinalStays` | action, **proved** | in turns, a finished call is neither rewritten nor repeated |
| `OwnResult` | invariant, **proved** | a run that waited succeeds by a spent approval, with its own call's result unless it is a shell node |
| `NothingIsSkipped` | invariant, **proved** | a stream delivers every event up to its cursor, late commits included |
| `EndsByBudget`, `EveryCallIsObserved` | invariants, **proved** | budgets, not the graph's step limit, end an agent; every call is accounted for |
| `ResumableKeepsThread` | invariant, **proved** | a run that waits for an approval has its checkpoints |
| `StaysInForce`, `FloorHolds` | invariants, **proved** | some policy stays in force; high risk never passes unapproved |
| `AcceptedIsReachable` | invariant, **proved** | a definition is accepted exactly when nothing of it is cut off |
| `GatedContent`, `VersionsAreFixed` | invariant, action, **proved** | a version that needs a policy has one; what a number stands for never changes |
| `LastPublishWins` | invariant, **proved** | a label stands for what the last successful publication released |
| `SyncIsExact` | action, **proved** | a synchronisation nobody overlaps authorises exactly what the server listed |
| `CallsAreLeased` | invariant, **proved** | a server with a credential is called with a lease of it, one per call |
| `EnforcedIsClean` | invariant, **proved** | under enforcement a risky template runs only what a request approved, with no failed check unless the row is mixed |
| `DeletedIsGone`, `KeptUntilExpiry` | invariants, **proved** | evidence of a deletion is true; no cleanup takes a report before its time |
| `OneWorkerPerLease` | invariant, **proved** | while nobody outlives a lease, one worker, named by the row |
| `AppliedIsDecided`, `KeepsOtherRules` | invariant, action, **proved** | a project's rule has a decided approval; an undisturbed run keeps the rules of others |
| `TrustIsExact` | invariant, **proved** | a verification uses every listed certificate as uploaded and passes what they sign |
| `OnlyListedIsReached` | invariant, **proved** | what the backend or the proxy reaches is on the lists; behind the network policies never inside nor past the proxy |
| `OneLiveVersion` | invariant, **proved** | at most one active version of a document, the current one |
| `ResultsAreVisible` | invariant, **proved** | a query returns nothing deleted before it began, nor barred by one list since the search |
| `NothingIsLost` | invariant, **proved** | every token is in exactly one parent chunk and in a child of it |
| `FusionIsMonotone` | invariant, **proved** | fusing keeps each candidate once and turns no agreement round |

`OneLateNode` reads: when a run leaves the cancelled statuses – a late failure or
success can do that, see below – its executors are no longer late, and a further
cancellation counts anew. `late` is the set of executors that entered a node
since the run is being cancelled.

**Bounds of the runs of WorkflowRuns.** One run is enough for the queue
properties, since rows of different runs share nothing but the workers, and two
workers are what a race needs; a third attempt or node repeats the second. One
fault lets a crash hit any point of any behaviour, and restarting is not a
fault; `MCContract` has two, so that attempts are used up by crashes alone, and
two submissions, so that one start requeues two runs at once. Where the
request that creates a run also executes it, the queue is idle and three
requests resume it: two that are late and one in time. Two runs in `MCContract`
and `MCLive` let a retry follow its source. Workers and resumers are symmetric in
`MCRuns`, documents and handlers in `MCGateways`, requests in `MCImages`.
`SlowRuns` is empty where a property is about runs whose leases suffice. The
proofs have none of these bounds. Deadlock is not checked: when every request is
served and nothing is queued the model stops, as it should.

`DeadLetterIsReported` is about the step, because only a step shows who died: between
the two transactions of a worker that buries an item its run looks alive, and
for ever if the worker dies right there, but no other fault may leave it so.

**Bounds of the others.** Two handlers are a race and one call is enough, since
calls share no rows; three calls tell "once" from "once for each crash". In
`MCComponents` every race has two actors, and three where a third can come in
between (the recorders of `RunEvents`, whose events span two pages). Versions,
releases, leases and reports are bounded by two or three: a first, one that
replaces it, and one that was prepared before. The reports of `MCImages` have two
of each request, since a resolution or another cleanup may overtake what a
cleanup writes back; its verdicts have three resolutions, since a row that two
of them have mixed must still be written by a third, and one report suffices
there. The queries of `MCGateways` ask only whether a list bars the asker, so
lists are empty or name somebody else; three changes are a bar, a second one
elsewhere, and the first taken away. The two documents have three versions
together (`MaxStored`). Graphs are all subsets of nine
edges over five nodes, with branches, loops and missing handles. The clock of
the schedule runs past two leases. Ranked lists have three candidates, and
documents three sections of up to eleven tokens, where a parent holds five and
a child three: sizes below, at and above each target. Deadlock is not checked
because the bounds stop every component in the end.

**Fairness.** `asyncio` runs every ready task, so a loop that is up takes its next
step (`WF` of `Work(w)`), a request that has begun is carried on, and time passes
(`BackoffElapses`; the poll of 0.5 s makes a lost wake-up harmless). A node is
assumed to return, with any outcome. Nothing is assumed about restarts, about
requests being made, about leases expiring or about nodes succeeding.
`EveryRunEnds` is checked without faults and without cancellations: with a crash
a run executed by its request stays running, a submission may lack its queue
row, and with a cancellation a run can be stranded (`VCancelEnds`). It excepts
items whose payload outlives its time to live, which nobody claims or fails.

## 6. Findings

Each `V*.cfg` checks one claim that a message or a test of the repository makes,
and TLC shows a behaviour that breaks it.

| run | claim | what happens |
| --- | --- | --- |
| `VSuccess` | a cancel request is not overwritten by success | it is, between the last check and the last write |
| `VResume` | a run that is not pending is not resumed | two requests pass the check; the later outcome wins |
| `VCancelEnds` | an accepted cancellation ends in `cancelled` | the run stays `cancel_requested`, or `running` with a cancelled item |
| `VRequeue` | reconciliation requeues a run | the second delivery meets the run's own policy gate event, the loop ends, the run never does |
| `VApprovedTwice` | an approved call is made once | two resumptions that overlap both find the task approved and both make the call |
| `VOtherResult` | a resumed run gets its own result | a run that waits for a shell call is resumed with another run's approval and succeeds with that call's result |

`VRequeue` and `VCancelEnds` are liveness claims, refuted under `Fairness`. Each
is in `PROJECT.json` with the line of the code and the line of the claim.

## 7. What is proved

Every theorem holds for all values of the constants that satisfy the module's
assumptions: any number of actors and rows, and without the bounds of the runs.
Few of the properties are inductive by themselves; each proof names the
invariant that is.

`WorkflowRuns_proofs.tla`, from `ConstantsAssumption` (the kinds of actors are
disjoint, `NoRun` is no run, at least one node and one attempt):

* `TInv` (for `TypeOK`) adds to the ranges what the place of an actor in its code
  tells: an actor at work has a run, an executor that enters a node is not past
  the end, a waiting run names a node.
* `Visited` (for `SuccessIsComplete`): an executor is at most one node ahead of
  what its run has entered, and a run waits at a node it has entered. So an
  executor that finds no further node has a run whose every node was entered.
  `entered` belongs to the run, so a crash loses none of it.
* `Stopping` (for `OneLateNode`): only a run that is being cancelled has late
  executors. So an executor that passes the check before a node is not late.
* `Linked`, `Owned`, `Counted` (for `OneHolder` and `AttemptsBounded`), together:
  whoever holds a run or is about to write its queue row has that row, and a run
  is enqueued once (`Linked`); while a worker holds a run that is not torn, its
  item is neither claimable nor stale (`Owned`); an item that can be claimed has
  an attempt left, and so has one a worker is about to retry (`Counted`).
  `Reconciliation` and `ReconciledRun` say what a startup may write, stale plan or
  not; `Aside` and `Quiet` dispose of the steps that do not touch the queue.
* `Reported` (for `CompletedIsOver` and `DeadLetterIsReported`): a worker that goes
  on to complete its item has reported the run, nobody holds a completed one, and
  only a worker that buries it has the run of a dead letter. `UnreportedStep` then
  goes through the steps: those that leave the row, the run and its worker as they
  were (`Covered`) make nothing unreported, and of the others only a fault does.
* `Unfinished` (for `FinishedStays`): a run that may be executed from its start
  (`Fresh`) has not finished, and neither a runner nor a resumer has it. It needs
  that the run of a runner is never in the queue and that a resumed run does not
  look alive to reconciliation.
* `Numbered`, `Following` (for `ContractHolds`): the place of an actor tells the
  status of its run, which nobody else writes, and how often its item was handed
  out. `ContractStep` then maps each step, for each run, to one of the contract
  or to none. `ContractCorrect` assumes `Undisturbed` (nobody cancels, at most one
  request resumes) and that nothing is torn; `ContractAlone` proves the latter, by
  `Prompt`, for one process whose leases outlast its work.

`Approvals_proofs.tla`, from `CallsAreNames` (`none`, what a handler that is idle
works on, is no call) and `BoundsAreNatural`:

* `Inv` (for `NoUnapprovedCall`, `RefusedIsNotCalled`, `FinalStays`): the place of
  a request tells what it found, by `InvokeOK`, `DecideOK`, `ResumeOK`; a call made
  without an approval has no task and is about to be recorded for good
  (`CallOK`); in turns no two requests are about one call (`Apart`).
* `OnceInv` (for `OncePerCrash`): a call that can still be made was made at most
  as often as requests died, any other once more. `Ready` says which: not begun,
  pending, or with an open task that nobody is spending.
* `OrphanInv` (for `PendingIsDecidable`): only a crash between the invocation's row
  and the task's leaves a pending invocation without one.

`Policies_proofs.tla`:

* `PolicyInv` (for `StaysInForce`): in every committed state superseded rows leave a
  published one, and a publication in progress has a row to publish. What two
  publications read before either commits does not matter, since each publishes
  in the transaction in which it supersedes. `FloorHolds` needs no invariant: the
  floor is the last thing an evaluation applies.
* `PromptInv` (for `LastPublishWins`): the active releases of a label are all of
  the version that was told last, and a publication holds releases of its own
  label only. Assumes `VersionsAreNamed`: "no version" is none.

`Workflows_proofs.tla`:

* `WfInv` (for `GatedContent`; `VersionsAreFixed` follows from its types): what a
  request is about to insert is the content the gate has seen, not the draft's.
* `GraphInv` (for `AcceptedIsReachable`): while the search runs an edge leaves the
  reached nodes only from the frontier (`Searching`), and no set that is cut off
  was entered. When the frontier is empty, the nodes not reached are cut off.
  `OrdersListAll`: in whatever order new nodes are put on the frontier, all are,
  since they are finitely many (`NodesAreFinite`). Assumes `GraphsAreTyped`: a definition is a list of
  nodes and a set of edges.

`Nodes_proofs.tla`:

* `AgentInv` (for `EndsByBudget`, `EveryCallIsObserved`): an agent that plans has
  taken two steps of its graph for each iteration, one that calls a tool one
  less, so the limit `2 * max_iterations + 3` is never reached; calls made and
  calls observed agree but for the one in progress.
* `TasksOK`, `CallsOK`, `Callable`, `Spent` (for `OwnResult`): what each status of
  a run says of its task, what a request found when it got past the gateway, and
  that a result is that of a task which was spent.
* `EventsAreDense` (for `NothingIsSkipped`; the sequences are `1..k`, and a recorder
  is about to insert one of them or the next) and `PageIsWhole` (a page starts
  right after the cursor and has no gap). A late commit can therefore never land
  behind a cursor.
* `EndedToday`, `LeftIsOver`, `WaitsWithThread` (for `ResumableKeepsThread`): the
  candidates that are left ended days ago, so a run that was still executing
  when they were read is not among them. Assumes `RetentionIsADay`, the smallest
  value `retention_days` may take.

`Tools_proofs.tla`:

* `EgressInv` (for `OnlyListedIsReached`): a request of the backend on its way has
  passed the lists; one of a container has not, and `ProxyHolds` says that every
  kind of proxy lets out only what is listed. Assumes `AnswersAreAddresses`.
* `RegistryInv` (for `SyncIsExact`) is about types; the work is `UpsertedRow`: a
  row that nobody wrote since it was read is active after the synchronisation
  exactly when the server lists the tool, at the risk it lists.
* `ImageInv` (for `DeletedIsGone`, `EnforcedIsClean`, `KeptUntilExpiry`): every copy
  of the evidence, in the row or in a request, says "deleted" only of reports
  that are gone (`Truthful`); it stays true when an old copy is written back,
  because a new report has a number of its own. The same holds of what columns
  are written: the evidence of a row is always one whole copy. What a request
  found and approved passed its checks (`Clean`), a decision in the row, however
  mixed, is one some request found, and what a cleanup has still to delete is due
  (`Proper`).
* `ReadIsNamed`, `CallIsLeased`, `LeaseIsFresh`, `MadeOK`, `OneCallPerLease` (for
  `CallsAreLeased`): what a request has read is what the server named, and a lease
  number is in one request or in one call. Assumes `NamesAreNames`: the values
  for no credential and for no server are not credentials.
* `HeldUntil` (for `OneWorkerPerLease`): while nobody is late the row and the
  worker agree about the lease, which has not run out.
* `RulesAreDecided`, `ReadIsDecided`, `ReadIsClear` (for `AppliedIsDecided` and
  `KeepsOtherRules`): a configuration that was read holds no rule but of projects
  with a decided approval, and so does what is written back.
* `ObjectsAreNamed`, `UploadsAreStored`, `CertificatesAreStored`, `VerificationOK` (for
  `TrustIsExact`): the name of an object is the digest of what is in it, objects
  are never removed, and a verification that has as many files as certificates
  has the file of each.

`Knowledge_proofs.tla`:

* `RowCounts`, `ReadInTime` (for `OneLiveVersion`): the number in a document's row
  counts its versions; what an import has read is behind by the imports
  committed since, and where there was none it supersedes every active version.
* `RetrievalInv` (for `ResultsAreVisible`): a list that barred when the search
  answered and has since bars when its turn to be read comes, so a chunk that is
  kept has, of its lists that were read, none of these behind it (`ReadAclStep`).
  `SearchedIsLive`: `Retrieval`
  implements `Knowledge`, so what it searches is the one live version.
* `FusionIsMonotone` holds because the key of the sort is a strict total order
  (`PrecedesIsTotal`; for the scores, which are compared crosswise,
  `CrosswiseIsTransitive`). So the number of candidates before one is its place
  (`FusedIsSorted`, by counting), and `AgreementIsKept` compares the fractions in
  each of the ways two lists can hold two chunks. Assumes natural numbers for
  chunks and for the constant; the rounding of floating point is left out.
* `ChunkingInv` (for `NothingIsLost`): `Covers` is what every cutting promises. A
  window that is not the last ends before the text does and the next begins
  later (`NextIsLater`), so the recursion of `Split` ends (`FromExists`) and covers
  (`SplitCovers`); the loop over the sections keeps parents that reach the
  collected ones, which fit one parent (`Packed`, `AddSectionReaches`). Assumes
  `OverlapIsSmaller`, which the constructor of the configuration enforces.

Induction is by the least counterexample (`Least` in `Extrema`, from the
well-foundedness of `<`), also for the functions defined by recursion: that a
function with the defining equation exists is proved with it.

Only model-checked: `EveryRunEnds` – liveness under fairness is out of the
prover's reach – and the claims of section 6, which are refuted.

## 8. What is not modelled

* Components without a module: the encryption of run inputs (its failure is
  `QueueError`), workflow templates, debug chat, command views, project
  administration and access, audit, observability, migrations, the web console,
  deployment. They read, write one row in one transaction, compute text, or call
  another system.
* Operations nothing in the application calls: `cleanup_expired_queue_payloads`,
  `run_queued`, `record_credential_access_intent`.
* In the modelled parts: the contents of rows, permissions, wording, audit
  events, spans, hashing and redaction; the kinds of nodes other than by the
  gateway they call; the protocols of MCP servers, models, registries and vector
  stores, which are choices of outcomes.
* Workflow runs and the other components are not one specification: the run
  takes any outcome of a node, and `NodeApprovals`, `Approvals` and
  `CheckpointRetention` take from it the statuses they read or write.
