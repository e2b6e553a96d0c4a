----------------------------- MODULE Approvals -----------------------------
(***************************************************************************)
(* What leaves the platform: calls of MCP tools (ToolGatewayService), of   *)
(* shell templates (ShellExecutionGatewayService), of language models      *)
(* (LlmNodeRunner) and of HTTP endpoints (HttpExecutionGatewayService),    *)
(* with the approvals the first three may need: asked for, decided,        *)
(* expired and resumed.                                                    *)
(*                                                                         *)
(* A request is a handler that runs its service one await at a time; what  *)
(* it read may have changed when it writes.  A call and its invocation row *)
(* have one name; the call itself, a side effect outside the system, is    *)
(* counted.                                                                *)
(***************************************************************************)
EXTENDS Integers, FiniteSets

CONSTANTS
    Handlers,    \* requests that can be in progress at the same time
    Calls,       \* invocation ids; ids are fresh, so each is invoked once
    Schedules,   \* subset of {"turns", "overlap"}: whether the requests about
                 \* one call come one at a time
    MaxChanges,  \* bound: changes of registry and policy by administrators
    MaxCalls,    \* bound: how often one call is made (a failed model call may
                 \* be resumed for ever)
    MaxCrashes   \* bound: requests that stop between two awaits

ASSUME SchedulesAreKnown == Schedules \subseteq {"turns", "overlap"}
ASSUME CallsAreNames == "none" \notin Calls
ASSUME BoundsAreNatural == {MaxChanges, MaxCalls, MaxCrashes} \subseteq Nat

VARIABLES
    kind,       \* call -> which service makes it
    schedule,
    admitted,   \* what the call names is registered and takes its arguments
    verdict,    \* what the approval policy answers now
    backend,    \* what it is made with: server and lease, prompt, egress plan
    begun,      \* calls that were requested
    inv,        \* call -> status of its invocation row
    task,       \* call -> status of its approval task
    overdue,    \* calls whose approval task is past expires_at
    effects,    \* call -> how often the call was made
    wins,       \* call -> how often it was made and succeeded
    granted,    \* calls for which an approval was ever written (history)
    proc,       \* handler -> the request it runs
    changes, crashes

fixed    == <<kind, schedule>>
registry == <<admitted, verdict, backend>>
store    == <<begun, inv, task, overdue, granted>>
made     == <<effects, wins>>
bounds   == <<changes, crashes>>
vars     == <<fixed, registry, store, made, proc, bounds>>

Kinds      == {"tool", "shell", "model", "http"}
Verdicts   == {"allowed", "approval_required", "denied"}
Backends   == {"missing", "unusable", "ready"}

\* The status of an invocation row, by service.  timeout, of a shell or an HTTP
\* call, and schema_validation_failed, of a model call, count as failed.
ToolRow  == {"success", "failed", "denied", "pending_approval", "expired",
             "cancelled"}
ShellRow == {"success", "failed", "denied", "pending_approval"}
ModelRow == {"success", "failed", "denied", "pending_approval",
             "budget_exceeded"}
HttpRow  == {"success", "failed"}
Row == [tool |-> ToolRow, shell |-> ShellRow, model |-> ModelRow,
        http |-> HttpRow]

\* The status of an approval task, of the tool gateway and of the others.
ToolTask    == {"pending", "approved", "rejected", "revoked", "resumed"}
RuntimeTask == {"pending", "approved", "rejected", "revoked", "resumed"}
Decisions   == {"approved", "rejected", "revoked"}

\* A request: what it does and for which call, where it is in its service,
\* what it writes next, and where it goes then.
Idle == [op |-> "none", pc |-> "idle", call |-> "none", write |-> "absent",
         then |-> "idle"]

Init == /\ kind \in [Calls -> Kinds] /\ schedule \in Schedules
        /\ admitted \in {"yes", "no"} /\ verdict \in Verdicts
        /\ backend \in Backends
        /\ begun = {} /\ overdue = {} /\ granted = {}
        /\ inv = [c \in Calls |-> "absent"]
        /\ task = [c \in Calls |-> "absent"]
        /\ effects = [c \in Calls |-> 0] /\ wins = [c \in Calls |-> 0]
        /\ proc = [h \in Handlers |-> Idle]
        /\ changes = 0 /\ crashes = 0

Go(h, request) == proc' = [proc EXCEPT ![h] = request]
At(h, pc)      == proc[h].pc = pc
Move(h, pc)    == Go(h, [proc[h] EXCEPT !.pc = pc])
Kind(h)        == kind[proc[h].call]
Begin(h, op, pc, c, write) ==
    Go(h, [op |-> op, pc |-> pc, call |-> c, write |-> write, then |-> "idle"])
\* Mutant: the step after the write is forgotten.
Record_Ends(h, s, after) ==
    Go(h, [proc[h] EXCEPT !.pc = "record", !.write = s, !.then = "idle"])
\* The request goes on to write the status s, and then to the step after.
Record(h, s, after) ==
    Go(h, [proc[h] EXCEPT !.pc = "record", !.write = s, !.then = after])
\* A request that raises before it recorded anything.
Refuse(h) == Go(h, Idle)

MayStart(h, c) ==
    /\ At(h, "idle")
    /\ schedule = "turns" => \A g \in Handlers : proc[g].call # c

(* ------------------------------ requests ------------------------------- *)

StartInvoke(h, c) ==
    /\ MayStart(h, c)
    /\ c \notin begun /\ begun' = begun \cup {c}
    /\ Begin(h, "invoke", "authorize", c, "absent")
    /\ UNCHANGED <<fixed, registry, inv, task, overdue, granted, made, bounds>>

\* Mutant: a task can be decided again.
Decidable_Again(c) == task[c] # "absent"
\* The handlers that decide read the task; anything but pending is a 409.
Decidable(c) == task[c] = "pending"

StartDecide(h, c, decision) ==
    /\ MayStart(h, c)
    /\ Decidable(c)
    /\ Begin(h, "decide", "decide", c, decision)
    /\ UNCHANGED <<fixed, registry, store, made, bounds>>

\* Mutant: only a task that was resumed is refused.
Resumable_Undecided(c) == task[c] \notin {"absent", "resumed"}
Resumable(c) == task[c] = "approved"

\* The tool gateway reads the task first: not approved is a 409, overdue is
\* written to the invocation and refused.
StartResumeTool(h, c) ==
    /\ MayStart(h, c) /\ kind[c] = "tool"
    /\ Resumable(c)
    /\ IF c \in overdue
         THEN Begin(h, "resume", "record", c, "expired")
         ELSE Begin(h, "resume", "authorize", c, "absent")
    /\ UNCHANGED <<fixed, registry, store, made, bounds>>

\* Shell and model calls are started again with the id of the task.
StartResumeRuntime(h, c) ==
    /\ MayStart(h, c) /\ kind[c] \in {"shell", "model"}
    /\ task[c] \in RuntimeTask
    /\ Begin(h, "resume", "authorize", c, "absent")
    /\ UNCHANGED <<fixed, registry, store, made, bounds>>

(* ---------------------- the awaits of the services --------------------- *)

AfterAuthorize(h) ==
    CASE Kind(h) = "http" -> "backend"
      [] Kind(h) \in {"shell", "model"} /\ proc[h].op = "resume" -> "validate"
      [] OTHER -> "evaluate"

\* The tool gateway records a refusal, the other services only raise.
Authorize(h) ==
    /\ At(h, "authorize")
    /\ IF admitted = "yes" THEN Move(h, AfterAuthorize(h))
       ELSE IF Kind(h) = "tool" THEN Record(h, "denied", "idle")
       ELSE Refuse(h)
    /\ UNCHANGED <<fixed, registry, store, made, bounds>>

\* The task of a shell or model call is read after its template or policy.
Validate(h) ==
    LET c == proc[h].call IN
    /\ At(h, "validate")
    /\ IF Resumable(c) /\ c \notin overdue THEN Move(h, "evaluate")
                                           ELSE Refuse(h)
    /\ UNCHANGED <<fixed, registry, store, made, bounds>>

\* An approval the policy requires stops an invocation; a resumption has it.
Evaluate(h) ==
    /\ At(h, "evaluate")
    /\ CASE verdict = "denied" -> Record(h, "denied", "idle")
         [] verdict = "approval_required" /\ proc[h].op = "invoke"
              -> Record(h, "pending_approval", "task")
         [] OTHER -> Move(h, IF Kind(h) = "shell" THEN "call" ELSE "backend")
    /\ UNCHANGED <<fixed, registry, store, made, bounds>>

\* The MCP server and a lease of its credential.
ToolBackend(h) ==
    /\ At(h, "backend") /\ Kind(h) = "tool"
    /\ IF backend = "ready" THEN Move(h, "call")
                            ELSE Record(h, "failed", "idle")
    /\ UNCHANGED <<fixed, registry, store, made, bounds>>

\* The prompt, which may be missing, and the token budget of the policy.
ModelBackend(h) ==
    /\ At(h, "backend") /\ Kind(h) = "model"
    /\ CASE backend = "ready"    -> Move(h, "call")
         [] backend = "unusable" -> Record(h, "budget_exceeded", "idle")
         [] backend = "missing"  -> Refuse(h)
    /\ UNCHANGED <<fixed, registry, store, made, bounds>>

\* The egress plan of an HTTP request.
HttpBackend(h) ==
    /\ At(h, "backend") /\ Kind(h) = "http"
    /\ IF backend = "ready" THEN Move(h, "call") ELSE Refuse(h)
    /\ UNCHANGED <<fixed, registry, store, made, bounds>>

\* Mutant: the task is not marked after the call.
AfterCall_Unmarked(k, op, status) == "idle"
\* A tool or shell call spends its approval whatever comes of it, a model call
\* only when it succeeds.
AfterCall(k, op, status) ==
    IF op = "resume" /\ (k = "model" => status = "success") THEN "mark"
                                                            ELSE "idle"

\* A success; an error result, a timeout or an exit code; an error before
\* anything was sent.
Answers == {[sent |-> 1, won |-> 1, status |-> "success"],
            [sent |-> 1, won |-> 0, status |-> "failed"],
            [sent |-> 0, won |-> 0, status |-> "failed"]}

Call(h, k) ==
    LET c == proc[h].call IN
    /\ At(h, "call") /\ kind[c] = k /\ effects[c] < MaxCalls
    /\ \E a \in Answers :
          /\ effects' = [effects EXCEPT ![c] = @ + a.sent]
          /\ wins' = [wins EXCEPT ![c] = @ + a.won]
          /\ Record(h, a.status, AfterCall(k, proc[h].op, a.status))
    /\ UNCHANGED <<fixed, registry, store, bounds>>

\* The invocation is recorded or updated: an unconditional write.
Write(h) ==
    /\ At(h, "record")
    /\ inv' = [inv EXCEPT ![proc[h].call] = proc[h].write]
    /\ IF proc[h].then = "idle" THEN Go(h, Idle) ELSE Move(h, proc[h].then)
    /\ UNCHANGED <<fixed, registry, begun, task, overdue, granted, made, bounds>>

\* The approval task is a transaction of its own, after the invocation's.
CreateTask(h) ==
    /\ At(h, "task")
    /\ task' = [task EXCEPT ![proc[h].call] = "pending"]
    /\ Go(h, Idle)
    /\ UNCHANGED <<fixed, registry, begun, inv, overdue, granted, made, bounds>>

Outcome(decision) == IF decision = "rejected" THEN "denied" ELSE "cancelled"

\* A decision is written without the task being read again.
Decide(h) ==
    LET c == proc[h].call
        d == proc[h].write
    IN  /\ At(h, "decide")
        /\ task' = [task EXCEPT ![c] = d]
        /\ granted' = IF d = "approved" THEN granted \cup {c} ELSE granted
        /\ UNCHANGED <<fixed, registry, begun, inv, overdue, made, bounds>>

\* The tool gateway goes on to write a refusal to the invocation.
DecideTool(h) ==
    /\ Decide(h) /\ Kind(h) = "tool"
    /\ IF proc[h].write = "approved" THEN Go(h, Idle)
       ELSE Record(h, Outcome(proc[h].write), "idle")

\* A refused shell or model call keeps its pending invocation.
DecideRuntime(h) == Decide(h) /\ Kind(h) \in {"shell", "model"} /\ Go(h, Idle)

Mark(h) ==
    /\ At(h, "mark")
    /\ task' = [task EXCEPT ![proc[h].call] = "resumed"]
    /\ Go(h, Idle)
    /\ UNCHANGED <<fixed, registry, begun, inv, overdue, granted, made, bounds>>

(* ----------------------------- environment ----------------------------- *)

Expire(c) ==
    /\ task[c] \in (IF kind[c] = "tool" THEN ToolTask ELSE RuntimeTask)
    /\ c \notin overdue
    /\ overdue' = overdue \cup {c}
    /\ UNCHANGED <<fixed, registry, begun, inv, task, granted, made, proc,
                   bounds>>

\* An administrator registers or withdraws something, publishes a policy, or
\* changes a server, a credential, a prompt or an egress rule.
Administer ==
    /\ changes < MaxChanges /\ changes' = changes + 1
    /\ \/ admitted' \in {"yes", "no"} /\ UNCHANGED <<verdict, backend>>
       \/ verdict' \in Verdicts /\ UNCHANGED <<admitted, backend>>
       \/ backend' \in Backends /\ UNCHANGED <<admitted, verdict>>
    /\ UNCHANGED <<fixed, store, made, proc, crashes>>

\* The process stops while it runs the request.
Crash(h) ==
    /\ ~At(h, "idle") /\ crashes < MaxCrashes
    /\ crashes' = crashes + 1
    /\ Go(h, Idle)
    /\ UNCHANGED <<fixed, registry, store, made, changes>>

(* The awaits, by the function that makes them *)

Invoking(h, k) == proc[h].op = "invoke" /\ Kind(h) = k
Resuming(h, k) == proc[h].op = "resume" /\ Kind(h) = k

ToolInvokeAuthorize(h) == Invoking(h, "tool") /\ Authorize(h)
ToolInvokeEvaluate(h)  == Invoking(h, "tool") /\ Evaluate(h)
ToolInvokeBackend(h)   == Invoking(h, "tool") /\ ToolBackend(h)
ToolInvokeCall(h)      == Invoking(h, "tool") /\ Call(h, "tool")
ToolResumeAuthorize(h) == Resuming(h, "tool") /\ Authorize(h)
ToolResumeEvaluate(h)  == Resuming(h, "tool") /\ Evaluate(h)
ToolResumeBackend(h)   == Resuming(h, "tool") /\ ToolBackend(h)
ToolResumeCall(h)      == Resuming(h, "tool") /\ Call(h, "tool")
ShellAuthorize(h)      == Kind(h) = "shell" /\ Authorize(h)
ShellValidate(h)       == Kind(h) = "shell" /\ Validate(h)
ShellEvaluate(h)       == Kind(h) = "shell" /\ Evaluate(h)
CallShell(h)           == Call(h, "shell")
ModelAuthorize(h)      == Kind(h) = "model" /\ Authorize(h)
ModelValidate(h)       == Kind(h) = "model" /\ Validate(h)
ModelEvaluate(h)       == Kind(h) = "model" /\ Evaluate(h)
CallModel(h)           == Call(h, "model")
HttpAuthorize(h)       == Kind(h) = "http" /\ Authorize(h)
CallHttp(h)            == Call(h, "http")

WriteTool(h)         == Kind(h) = "tool" /\ Write(h)
WriteShell(h)        == Kind(h) = "shell" /\ Write(h)
WriteModel(h)        == Kind(h) = "model" /\ Write(h)
WriteHttp(h)         == Kind(h) = "http" /\ Write(h)
CreateToolTask(h)    == Kind(h) = "tool" /\ CreateTask(h)
CreateShellTask(h)   == Kind(h) = "shell" /\ CreateTask(h)
CreateModelTask(h)   == Kind(h) = "model" /\ CreateTask(h)
MarkTool(h)          == Kind(h) = "tool" /\ Mark(h)
MarkRuntime(h)       == Kind(h) \in {"shell", "model"} /\ Mark(h)

Running(h) == ~At(h, "idle") /\
    \/ ToolInvokeAuthorize(h) \/ ToolInvokeEvaluate(h) \/ ToolInvokeBackend(h)
    \/ ToolInvokeCall(h) \/ ToolResumeAuthorize(h) \/ ToolResumeEvaluate(h)
    \/ ToolResumeBackend(h) \/ ToolResumeCall(h)
    \/ ShellAuthorize(h) \/ ShellValidate(h) \/ ShellEvaluate(h) \/ CallShell(h)
    \/ ModelAuthorize(h) \/ ModelValidate(h) \/ ModelEvaluate(h)
    \/ ModelBackend(h) \/ CallModel(h)
    \/ HttpAuthorize(h) \/ HttpBackend(h) \/ CallHttp(h)
    \/ WriteTool(h) \/ WriteShell(h) \/ WriteModel(h) \/ WriteHttp(h)
    \/ CreateToolTask(h) \/ CreateShellTask(h) \/ CreateModelTask(h)
    \/ DecideTool(h) \/ DecideRuntime(h) \/ MarkTool(h) \/ MarkRuntime(h)

Next == \/ \E h \in Handlers, c \in Calls :
              \/ StartInvoke(h, c)
              \/ StartResumeTool(h, c) \/ StartResumeRuntime(h, c)
              \/ \E d \in Decisions : StartDecide(h, c, d)
        \/ \E h \in Handlers : Running(h) \/ Crash(h)
        \/ \E c \in Calls : Expire(c)
        \/ Administer

Spec == Init /\ [][Next]_vars

(* ------------------------------ properties ----------------------------- *)

\* A call that was put up for approval is made only after somebody approved
\* it, in whatever order decisions, resumptions, crashes and changes of the
\* policy come (resume_approval,
\* _validate_runtime_approval_for_shell, ..._for_model).
NoUnapprovedCall ==
    \A c \in Calls : effects[c] > 0 /\ task[c] # "absent" => c \in granted

\* When requests about one call take turns, a tool or shell call is made once,
\* and a model call succeeds once, but for the requests that died after it
\* (test_tool_gateway_rejects_duplicate_resume_without_second_mcp_call).
Spent(c) == IF kind[c] = "model" THEN wins[c] ELSE effects[c]
OncePerCrash == schedule = "turns" => \A c \in Calls : Spent(c) <= 1 + crashes

\* When requests take turns, a call whose approval was refused was not made
\* (test_tool_gateway_rejects_resume_for_rejected_approval_without_calling_mcp).
RefusedIsNotCalled ==
    schedule = "turns" =>
        \A c \in Calls : task[c] \in {"rejected", "revoked"} => effects[c] = 0

\* Every invocation left pending has a task that can be decided, unless the
\* request that was to create it died first (_create_approval_task,
\* _create_pending_approval, _create_pending_approval_task).
Orphan(c) == /\ inv[c] = "pending_approval" /\ task[c] = "absent"
             /\ \A h \in Handlers : proc[h].call # c
PendingIsDecidable == Cardinality({c \in Calls : Orphan(c)}) <= crashes

\* What is final: a task that was resumed, a call that needed none.
Final(c) == \/ task[c] = "resumed"
            \/ task[c] = "absent" /\ inv[c] \in Row[kind[c]] \ {"pending_approval"}

\* When requests take turns, the record of a finished call is never rewritten
\* and the call never repeated.
FinalStays ==
    [][schedule = "turns" =>
         \A c \in Calls : Final(c) => /\ inv'[c] = inv[c] /\ task'[c] = task[c]
                                      /\ effects'[c] = effects[c]]_vars

\* One approval, one call, when requests overlap too.
CalledOnce == \A c \in Calls : Spent(c) <= 1
=============================================================================
