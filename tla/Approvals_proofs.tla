-------------------------- MODULE Approvals_proofs --------------------------
(* Approvals: no call is made without the approval it needs, and when the    *)
(* requests about a call take turns it is made once per crash, for any       *)
(* numbers of requests, calls, changes and crashes.                          *)
EXTENDS Approvals, FiniteSetTheorems, TLAPS

Steps == {"idle", "authorize", "validate", "evaluate", "backend", "call", "record", "task", "decide", "mark"}
Tasks == {"absent"} \cup ToolTask
Rows  == {"absent", "success", "failed", "denied", "pending_approval", "expired", "cancelled", "budget_exceeded"}
Requests == [op : {"none", "invoke", "decide", "resume"}, pc : Steps, call : Calls \cup {"none"},
             write : Rows \cup Decisions, then : {"idle", "task", "mark"}]

TypeOK ==
    /\ kind \in [Calls -> Kinds] /\ schedule \in {"turns", "overlap"} /\ backend \in Backends
    /\ begun \in SUBSET Calls /\ granted \in SUBSET Calls
    /\ inv \in [Calls -> Rows] /\ task \in [Calls -> Tasks]
    /\ effects \in [Calls -> Nat] /\ wins \in [Calls -> Nat]
    /\ proc \in [Handlers -> Requests]
    /\ crashes \in Nat

\* The first request about a call runs before its task exists and writes the
\* invocation once.
InvokeOK(p) ==
    /\ p.op = "invoke" /\ p.pc \in {"authorize", "evaluate", "backend", "call", "record", "task"}
    /\ p.call \in begun /\ task[p.call] = "absent"
    /\ inv[p.call] = IF p.pc = "task" THEN "pending_approval" ELSE "absent"
    /\ p.pc = "record" => p.write \in Rows /\ p.then = IF p.write = "pending_approval" THEN "task" ELSE "idle"
    /\ p.pc \in {"evaluate", "task"} \/ (p.pc = "record" /\ p.write = "pending_approval") => kind[p.call] # "http"

\* A decision is about a task; when requests take turns the task stays as the
\* request found it and then as the request left it.
DecideOK(p) ==
    /\ p.op = "decide" /\ task[p.call] # "absent" /\ kind[p.call] # "http"
    /\ \/ /\ p.pc = "decide" /\ p.write \in Decisions
          /\ schedule = "turns" => task[p.call] = "pending"
       \/ /\ p.pc = "record" /\ p.then = "idle" /\ p.write \in {"denied", "cancelled"}
          /\ schedule = "turns" => task[p.call] \in {"rejected", "revoked"}

\* A resumption that found its task approved goes on to the call.
Entitled(p) == kind[p.call] = "tool" \/ p.pc \notin {"authorize", "validate"}

ResumeOK(p) ==
    /\ p.op = "resume" /\ task[p.call] # "absent" /\ kind[p.call] # "http"
    /\ p.pc \in {"authorize", "validate", "evaluate", "backend", "call", "record", "mark"}
    /\ p.pc = "validate" => kind[p.call] # "tool"
    /\ p.pc = "record" => p.then \in {"idle", "mark"} /\ p.write \in Rows \ {"pending_approval"}
    /\ Entitled(p) => /\ p.call \in granted
                      /\ schedule = "turns" => task[p.call] = "approved"

RequestOK(p) == p = Idle \/ (p.call \in Calls /\ (InvokeOK(p) \/ DecideOK(p) \/ ResumeOK(p)))

\* What was made without an approval is made by an invocation that ends there.
CallOK(c) ==
    /\ task[c] # "absent" => kind[c] # "http"
    /\ task[c] \in {"approved", "resumed"} => c \in granted
    /\ c \in granted => /\ task[c] # "absent"
                        /\ schedule = "turns" => task[c] \in {"approved", "resumed"}
    /\ c \notin begun => inv[c] = "absent" /\ task[c] = "absent" /\ effects[c] = 0 /\ wins[c] = 0
    /\ effects[c] > 0 /\ c \notin granted =>
          /\ task[c] = "absent"
          /\ \A h \in Handlers : proc[h].call = c => proc[h].pc = "record" /\ proc[h].then = "idle"

\* A call is invoked by one request, and in turns worked on by one.
Apart(p, q) == p.call = q.call /\ p.call \in Calls =>
                   schedule # "turns" /\ ~(p.op = "invoke" /\ q.op = "invoke")

Inv ==
    /\ TypeOK
    /\ \A h \in Handlers : RequestOK(proc[h])
    /\ \A c \in Calls : CallOK(c)
    /\ \A g, h \in Handlers : g # h => Apart(proc[g], proc[h])

----------------------------------------------------------------------------
\* The steps of a request, whichever function they belong to.
LEMMA RunningIs ==
  ASSUME NEW h, Running(h)
  PROVE  /\ ~At(h, "idle")
         /\ \/ Authorize(h) \/ Validate(h) \/ Evaluate(h)
            \/ ToolBackend(h) \/ ModelBackend(h) \/ HttpBackend(h)
            \/ (\E k \in Kinds : Call(h, k))
            \/ Write(h) \/ CreateTask(h) \/ DecideTool(h) \/ DecideRuntime(h) \/ Mark(h)
<1>1. {"tool", "shell", "model", "http"} = Kinds
  BY DEF Kinds
<1> QED
  BY <1>1 DEF Running, ToolInvokeAuthorize, ToolInvokeEvaluate, ToolInvokeBackend, ToolInvokeCall,
     ToolResumeAuthorize, ToolResumeEvaluate, ToolResumeBackend, ToolResumeCall, ShellAuthorize,
     ShellValidate, ShellEvaluate, CallShell, ModelAuthorize, ModelValidate, ModelEvaluate, CallModel,
     HttpAuthorize, CallHttp, WriteTool, WriteShell, WriteModel, WriteHttp, CreateToolTask,
     CreateShellTask, CreateModelTask, MarkTool, MarkRuntime

LEMMA FirstInv == Init => Inv
  BY CallsAreNames, SchedulesAreKnown
     DEF Init, Inv, TypeOK, RequestOK, CallOK, Apart, Idle, Requests, Steps, Rows, Tasks

\* A request moves on, or ends, and nothing else changes.
LEMMA MoveStep ==
  ASSUME Inv, NEW h \in Handlers, NEW q \in Requests, Go(h, q),
         UNCHANGED <<kind, schedule, backend, begun, granted, inv, task, effects, wins>>, crashes' \in Nat,
         RequestOK(q), \A g \in Handlers \ {h} : Apart(proc[g], q) /\ Apart(q, proc[g]),
         q.call \in Calls /\ effects[q.call] > 0 /\ q.call \notin granted => q.pc = "record" /\ q.then = "idle"
  PROVE  Inv'
<1>1. /\ \A g \in Handlers : proc'[g] = IF g = h THEN q ELSE proc[g]
      /\ proc' \in [Handlers -> Requests]
  BY DEF Inv, TypeOK, Go
<1>2. TypeOK'
  BY <1>1 DEF Inv, TypeOK
<1>3. \A g \in Handlers : RequestOK(proc[g])'
  <2>1. \A p : RequestOK(p) => (p = Idle \/ (p.call \in Calls /\ (InvokeOK(p) \/ DecideOK(p) \/ ResumeOK(p))))
    BY DEF RequestOK
  <2> QED BY <1>1 DEF Inv, RequestOK, InvokeOK, DecideOK, ResumeOK, Entitled
<1>4. \A c \in Calls : CallOK(c)'
  BY <1>1 DEF Inv, CallOK
<1>5. \A g, f \in Handlers : g # f => Apart(proc[g], proc[f])'
  BY <1>1 DEF Inv, Apart
<1> QED BY <1>2, <1>3, <1>4, <1>5 DEF Inv

\* A request ends.
LEMMA EndStep ==
  ASSUME Inv, NEW h \in Handlers, Go(h, Idle),
         UNCHANGED <<kind, schedule, backend, begun, granted, inv, task, effects, wins>>, crashes' \in Nat
  PROVE  Inv'
<1>1. Idle \in Requests /\ RequestOK(Idle) /\ Idle.call \notin Calls
  BY CallsAreNames DEF Idle, Requests, Steps, Rows, RequestOK
<1>2. \A g \in Handlers \ {h} : Apart(proc[g], Idle) /\ Apart(Idle, proc[g])
  BY <1>1 DEF Apart
<1> QED BY <1>1, <1>2, MoveStep

\* A request goes on with its call.
LEMMA NextStep ==
  ASSUME Inv, NEW h \in Handlers, NEW q \in Requests, Go(h, q), proc[h].call \in Calls,
         UNCHANGED <<kind, schedule, backend, begun, granted, inv, task, effects, wins>>, UNCHANGED crashes,
         q.call = proc[h].call, q.op = proc[h].op, RequestOK(q),
         ~At(h, "record")
  PROVE  Inv'
<1>1. \A g \in Handlers \ {h} : Apart(proc[g], q) /\ Apart(q, proc[g])
  BY DEF Inv, Apart
<1>2. ~(effects[q.call] > 0 /\ q.call \notin granted)
  BY DEF Inv, CallOK, At
<1>3. crashes' \in Nat
  BY DEF Inv, TypeOK
<1> QED BY <1>1, <1>2, <1>3, MoveStep

\* What is known of a request that is not idle.
LEMMA Runs ==
  ASSUME Inv, NEW h \in Handlers, ~At(h, "idle")
  PROVE  /\ proc[h] \in Requests /\ proc[h].call \in Calls
         /\ InvokeOK(proc[h]) \/ DecideOK(proc[h]) \/ ResumeOK(proc[h])
  BY DEF Inv, TypeOK, RequestOK, At, Idle

\* A request begins.
LEMMA BeginStep ==
  ASSUME Inv, NEW h \in Handlers, NEW c \in Calls, NEW d \in Decisions,
         \/ StartDecide(h, c, d) \/ StartResumeTool(h, c) \/ StartResumeRuntime(h, c)
  PROVE  Inv'
<1>1. PICK q : q \in Requests /\ Go(h, q) /\ q.call = c /\ q.op \in {"decide", "resume"} /\ RequestOK(q)
  <2>1. CASE StartDecide(h, c, d)
    <3> DEFINE q == [op |-> "decide", pc |-> "decide", call |-> c, write |-> d, then |-> "idle"]
    <3>1. q \in Requests /\ q.call \in Calls
      BY DEF Requests, Steps
    <3>2. DecideOK(q)
      BY <2>1 DEF StartDecide, Decidable, DecideOK, Inv, CallOK
    <3> QED BY <2>1, <3>1, <3>2 DEF StartDecide, Begin, RequestOK
  <2>2. CASE StartResumeTool(h, c) /\ c \in overdue
    <3> DEFINE q == [op |-> "resume", pc |-> "record", call |-> c, write |-> "expired", then |-> "idle"]
    <3>1. q \in Requests /\ q.call \in Calls
      BY DEF Requests, Steps, Rows
    <3>2. ResumeOK(q)
      BY <2>2 DEF StartResumeTool, Resumable, ResumeOK, Entitled, Inv, CallOK, Rows
    <3> QED BY <2>2, <3>1, <3>2 DEF StartResumeTool, Begin, RequestOK
  <2>3. CASE (StartResumeTool(h, c) /\ c \notin overdue) \/ StartResumeRuntime(h, c)
    <3> DEFINE q == [op |-> "resume", pc |-> "authorize", call |-> c, write |-> "absent", then |-> "idle"]
    <3>1. q \in Requests /\ q.call \in Calls
      BY DEF Requests, Steps, Rows
    <3>2. ResumeOK(q)
      BY <2>3 DEF StartResumeTool, StartResumeRuntime, RuntimeTask, Resumable, ResumeOK, Entitled, Inv, CallOK
    <3> QED BY <2>3, <3>1, <3>2 DEF StartResumeTool, StartResumeRuntime, Begin, RequestOK
  <2> QED BY <2>1, <2>2, <2>3
<1>2. \A g \in Handlers \ {h} : Apart(proc[g], q) /\ Apart(q, proc[g])
  BY <1>1 DEF StartDecide, StartResumeTool, StartResumeRuntime, MayStart, Apart
<1>3. ~(effects[q.call] > 0 /\ q.call \notin granted)
  BY <1>1 DEF StartDecide, StartResumeTool, StartResumeRuntime, Decidable, Resumable, RuntimeTask, Inv, CallOK
<1>4. UNCHANGED <<kind, schedule, backend, begun, granted, inv, task, effects, wins>> /\ crashes' \in Nat
  BY DEF StartDecide, StartResumeTool, StartResumeRuntime, fixed, registry, store, made, bounds, Inv, TypeOK
<1> QED BY <1>1, <1>2, <1>3, <1>4, MoveStep

\* An invocation begins: its call is new.
LEMMA InvokeStep == ASSUME Inv, NEW h \in Handlers, NEW c \in Calls, StartInvoke(h, c) PROVE Inv'
<1> DEFINE q == [op |-> "invoke", pc |-> "authorize", call |-> c, write |-> "absent", then |-> "idle"]
<1>1. /\ q \in Requests /\ q.call = c /\ q.op = "invoke" /\ q.pc = "authorize"
      /\ proc' = [proc EXCEPT ![h] = q]
  BY DEF Requests, Steps, Rows, StartInvoke, Begin, Go
<1> HIDE DEF q
<1>2. /\ c \notin begun /\ begun' = begun \cup {c}
      /\ UNCHANGED <<kind, schedule, backend, granted, inv, task, effects, wins, crashes>>
  BY DEF StartInvoke, fixed, registry, made, bounds
<1>3. /\ \A g \in Handlers : proc'[g] = IF g = h THEN q ELSE proc[g]
      /\ proc' \in [Handlers -> Requests]
  BY <1>1 DEF Inv, TypeOK
<1>4. TypeOK'
  BY <1>2, <1>3 DEF Inv, TypeOK
<1>5. \A g \in Handlers : RequestOK(proc[g])'
  <2>1. InvokeOK(q)'
    BY <1>1, <1>2 DEF InvokeOK, Inv, CallOK
  <2>2. ASSUME NEW g \in Handlers \ {h} PROVE RequestOK(proc[g])'
    BY <1>2, <1>3, <2>2 DEF Inv, RequestOK, InvokeOK, DecideOK, ResumeOK, Entitled
  <2> QED BY <1>1, <1>3, <2>1, <2>2 DEF RequestOK
<1>6. \A e \in Calls : CallOK(e)'
  BY <1>1, <1>2, <1>3 DEF Inv, CallOK
<1>7. \A g, f \in Handlers : g # f => Apart(proc[g], proc[f])'
  <2>1. ASSUME NEW g \in Handlers \ {h} PROVE Apart(q, proc[g])' /\ Apart(proc[g], q)'
    <3>1. proc[g].call = c => proc[g].op # "invoke"
      <4>1. proc[g] = Idle \/ InvokeOK(proc[g]) \/ DecideOK(proc[g]) \/ ResumeOK(proc[g])
        BY DEF Inv, RequestOK
      <4> QED BY <1>2, <4>1 DEF Idle, InvokeOK, DecideOK, ResumeOK
    <3>2. schedule = "turns" => proc[g].call # c
      BY DEF StartInvoke, MayStart
    <3> QED BY <1>1, <1>2, <1>3, <3>1, <3>2 DEF Apart
  <2> QED BY <1>1, <1>2, <1>3, <2>1 DEF Inv, Apart
<1> QED BY <1>4, <1>5, <1>6, <1>7 DEF Inv

\* The awaits that read: whether the call is admitted, its task, its policy.
LEMMA AuthorizeStep == ASSUME Inv, NEW h \in Handlers, ~At(h, "idle"), Authorize(h) PROVE Inv'
<1> DEFINE p == proc[h]
<1>1. /\ p \in Requests /\ p.call \in Calls /\ p.pc = "authorize"
      /\ InvokeOK(p) \/ ResumeOK(p)
  BY Runs DEF Authorize, At, DecideOK
<1>2. UNCHANGED <<kind, schedule, backend, begun, granted, inv, task, effects, wins, crashes>>
  BY DEF Authorize, fixed, registry, store, made, bounds
<1>3. CASE Move(h, AfterAuthorize(h))
  <2> DEFINE q == [p EXCEPT !.pc = AfterAuthorize(h)]
  <2>1. AfterAuthorize(h) \in {"evaluate", "validate", "backend"}
    BY DEF AfterAuthorize
  <2>2. InvokeOK(p) => AfterAuthorize(h) = IF kind[p.call] = "http" THEN "backend" ELSE "evaluate"
    BY <1>1 DEF AfterAuthorize, InvokeOK, Kind, Inv, TypeOK, Kinds
  <2>3. ResumeOK(p) => AfterAuthorize(h) = IF kind[p.call] = "tool" THEN "evaluate" ELSE "validate"
    BY <1>1 DEF AfterAuthorize, ResumeOK, Kind, Inv, TypeOK, Kinds
  <2> HIDE DEF p
  <2>4. /\ q \in Requests /\ q.call = p.call /\ q.op = p.op /\ q.pc = AfterAuthorize(h)
        /\ q.write = p.write /\ q.then = p.then
    BY <1>1, <2>1 DEF Requests, Steps
  <2>5. InvokeOK(p) => InvokeOK(q)
    BY <1>1, <2>2, <2>4 DEF InvokeOK
  <2>6. ResumeOK(p) => ResumeOK(q)
    BY <1>1, <2>3, <2>4 DEF ResumeOK, Entitled
  <2> QED BY <1>1, <1>2, <1>3, <2>4, <2>5, <2>6, NextStep DEF p, RequestOK, Move, At
<1>4. CASE Kind(h) = "tool" /\ Record(h, "denied", "idle")
  <2> DEFINE q == [p EXCEPT !.pc = "record", !.write = "denied", !.then = "idle"]
  <2>1. Kind(h) = kind[p.call]
    BY DEF Kind
  <2> HIDE DEF p
  <2>2. /\ q \in Requests /\ q.call = p.call /\ q.op = p.op /\ q.pc = "record"
        /\ q.write = "denied" /\ q.then = "idle"
    BY <1>1 DEF Requests, Steps, Rows
  <2>3. RequestOK(q)
    BY <1>1, <1>4, <2>1, <2>2 DEF RequestOK, InvokeOK, ResumeOK, Entitled, Rows
  <2> QED BY <1>1, <1>2, <1>4, <2>2, <2>3, NextStep DEF p, Record, At
<1>5. CASE Refuse(h)
  BY <1>2, <1>5, EndStep DEF Refuse, Inv, TypeOK
<1> QED BY <1>3, <1>4, <1>5 DEF Authorize

LEMMA ValidateStep == ASSUME Inv, NEW h \in Handlers, ~At(h, "idle"), Validate(h) PROVE Inv'
<1> DEFINE p == proc[h]
<1>1. /\ p \in Requests /\ p.call \in Calls /\ p.pc = "validate" /\ ResumeOK(p)
  BY Runs DEF Validate, At, DecideOK, InvokeOK
<1>2. UNCHANGED <<kind, schedule, backend, begun, granted, inv, task, effects, wins, crashes>>
  BY DEF Validate, fixed, registry, store, made, bounds
<1>3. CASE Resumable(p.call) /\ Move(h, "evaluate")
  <2> DEFINE q == [p EXCEPT !.pc = "evaluate"]
  <2> HIDE DEF p
  <2>1. q \in Requests /\ q.call = p.call /\ q.op = p.op /\ q.pc = "evaluate"
    BY <1>1 DEF Requests, Steps
  <2>2. p.call \in granted /\ task[p.call] = "approved"
    BY <1>1, <1>3 DEF Resumable, Inv, CallOK
  <2>3. ResumeOK(q)
    BY <1>1, <2>1, <2>2 DEF ResumeOK
  <2> QED BY <1>1, <1>2, <1>3, <2>1, <2>3, NextStep DEF p, RequestOK, Move, At
<1>4. CASE Refuse(h)
  BY <1>2, <1>4, EndStep DEF Refuse, Inv, TypeOK
<1> QED BY <1>3, <1>4 DEF Validate

\* A request that records a status goes on to write it.
LEMMA RecordStep ==
  ASSUME Inv, NEW h \in Handlers, NEW s \in Rows, NEW after \in {"idle", "task", "mark"},
         proc[h] \in Requests, proc[h].call \in Calls, Record(h, s, after),
         UNCHANGED <<kind, schedule, backend, begun, granted, inv, task, effects, wins, crashes>>,
         ~At(h, "record"), ~At(h, "task"),
         \/ /\ InvokeOK(proc[h])
            /\ after = IF s = "pending_approval" THEN "task" ELSE "idle"
            /\ s = "pending_approval" => kind[proc[h].call] # "http"
         \/ /\ ResumeOK(proc[h]) /\ Entitled(proc[h])
            /\ after \in {"idle", "mark"} /\ s # "pending_approval"
  PROVE  Inv'
<1> DEFINE p == proc[h]
           q == [p EXCEPT !.pc = "record", !.write = s, !.then = after]
<1> HIDE DEF p
<1>1. /\ q \in Requests /\ q.call = p.call /\ q.op = p.op /\ q.pc = "record"
      /\ q.write = s /\ q.then = after
  BY DEF p, Requests, Steps
<1>2. InvokeOK(q) \/ ResumeOK(q)
  BY <1>1 DEF p, At, InvokeOK, ResumeOK, Entitled
<1> QED BY <1>1, <1>2, NextStep DEF p, RequestOK, Record

LEMMA EvaluateStep == ASSUME Inv, NEW h \in Handlers, ~At(h, "idle"), Evaluate(h) PROVE Inv'
<1> DEFINE p == proc[h]
<1>1. /\ p \in Requests /\ p.call \in Calls /\ p.pc = "evaluate"
      /\ InvokeOK(p) \/ (ResumeOK(p) /\ Entitled(p))
  BY Runs DEF Evaluate, At, DecideOK, Entitled
<1>2. UNCHANGED <<kind, schedule, backend, begun, granted, inv, task, effects, wins, crashes>>
  BY DEF Evaluate, fixed, registry, store, made, bounds
<1>3. CASE Record(h, "denied", "idle")
  BY <1>1, <1>2, <1>3, RecordStep DEF At, Rows
<1>4. CASE proc[h].op = "invoke" /\ Record(h, "pending_approval", "task")
  BY <1>1, <1>2, <1>4, RecordStep DEF At, Rows, InvokeOK, ResumeOK
<1>5. CASE Move(h, IF Kind(h) = "shell" THEN "call" ELSE "backend")
  <2> DEFINE q == [p EXCEPT !.pc = IF Kind(h) = "shell" THEN "call" ELSE "backend"]
  <2> HIDE DEF p
  <2>1. q \in Requests /\ q.call = p.call /\ q.op = p.op /\ q.pc \in {"call", "backend"}
    BY <1>1 DEF Requests, Steps
  <2>2. InvokeOK(q) \/ ResumeOK(q)
    BY <1>1, <2>1 DEF InvokeOK, ResumeOK
  <2> QED BY <1>1, <1>2, <1>5, <2>1, <2>2, NextStep DEF p, RequestOK, Move, At
<1> QED BY <1>3, <1>4, <1>5 DEF Evaluate

\* What the call is made with.
LEMMA BackendStep ==
  ASSUME Inv, NEW h \in Handlers, ~At(h, "idle"), ToolBackend(h) \/ ModelBackend(h) \/ HttpBackend(h)
  PROVE  Inv'
<1> DEFINE p == proc[h]
<1>1. /\ p \in Requests /\ p.call \in Calls /\ p.pc = "backend"
      /\ InvokeOK(p) \/ (ResumeOK(p) /\ Entitled(p))
  BY Runs DEF ToolBackend, ModelBackend, HttpBackend, At, DecideOK, Entitled
<1>2. UNCHANGED <<kind, schedule, backend, begun, granted, inv, task, effects, wins, crashes>>
  BY DEF ToolBackend, ModelBackend, HttpBackend, fixed, registry, store, made, bounds
<1>3. CASE Move(h, "call")
  <2> DEFINE q == [p EXCEPT !.pc = "call"]
  <2> HIDE DEF p
  <2>1. q \in Requests /\ q.call = p.call /\ q.op = p.op /\ q.pc = "call"
    BY <1>1 DEF Requests, Steps
  <2>2. InvokeOK(q) \/ ResumeOK(q)
    BY <1>1, <2>1 DEF InvokeOK, ResumeOK
  <2> QED BY <1>1, <1>2, <1>3, <2>1, <2>2, NextStep DEF p, RequestOK, Move, At
<1>4. CASE \E s \in {"failed", "budget_exceeded"} : Record(h, s, "idle")
  BY <1>1, <1>2, <1>4, RecordStep DEF At, Rows
<1>5. CASE Refuse(h)
  BY <1>2, <1>5, EndStep DEF Refuse, Inv, TypeOK
<1> QED
  <2>1. CASE ToolBackend(h)
    BY <2>1, <1>3, <1>4 DEF ToolBackend
  <2>2. CASE ModelBackend(h)
    BY <2>2, <1>3, <1>4, <1>5 DEF ModelBackend, Inv, TypeOK, Backends
  <2>3. CASE HttpBackend(h)
    BY <2>3, <1>3, <1>5 DEF HttpBackend
  <2> QED BY <2>1, <2>2, <2>3

\* The call itself.  By an invocation it needs no approval, for no task will
\* be created; by a resumption it has one.
LEMMA CallStep == ASSUME Inv, NEW h \in Handlers, NEW k \in Kinds, Call(h, k) PROVE Inv'
<1> DEFINE p == proc[h]
           c == p.call
<1>1. /\ p \in Requests /\ c \in Calls /\ p.pc = "call"
      /\ InvokeOK(p) \/ (ResumeOK(p) /\ Entitled(p))
  BY Runs DEF Call, At, DecideOK, Entitled
<1>2. PICK a \in Answers : /\ effects' = [effects EXCEPT ![c] = @ + a.sent]
                           /\ wins' = [wins EXCEPT ![c] = @ + a.won]
                           /\ Record(h, a.status, AfterCall(k, p.op, a.status))
  BY DEF Call
<1>3. UNCHANGED <<kind, schedule, backend, begun, granted, inv, task, crashes>>
  BY DEF Call, fixed, registry, store, bounds
<1>4. a.sent \in Nat /\ a.won \in Nat /\ a.status \in {"success", "failed"}
  BY DEF Answers
<1> DEFINE after == AfterCall(k, p.op, a.status)
           q == [p EXCEPT !.pc = "record", !.write = a.status, !.then = after]
<1>5. after \in {"idle", "mark"} /\ (InvokeOK(p) => after = "idle")
  BY DEF AfterCall, InvokeOK
<1> HIDE DEF p, after
<1>6. /\ q \in Requests /\ q.call = c /\ q.op = p.op /\ q.pc = "record"
      /\ q.write = a.status /\ q.then = after
  BY <1>1, <1>4, <1>5 DEF Requests, Steps, Rows
<1>7. proc' = [proc EXCEPT ![h] = q]
  BY <1>2 DEF p, after, Record, Go
<1> HIDE DEF q
<1>8. /\ \A g \in Handlers : proc'[g] = IF g = h THEN q ELSE proc[g]
      /\ proc' \in [Handlers -> Requests]
  BY <1>6, <1>7 DEF Inv, TypeOK
<1>9. TypeOK'
  BY <1>1, <1>2, <1>3, <1>4, <1>8 DEF Inv, TypeOK
<1>10. \A g \in Handlers : RequestOK(proc[g])'
  <2>1. InvokeOK(q) \/ ResumeOK(q)
    BY <1>1, <1>4, <1>5, <1>6 DEF InvokeOK, ResumeOK, Entitled, Rows
  <2> QED BY <1>1, <1>3, <1>6, <1>8, <2>1 DEF Inv, RequestOK, InvokeOK, DecideOK, ResumeOK, Entitled
<1>11. ASSUME NEW e \in Calls PROVE CallOK(e)'
  <2>1. CASE e # c
    <3>1. effects'[e] = effects[e] /\ wins'[e] = wins[e]
      BY <1>1, <1>2, <2>1 DEF Inv, TypeOK
    <3> QED BY <1>3, <1>6, <1>8, <2>1, <3>1 DEF Inv, CallOK
  <2>2. CASE e = c /\ InvokeOK(p)
    <3>1. e \notin granted /\ e \in begun /\ task[e] = "absent"
      BY <1>1, <2>2 DEF InvokeOK, Inv, CallOK
    <3>2. ASSUME NEW g \in Handlers \ {h} PROVE proc[g].call # e
      <4>1. proc[g] = Idle \/ InvokeOK(proc[g]) \/ DecideOK(proc[g]) \/ ResumeOK(proc[g])
        BY DEF Inv, RequestOK
      <4> QED BY <1>1, <2>2, <3>1, <4>1, CallsAreNames DEF p, Inv, Apart, Idle, InvokeOK, DecideOK, ResumeOK
    <3>3. after = "idle"
      BY <1>5, <2>2
    <3> QED BY <1>3, <1>6, <1>8, <2>2, <3>1, <3>2, <3>3 DEF CallOK
  <2>3. CASE e = c /\ ResumeOK(p) /\ Entitled(p)
    <3>1. e \in granted /\ e \in begun
      BY <1>1, <2>3 DEF ResumeOK, Inv, CallOK
    <3> QED BY <1>3, <3>1 DEF Inv, CallOK
  <2> QED BY <1>1, <2>1, <2>2, <2>3
<1>12. \A g, f \in Handlers : g # f => Apart(proc[g], proc[f])'
  BY <1>3, <1>6, <1>8 DEF Inv, Apart, p
<1> QED BY <1>9, <1>10, <1>11, <1>12 DEF Inv

\* The write of an invocation: another request about the call is no invocation.
LEMMA WriteStep == ASSUME Inv, NEW h \in Handlers, Write(h) PROVE Inv'
<1> DEFINE p == proc[h]
           c == p.call
           q == IF p.then = "idle" THEN Idle ELSE [p EXCEPT !.pc = p.then]
<1>1. /\ p \in Requests /\ c \in Calls /\ p.pc = "record"
      /\ InvokeOK(p) \/ DecideOK(p) \/ ResumeOK(p)
  BY Runs DEF Write, At
<1>2. /\ UNCHANGED <<kind, schedule, backend, begun, granted, task, effects, wins, crashes>>
      /\ inv' = [inv EXCEPT ![c] = p.write]
  BY DEF Write, fixed, registry, made, bounds
<1>3. proc' = [proc EXCEPT ![h] = q]
  BY DEF Write, Go, Move
<1>4. p.then = "idle" => q = Idle
  OBVIOUS
<1>5. p.then # "idle" => /\ q.call = c /\ q.op = p.op /\ q.pc = p.then
                         /\ q.write = p.write /\ q.then = p.then
  BY <1>1 DEF Requests
<1>6. q \in Requests /\ Idle.call \notin Calls
  <2> HIDE DEF p
  <2> QED BY <1>1, CallsAreNames DEF Requests, Steps, Idle, Rows
<1> HIDE DEF p, q
<1>7. /\ \A g \in Handlers : proc'[g] = IF g = h THEN q ELSE proc[g]
      /\ proc' \in [Handlers -> Requests]
  BY <1>3, <1>6 DEF Inv, TypeOK
<1>8. p.write \in Rows
  BY <1>1 DEF InvokeOK, DecideOK, ResumeOK, Requests, Rows, Decisions, p
<1>9. TypeOK'
  BY <1>1, <1>2, <1>7, <1>8 DEF Inv, TypeOK
<1>10. ASSUME NEW g \in Handlers PROVE RequestOK(proc[g])'
  <2>1. CASE g = h /\ p.then = "idle"
    BY <1>4, <1>7, <2>1 DEF RequestOK
  <2>2. CASE g = h /\ p.then # "idle"
    <3>1. InvokeOK(p) => InvokeOK(proc[h])'
      BY <1>1, <1>2, <1>5, <1>7, <2>2 DEF InvokeOK, Inv, TypeOK
    <3>2. ~DecideOK(p)
      BY <1>1, <2>2 DEF DecideOK
    <3>3. ResumeOK(p) => ResumeOK(proc[h])'
      BY <1>1, <1>2, <1>5, <1>7, <2>2 DEF ResumeOK, Entitled
    <3> QED BY <1>1, <1>5, <1>7, <2>2, <3>1, <3>2, <3>3 DEF RequestOK
  <2>3. CASE g # h
    <3>1. proc'[g] = proc[g] /\ RequestOK(proc[g])
      BY <1>7, <2>3 DEF Inv
    <3>2. InvokeOK(proc[g]) => proc[g].call # c
      BY <1>1, <2>3 DEF Inv, Apart, InvokeOK, DecideOK, ResumeOK, p
    <3>3. InvokeOK(proc[g]) /\ proc[g].call \in Calls => inv'[proc[g].call] = inv[proc[g].call]
      BY <1>2, <3>2 DEF Inv, TypeOK
    <3>4. InvokeOK(proc[g]) /\ proc[g].call \in Calls => InvokeOK(proc[g])'
      BY <1>2, <3>1, <3>3 DEF InvokeOK
    <3> QED BY <1>2, <3>1, <3>4 DEF RequestOK, DecideOK, ResumeOK, Entitled
  <2> QED BY <2>1, <2>2, <2>3
<1>11. ASSUME NEW e \in Calls PROVE CallOK(e)'
  <2>1. e \notin begun => inv'[e] = inv[e]
    BY <1>1, <1>2 DEF Inv, TypeOK, CallOK, InvokeOK, DecideOK, ResumeOK
  <2>2. effects[e] > 0 /\ e \notin granted /\ c = e => p.then = "idle"
    BY <1>1 DEF Inv, CallOK, p
  <2>3. \A g \in Handlers : proc'[g].call = e /\ effects[e] > 0 /\ e \notin granted => proc'[g] = proc[g]
    BY <1>4, <1>5, <1>6, <1>7, <2>2
  <2> QED BY <1>2, <2>1, <2>3 DEF Inv, CallOK
<1>12. \A g, f \in Handlers : g # f => Apart(proc[g], proc[f])'
  BY <1>2, <1>4, <1>5, <1>6, <1>7 DEF Inv, Apart, p
<1> QED BY <1>9, <1>10, <1>11, <1>12 DEF Inv

\* The steps that write the task of a call: the request that creates it is its
\* invocation, and every other request about the call knows that it exists.
LEMMA TaskStep ==
  ASSUME Inv, NEW h \in Handlers, ~At(h, "idle"), NEW t \in ToolTask, NEW q \in Requests,
         UNCHANGED <<kind, schedule, backend, begun, inv, effects, wins, crashes>>,
         task' = [task EXCEPT ![proc[h].call] = t], Go(h, q),
         granted' = IF t = "approved" THEN granted \cup {proc[h].call} ELSE granted,
         kind[proc[h].call] # "http",
         \/ InvokeOK(proc[h]) /\ proc[h].pc = "task" /\ t = "pending" /\ q = Idle
         \/ ResumeOK(proc[h]) /\ proc[h].pc = "mark" /\ t = "resumed" /\ q = Idle
         \/ DecideOK(proc[h]) /\ proc[h].pc = "decide" /\ t = proc[h].write /\ q = Idle
         \/ /\ DecideOK(proc[h]) /\ proc[h].pc = "decide" /\ t = proc[h].write /\ t # "approved"
            /\ q.call = proc[h].call /\ q.op = "decide" /\ q.pc = "record" /\ q.then = "idle"
            /\ q.write \in {"denied", "cancelled"}
  PROVE  Inv'
<1> DEFINE p == proc[h]
           c == p.call
<1>1. /\ p \in Requests /\ c \in Calls
      /\ task[c] = "absent" <=> InvokeOK(p)
  BY Runs DEF InvokeOK, DecideOK, ResumeOK
<1>2. Idle.call \notin Calls
  BY CallsAreNames DEF Idle
<1>3. /\ \A g \in Handlers : proc'[g] = IF g = h THEN q ELSE proc[g]
      /\ proc' \in [Handlers -> Requests]
  BY DEF Go, Inv, TypeOK
<1>4. /\ task' \in [Calls -> Tasks] /\ task'[c] = t /\ t # "absent"
      /\ \A e \in Calls : e # c => task'[e] = task[e]
  BY <1>1 DEF Inv, TypeOK, Tasks, ToolTask
<1>5. TypeOK'
  BY <1>1, <1>3, <1>4 DEF Inv, TypeOK
<1>6. /\ granted \in SUBSET granted' /\ granted' \in SUBSET Calls
      /\ \A e \in Calls : e # c => (e \in granted' <=> e \in granted)
      /\ c \in granted' <=> (c \in granted \/ t = "approved")
  BY <1>1 DEF Inv, TypeOK
<1>7. t \in {"approved", "resumed"} => c \in granted'
  BY <1>1, <1>6 DEF ResumeOK, Entitled, DecideOK, Decisions
<1>8. InvokeOK(p) => c \notin granted
  BY <1>1 DEF Inv, CallOK
<1>9. DecideOK(p) /\ schedule = "turns" => c \notin granted
  BY <1>1 DEF Inv, CallOK, DecideOK
<1>10. ASSUME NEW g \in Handlers PROVE RequestOK(proc[g])'
  <2>1. CASE g = h /\ q = Idle
    BY <1>3, <2>1 DEF RequestOK
  <2>2. CASE g = h /\ q # Idle
    <3>1. DecideOK(proc[g])'
      BY <1>1, <1>3, <1>4, <2>2 DEF DecideOK, Decisions
    <3> QED BY <1>1, <1>3, <2>2, <3>1 DEF RequestOK
  <2>3. CASE g # h
    <3>1. proc'[g] = proc[g] /\ RequestOK(proc[g])
      BY <1>3, <2>3 DEF Inv
    <3>2. proc[g].call = c => schedule # "turns" /\ ~InvokeOK(proc[g])
      BY <1>1, <2>3 DEF Inv, Apart, InvokeOK, p
    <3>3. InvokeOK(proc[g]) /\ proc[g].call \in Calls => InvokeOK(proc[g])'
      BY <1>4, <3>1, <3>2 DEF InvokeOK
    <3>4. DecideOK(proc[g]) /\ proc[g].call \in Calls => DecideOK(proc[g])'
      BY <1>4, <3>1, <3>2 DEF DecideOK
    <3>5. ResumeOK(proc[g]) /\ proc[g].call \in Calls => ResumeOK(proc[g])'
      BY <1>4, <1>6, <3>1, <3>2 DEF ResumeOK, Entitled
    <3> QED BY <3>1, <3>3, <3>4, <3>5 DEF RequestOK
  <2> QED BY <2>1, <2>2, <2>3
<1>11. ASSUME NEW e \in Calls PROVE CallOK(e)'
  <2>1. CASE e # c
    <3>1. \A g \in Handlers : proc'[g].call = e => proc'[g] = proc[g]
      BY <1>2, <1>3, <2>1
    <3> QED BY <1>4, <1>6, <2>1, <3>1 DEF Inv, CallOK
  <2>2. CASE e = c
    <3>1. c \in begun
      BY <1>1 DEF Inv, CallOK, InvokeOK
    <3>2. effects[c] > 0 => c \in granted
      BY <1>1 DEF Inv, CallOK, InvokeOK, p
    <3>3. c \in granted' /\ schedule = "turns" => t \in {"approved", "resumed"}
      BY <1>6, <1>8, <1>9
    <3> QED BY <1>1, <1>4, <1>6, <1>7, <2>2, <3>1, <3>2, <3>3 DEF CallOK
  <2> QED BY <2>1, <2>2
<1>12. \A g, f \in Handlers : g # f => Apart(proc[g], proc[f])'
  BY <1>2, <1>3 DEF Inv, Apart, InvokeOK, DecideOK, ResumeOK, p
<1> QED BY <1>5, <1>10, <1>11, <1>12 DEF Inv

LEMMA CreateStep == ASSUME Inv, NEW h \in Handlers, CreateTask(h) PROVE Inv'
<1>1. proc[h].pc = "task" /\ InvokeOK(proc[h])
  BY Runs DEF CreateTask, At, DecideOK, ResumeOK
<1>2. Idle \in Requests /\ "pending" \in ToolTask
  BY DEF Idle, Requests, Steps, Rows, ToolTask
<1> QED BY <1>1, <1>2, TaskStep DEF CreateTask, At, InvokeOK, fixed, registry, made, bounds

LEMMA MarkStep == ASSUME Inv, NEW h \in Handlers, Mark(h) PROVE Inv'
<1>1. proc[h].pc = "mark" /\ ResumeOK(proc[h])
  BY Runs DEF Mark, At, DecideOK, InvokeOK
<1>2. Idle \in Requests /\ "resumed" \in ToolTask
  BY DEF Idle, Requests, Steps, Rows, ToolTask
<1> QED BY <1>1, <1>2, TaskStep DEF Mark, At, ResumeOK, fixed, registry, made, bounds

LEMMA DecideStep == ASSUME Inv, NEW h \in Handlers, DecideTool(h) \/ DecideRuntime(h) PROVE Inv'
<1> DEFINE d == proc[h].write
           q == [proc[h] EXCEPT !.pc = "record", !.write = Outcome(d), !.then = "idle"]
<1>1. Decide(h) /\ (Go(h, Idle) \/ (d # "approved" /\ Go(h, q)))
  BY DEF DecideTool, DecideRuntime, Record
<1>2. proc[h].pc = "decide" /\ DecideOK(proc[h]) /\ proc[h] \in Requests /\ d \in ToolTask
  BY <1>1, Runs DEF Decide, At, InvokeOK, ResumeOK, DecideOK, Decisions, ToolTask
<1>3. Idle \in Requests
  BY DEF Idle, Requests, Steps, Rows
<1>4. /\ q \in Requests /\ q.call = proc[h].call /\ q.op = "decide" /\ q.pc = "record" /\ q.then = "idle"
      /\ q.write \in {"denied", "cancelled"}
  BY <1>2 DEF Requests, Steps, Rows, Outcome, DecideOK
<1>5. /\ task' = [task EXCEPT ![proc[h].call] = d]
      /\ granted' = IF d = "approved" THEN granted \cup {proc[h].call} ELSE granted
      /\ UNCHANGED <<kind, schedule, backend, begun, inv, effects, wins, crashes>>
      /\ kind[proc[h].call] # "http" /\ ~At(h, "idle")
  BY <1>1, <1>2 DEF Decide, fixed, registry, made, bounds, DecideOK, At
<1> HIDE DEF d, q
<1>6. d = proc[h].write
  BY DEF d
<1> QED BY <1>1, <1>2, <1>3, <1>4, <1>5, <1>6, TaskStep

\* An expiry, a change by an administrator and a crash disturb no request
\* but the one that dies.
LEMMA EnvironmentStep ==
  ASSUME Inv, Administer \/ (\E c \in Calls : Expire(c)) \/ UNCHANGED vars
  PROVE  Inv'
<1>1. UNCHANGED <<kind, schedule, begun, granted, inv, task, effects, wins, proc, crashes>> /\ backend' \in Backends
  BY DEF Administer, Expire, vars, fixed, registry, store, made, bounds, Inv, TypeOK
<1> QED BY <1>1 DEF Inv, TypeOK, RequestOK, InvokeOK, DecideOK, ResumeOK, Entitled, CallOK, Apart

LEMMA CrashStep == ASSUME Inv, NEW h \in Handlers, Crash(h) PROVE Inv'
  BY EndStep DEF Crash, fixed, registry, store, made, Inv, TypeOK

\* A step of the system is one of these.
LEMMA NextIs ==
  ASSUME [Next]_vars
  PROVE  \/ \E h \in Handlers, c \in Calls : StartInvoke(h, c)
         \/ \E h \in Handlers, c \in Calls, d \in Decisions :
               StartDecide(h, c, d) \/ StartResumeTool(h, c) \/ StartResumeRuntime(h, c)
         \/ \E h \in Handlers : ~At(h, "idle") /\ (Authorize(h) \/ Validate(h) \/ Evaluate(h))
         \/ \E h \in Handlers : ~At(h, "idle") /\ (ToolBackend(h) \/ ModelBackend(h) \/ HttpBackend(h))
         \/ \E h \in Handlers, k \in Kinds : Call(h, k)
         \/ \E h \in Handlers : Write(h)
         \/ \E h \in Handlers : CreateTask(h) \/ DecideTool(h) \/ DecideRuntime(h) \/ Mark(h)
         \/ \E h \in Handlers : Crash(h)
         \/ Administer \/ (\E c \in Calls : Expire(c)) \/ UNCHANGED vars
  BY RunningIs DEF Next, Decisions

LEMMA InvStep == Inv /\ [Next]_vars => Inv'
  BY NextIs, InvokeStep, BeginStep, AuthorizeStep, ValidateStep, EvaluateStep, BackendStep, CallStep,
     WriteStep, CreateStep, DecideStep, MarkStep, CrashStep, EnvironmentStep

THEOREM InvCorrect == Spec => []Inv
  BY FirstInv, InvStep, PTL DEF Spec

\* A call that was put up for approval is made only after it was approved.
THEOREM NoUnapprovedCallCorrect == Spec => []NoUnapprovedCall
<1>1. Inv => NoUnapprovedCall
  BY DEF Inv, CallOK, NoUnapprovedCall
<1> QED BY <1>1, InvCorrect, PTL

\* When requests take turns, a call whose approval was refused was not made.
THEOREM RefusedCorrect == Spec => []RefusedIsNotCalled
<1>1. Inv => RefusedIsNotCalled
  BY DEF Inv, TypeOK, CallOK, RefusedIsNotCalled
<1> QED BY <1>1, InvCorrect, PTL

----------------------------------------------------------------------------
\* Only a request that is about to write changes what is recorded of its call.
LEMMA OnlyWriters ==
  ASSUME Inv, [Next]_vars, NEW c \in Calls,
         \A h \in Handlers : proc[h].call = c => proc[h].pc \notin {"call", "record", "task", "decide", "mark"}
  PROVE  inv'[c] = inv[c] /\ task'[c] = task[c] /\ effects'[c] = effects[c]
<1>1. CASE UNCHANGED <<inv, task, effects>>
  BY <1>1
<1>2. ASSUME NEW h \in Handlers, NEW k \in Kinds, Call(h, k)
      PROVE  inv'[c] = inv[c] /\ task'[c] = task[c] /\ effects'[c] = effects[c]
  BY <1>2 DEF Call, At, store, Inv, TypeOK
<1>3. ASSUME NEW h \in Handlers, Write(h)
      PROVE  inv'[c] = inv[c] /\ task'[c] = task[c] /\ effects'[c] = effects[c]
  BY <1>3 DEF Write, At, made, Inv, TypeOK
<1>4. ASSUME NEW h \in Handlers, CreateTask(h) \/ DecideTool(h) \/ DecideRuntime(h) \/ Mark(h)
      PROVE  inv'[c] = inv[c] /\ task'[c] = task[c] /\ effects'[c] = effects[c]
  BY <1>4 DEF CreateTask, DecideTool, DecideRuntime, Decide, Mark, At, made, Inv, TypeOK
<1>5. ASSUME NEW h \in Handlers, NEW e \in Calls, NEW d \in Decisions,
             \/ StartInvoke(h, e) \/ StartDecide(h, e, d) \/ StartResumeTool(h, e) \/ StartResumeRuntime(h, e)
             \/ Authorize(h) \/ Validate(h) \/ Evaluate(h) \/ ToolBackend(h) \/ ModelBackend(h)
             \/ HttpBackend(h) \/ Crash(h) \/ Administer \/ Expire(e) \/ UNCHANGED vars
      PROVE  UNCHANGED <<inv, task, effects>>
  BY <1>5 DEF StartInvoke, StartDecide, StartResumeTool, StartResumeRuntime, Authorize, Validate, Evaluate,
     ToolBackend, ModelBackend, HttpBackend, Crash, Administer, Expire, vars, store, made
<1>6. "approved" \in Decisions
  BY DEF Decisions
<1> QED
  <2>1. CASE \E h \in Handlers, d \in Decisions, e \in Calls :
                \/ StartInvoke(h, e) \/ StartDecide(h, e, d) \/ StartResumeTool(h, e) \/ StartResumeRuntime(h, e)
                \/ Authorize(h) \/ Validate(h) \/ Evaluate(h) \/ ToolBackend(h) \/ ModelBackend(h)
                \/ HttpBackend(h) \/ Crash(h)
    BY <1>1, <1>5, <2>1
  <2>2. CASE Administer \/ (\E e \in Calls : Expire(e)) \/ UNCHANGED vars
    BY <1>1, <2>2 DEF Administer, Expire, vars, store, made
  <2> QED BY <1>2, <1>3, <1>4, <1>6, <2>1, <2>2, NextIs

\* When requests take turns, a finished record stays and the call is not repeated.
THEOREM FinalCorrect == Spec => FinalStays
<1>1. ASSUME Inv, [Next]_vars, schedule = "turns", NEW c \in Calls, Final(c)
      PROVE  inv'[c] = inv[c] /\ task'[c] = task[c] /\ effects'[c] = effects[c]
  <2>1. ASSUME NEW h \in Handlers, proc[h].call = c
        PROVE  proc[h].pc \notin {"call", "record", "task", "decide", "mark"}
    <3>1. InvokeOK(proc[h]) \/ DecideOK(proc[h]) \/ ResumeOK(proc[h])
      BY <1>1, <2>1, CallsAreNames DEF Inv, RequestOK, Idle
    <3>2. "absent" \notin Row[kind[c]]
      BY <1>1 DEF Inv, TypeOK, Kinds, Row, ToolRow, ShellRow, ModelRow, HttpRow
    <3> QED BY <1>1, <2>1, <3>1, <3>2 DEF Final, InvokeOK, DecideOK, ResumeOK, Entitled
  <2> QED BY <1>1, <2>1, OnlyWriters
<1>2. Inv /\ [Next]_vars =>
        [schedule = "turns" =>
           \A c \in Calls : Final(c) => /\ inv'[c] = inv[c] /\ task'[c] = task[c]
                                        /\ effects'[c] = effects[c]]_vars
  BY <1>1
<1> QED BY <1>2, InvCorrect, PTL DEF Spec, FinalStays

----------------------------------------------------------------------------

\* A request that has made its call and is about to spend the approval.
Spending(p) == p.pc = "mark" \/ (p.pc = "record" /\ p.then = "mark")

\* An invocation that has not come to the call, or awaits an approval.
Pending(p) == /\ p.op = "invoke"
              /\ \/ p.pc \in {"authorize", "evaluate", "backend", "call", "task"}
                 \/ p.pc = "record" /\ p.then = "task"

\* A call that can still be made while nobody crashes: it was never requested,
\* its invocation is pending, or its task is open and nobody is spending it.
Ready(c) ==
    \/ c \notin begun
    \/ \E h \in Handlers : proc[h].call = c /\ Pending(proc[h])
    \/ /\ task[c] \in {"pending", "approved"}
       /\ \A h \in Handlers : proc[h].call = c => ~Spending(proc[h])

OnceInv == schedule = "turns" => \A c \in Calls : /\ Spent(c) <= 1 + crashes
                                                  /\ Ready(c) => Spent(c) <= crashes

\* A step of one request makes a call ready only when it was.
LEMMA QuietStep ==
  ASSUME Inv, NEW c \in Calls, NEW h \in Handlers, NEW q \in Requests, Go(h, q), begun \in SUBSET begun',
         q.call = c /\ Pending(q) => Ready(c),
         task'[c] = task[c] \/ Ready(c) \/ task'[c] \notin {"pending", "approved"},
         proc[h].call = c /\ Spending(proc[h]) =>
            task'[c] \notin {"pending", "approved"} \/ (q.call = c /\ Spending(q)),
         Ready(c)'
  PROVE  Ready(c)
<1>1. \A g \in Handlers : proc'[g] = IF g = h THEN q ELSE proc[g]
  BY DEF Inv, TypeOK, Go
<1>2. ASSUME NEW g \in Handlers, proc'[g].call = c, Pending(proc'[g]) PROVE Ready(c)
  BY <1>1, <1>2 DEF Ready
<1>3. CASE /\ task'[c] \in {"pending", "approved"}
           /\ \A g \in Handlers : proc'[g].call = c => ~Spending(proc'[g])
  BY <1>1, <1>3 DEF Ready
<1> QED
  <2>1. \/ c \notin begun'
        \/ \E g \in Handlers : proc'[g].call = c /\ Pending(proc'[g])
        \/ /\ task'[c] \in {"pending", "approved"}
           /\ \A g \in Handlers : proc'[g].call = c => ~Spending(proc'[g])
    BY DEF Ready, Pending, Spending
  <2>2. c \notin begun' => Ready(c)
    BY DEF Ready
  <2> QED BY <1>2, <1>3, <2>1, <2>2

\* What a request becomes when it moves, and when it goes on to record.
LEMMA Moved ==
  ASSUME NEW p \in Requests, NEW x \in Steps
  PROVE  LET q == [p EXCEPT !.pc = x]
         IN  q \in Requests /\ q.op = p.op /\ q.call = p.call
  BY DEF Requests, Steps

LEMMA Recording ==
  ASSUME NEW p \in Requests, NEW w \in Rows, NEW t \in {"idle", "task", "mark"}
  PROVE  LET q == [p EXCEPT !.pc = "record", !.write = w, !.then = t]
         IN  q \in Requests /\ q.op = p.op /\ q.call = p.call /\ q.pc = "record" /\ q.then = t
  BY DEF Requests, Steps

\* Without a crash, and but for the call itself, no step makes a call ready again.
LEMMA NoneReadier ==
  ASSUME Inv, [Next]_vars, schedule = "turns", NEW c \in Calls, crashes' = crashes,
         \A h \in Handlers, k \in Kinds : Call(h, k) => proc[h].call # c, Ready(c)'
  PROVE  Ready(c)
<1>1. Idle \in Requests /\ ~Pending(Idle)
  BY DEF Idle, Requests, Steps, Rows, Pending
<1>2. ASSUME NEW h \in Handlers, NEW e \in Calls, StartInvoke(h, e) PROVE Ready(c)
  <2> DEFINE q == [op |-> "invoke", pc |-> "authorize", call |-> e, write |-> "absent", then |-> "idle"]
  <2>1. q \in Requests /\ q.call = e /\ Go(h, q)
    BY <1>2 DEF StartInvoke, Begin, Requests, Steps, Rows
  <2>2. e \notin begun /\ begun' = begun \cup {e} /\ task' = task /\ ~Spending(proc[h])
    BY <1>2 DEF StartInvoke, MayStart, At, Spending
  <2> HIDE DEF q
  <2>3. e = c => Ready(c)
    BY <2>2 DEF Ready
  <2> QED BY <2>1, <2>2, <2>3, QuietStep
<1>3. ASSUME NEW h \in Handlers, NEW e \in Calls, NEW d \in Decisions,
             StartDecide(h, e, d) \/ StartResumeTool(h, e) \/ StartResumeRuntime(h, e)
      PROVE  Ready(c)
  <2>1. PICK q \in Requests : Go(h, q) /\ q.op # "invoke"
    <3>1. CASE StartDecide(h, e, d)
      BY <3>1 DEF StartDecide, Begin, Requests, Steps
    <3>2. CASE StartResumeTool(h, e) /\ e \in overdue
      BY <3>2 DEF StartResumeTool, Begin, Requests, Steps, Rows
    <3>3. CASE (StartResumeTool(h, e) /\ e \notin overdue) \/ StartResumeRuntime(h, e)
      BY <3>3 DEF StartResumeTool, StartResumeRuntime, Begin, Requests, Steps, Rows
    <3> QED BY <1>3, <3>1, <3>2, <3>3
  <2>2. begun' = begun /\ task' = task /\ ~Spending(proc[h])
    BY <1>3 DEF StartDecide, StartResumeTool, StartResumeRuntime, MayStart, At, Spending, store
  <2> QED BY <2>1, <2>2, QuietStep DEF Pending

<1>4. ASSUME NEW h \in Handlers, ~At(h, "idle"),
             \/ Authorize(h)   \/ Validate(h)     \/ Evaluate(h)
             \/ ToolBackend(h) \/ ModelBackend(h) \/ HttpBackend(h)
      PROVE  Ready(c)
  <2> DEFINE p == proc[h]
  <2>1. p \in Requests /\ p.pc \in {"authorize", "validate", "evaluate", "backend"}
    BY <1>4, Runs DEF Authorize, Validate, Evaluate, ToolBackend, ModelBackend, HttpBackend, At
  <2>2. p.op = "invoke" => Pending(p)
    BY <1>4, <2>1, Runs DEF Pending, InvokeOK, DecideOK, ResumeOK
  <2>3. \/ Go(h, Idle)
        \/ \E x \in Steps : Go(h, [p EXCEPT !.pc = x])
        \/ \E w \in Rows, x \in {"idle", "task"} : Go(h, [p EXCEPT !.pc = "record", !.write = w, !.then = x])
    <3>1. AfterAuthorize(h) \in Steps
      BY DEF AfterAuthorize, Steps
    <3> QED BY <1>4, <3>1 DEF Authorize, Validate, Evaluate, ToolBackend, ModelBackend, HttpBackend, Refuse,
            Move, Record, Steps, Rows, Inv, TypeOK, Backends
  <2>4. begun' = begun /\ task' = task
    BY <1>4 DEF Authorize, Validate, Evaluate, ToolBackend, ModelBackend, HttpBackend, store
  <2>5. p.call = c /\ Pending(p) => Ready(c)
    BY DEF Ready
  <2> HIDE DEF p
  <2>6. PICK q \in Requests : Go(h, q) /\ (q = Idle \/ (q.call = p.call /\ q.op = p.op))
    <3>1. CASE Go(h, Idle)
      BY <1>1, <3>1
    <3>2. ASSUME NEW x \in Steps, Go(h, [p EXCEPT !.pc = x])
          PROVE  \E q \in Requests : Go(h, q) /\ q.call = p.call /\ q.op = p.op
      <4> DEFINE q == [p EXCEPT !.pc = x]
      <4>1. q \in Requests /\ q.op = p.op /\ q.call = p.call
        BY <2>1, Moved
      <4> QED BY <3>2, <4>1
    <3>3. ASSUME NEW w \in Rows, NEW x \in {"idle", "task"},
                 Go(h, [p EXCEPT !.pc = "record", !.write = w, !.then = x])
          PROVE  \E q \in Requests : Go(h, q) /\ q.call = p.call /\ q.op = p.op
      <4> DEFINE q == [p EXCEPT !.pc = "record", !.write = w, !.then = x]
      <4>1. x \in {"idle", "task", "mark"}
        OBVIOUS
      <4>2. q \in Requests /\ q.op = p.op /\ q.call = p.call
        BY <2>1, <4>1 DEF Requests, Steps
      <4> QED BY <3>3, <4>2
    <3> QED BY <2>3, <3>1, <3>2, <3>3
  <2>7. ~Spending(p) /\ (q.call = c /\ Pending(q) => Ready(c))
    BY <1>1, <2>1, <2>2, <2>5, <2>6 DEF Spending, Pending
  <2> QED BY <2>4, <2>6, <2>7, QuietStep DEF p
<1>5. ASSUME NEW h \in Handlers, NEW k \in Kinds, Call(h, k) PROVE Ready(c)
  <2> DEFINE p == proc[h]
  <2>1. /\ p \in Requests /\ p.pc = "call" /\ begun' = begun /\ task' = task
        /\ p.call = c => FALSE
    BY <1>5, Runs DEF Call, At, store
  <2>2. \E w \in Rows, x \in {"idle", "mark"} : Go(h, [p EXCEPT !.pc = "record", !.write = w, !.then = x])
    <3>1. PICK a \in Answers : Record(h, a.status, AfterCall(k, p.op, a.status))
      BY <1>5 DEF Call
    <3>2. a.status \in Rows /\ AfterCall(k, p.op, a.status) \in {"idle", "mark"}
      BY DEF Answers, Rows, AfterCall
    <3> QED BY <3>1, <3>2 DEF Record
  <2> HIDE DEF p
  <2>3. PICK q \in Requests : Go(h, q) /\ q.call = p.call
    <3>1. PICK w \in Rows, x \in {"idle", "mark"} :
                Go(h, [p EXCEPT !.pc = "record", !.write = w, !.then = x])
      BY <2>2
    <3> DEFINE q == [p EXCEPT !.pc = "record", !.write = w, !.then = x]
    <3>2. x \in {"idle", "task", "mark"}
      OBVIOUS
    <3>3. q \in Requests /\ q.op = p.op /\ q.call = p.call
      BY <2>1, <3>2 DEF Requests, Steps
    <3> QED BY <3>1, <3>3
  <2> QED BY <2>1, <2>3, QuietStep DEF p
<1>6. ASSUME NEW h \in Handlers, Write(h) PROVE Ready(c)
  <2> DEFINE p == proc[h]
  <2>1. /\ p \in Requests /\ p.pc = "record" /\ begun' = begun /\ task' = task
        /\ InvokeOK(p) \/ DecideOK(p) \/ ResumeOK(p)
    BY <1>6, Runs DEF Write, At
  <2>2. p.call = c /\ Pending(p) => Ready(c)
    BY DEF Ready
  <2>3. CASE p.then = "idle"
    BY <1>1, <1>6, <2>1, <2>3, QuietStep DEF Write, Spending
  <2>4. CASE p.then # "idle"
    <3>1. Go(h, [p EXCEPT !.pc = p.then])
      BY <1>6, <2>4 DEF Write, Move
    <3> HIDE DEF p
    <3>2. PICK q \in Requests : /\ Go(h, q) /\ q.call = p.call /\ q.op = p.op
                                /\ q.pc = p.then /\ q.then = p.then
      BY <2>1, <3>1 DEF Requests, Steps
    <3>3. p.then \in {"task", "mark"}
      BY <2>1, <2>4 DEF Requests
    <3>4. Spending(p) => Spending(q)
      BY <2>1, <3>2 DEF Spending
    <3>5. Pending(q) => Pending(p)
      BY <2>1, <3>2, <3>3 DEF Pending
    <3> QED BY <2>1, <2>2, <3>2, <3>4, <3>5, QuietStep DEF p
  <2> QED BY <2>3, <2>4
<1>7. ASSUME NEW h \in Handlers, CreateTask(h) PROVE Ready(c)
  <2>1. proc[h].pc = "task" /\ InvokeOK(proc[h]) /\ proc[h].call \in Calls
    BY <1>7, Runs DEF CreateTask, At, DecideOK, ResumeOK
  <2>2. proc[h].call = c => Ready(c)
    BY <2>1 DEF Ready, Pending, InvokeOK
  <2>3. proc[h].call # c => task'[c] = task[c]
    BY <1>7 DEF CreateTask, Inv, TypeOK
  <2> QED BY <1>1, <1>7, <2>1, <2>2, <2>3, QuietStep DEF CreateTask, Spending
<1>8. ASSUME NEW h \in Handlers, Mark(h) PROVE Ready(c)
  <2>1. task'[c] = task[c] \/ task'[c] = "resumed"
    BY <1>8 DEF Mark, Inv, TypeOK
  <2>2. proc[h].call = c => task'[c] = "resumed"
    BY <1>8 DEF Mark, Inv, TypeOK
  <2> QED BY <1>1, <1>8, <2>1, <2>2, QuietStep DEF Mark
<1>9. ASSUME NEW h \in Handlers, DecideTool(h) \/ DecideRuntime(h) PROVE Ready(c)
  <2> DEFINE p == proc[h]
  <2>1. Decide(h) /\ p.pc = "decide" /\ p \in Requests /\ DecideOK(p)
    BY <1>9, Runs DEF DecideTool, DecideRuntime, Decide, At, InvokeOK, ResumeOK
  <2>2. p.call = c => Ready(c)
    BY <2>1 DEF Ready, DecideOK, Spending, Inv, Apart
  <2>3. p.call # c => task'[c] = task[c]
    BY <2>1 DEF Decide, Inv, TypeOK
  <2>4. Go(h, Idle) \/ Go(h, [p EXCEPT !.pc = "record", !.write = Outcome(p.write), !.then = "idle"])
    BY <1>9 DEF DecideTool, DecideRuntime, Record
  <2> HIDE DEF p
  <2>5. PICK q \in Requests : Go(h, q) /\ ~Pending(q)
    <3> DEFINE q == [p EXCEPT !.pc = "record", !.write = Outcome(p.write), !.then = "idle"]
    <3>1. Outcome(p.write) \in Rows /\ p.op # "invoke"
      BY <2>1 DEF Outcome, Rows, DecideOK
    <3>2. CASE Go(h, q)
      <4>1. q \in Requests /\ q.op = p.op
        BY <2>1, <3>1, Recording
      <4> QED BY <3>1, <3>2, <4>1 DEF Pending
    <3> QED BY <1>1, <2>4, <3>2
  <2> QED BY <2>1, <2>2, <2>3, <2>5, QuietStep DEF p, Decide, Spending
<1>10. CASE Administer \/ (\E e \in Calls : Expire(e)) \/ UNCHANGED vars
  BY <1>10 DEF Administer, Expire, vars, store, Ready, Pending, Spending
<1>11. ASSUME NEW h \in Handlers PROVE ~Crash(h)
  BY DEF Crash, Inv, TypeOK
<1> QED BY <1>2, <1>3, <1>4, <1>5, <1>6, <1>7, <1>8, <1>9, <1>10, <1>11, NextIs

\* The call itself: it was ready, and is not ready again if it was spent.
LEMMA SpendStep ==
  ASSUME Inv, OnceInv, schedule = "turns", NEW h \in Handlers, NEW k \in Kinds, Call(h, k),
         NEW c \in Calls, proc[h].call = c
  PROVE  Spent(c)' <= 1 + crashes /\ (Ready(c)' => Spent(c)' <= crashes)
<1> DEFINE p == proc[h]
<1>1. /\ p \in Requests /\ p.pc = "call" /\ p.call = c /\ kind[c] = k
      /\ InvokeOK(p) \/ ResumeOK(p)
      /\ effects[c] \in Nat /\ wins[c] \in Nat /\ crashes \in Nat
  BY Runs DEF Call, At, DecideOK, Inv, TypeOK
<1>2. PICK a \in Answers : /\ effects' = [effects EXCEPT ![c] = @ + a.sent]
                           /\ wins' = [wins EXCEPT ![c] = @ + a.won]
                           /\ Record(h, a.status, AfterCall(k, p.op, a.status))
  BY <1>1 DEF Call
<1>3. UNCHANGED <<kind, begun, task, crashes>>
  BY DEF Call, fixed, store, bounds
<1>4. /\ effects'[c] = effects[c] + a.sent /\ wins'[c] = wins[c] + a.won
      /\ a.sent \in 0..1 /\ a.won \in 0..1 /\ (a.status # "success" => a.won = 0)
  BY <1>1, <1>2 DEF Inv, TypeOK, Answers
<1>5. \A g \in Handlers \ {h} : proc[g].call # c
  BY <1>1 DEF Inv, Apart
<1>6. Ready(c)
  <2>1. CASE InvokeOK(p)
    BY <1>1, <2>1 DEF Ready, Pending, InvokeOK
  <2>2. CASE ResumeOK(p)
    <3>1. task[c] = "approved" /\ ~Spending(p)
      BY <1>1, <2>2 DEF ResumeOK, Entitled, Spending
    <3> QED BY <1>5, <3>1 DEF Ready
  <2> QED BY <1>1, <2>1, <2>2
<1>7. Spent(c) <= crashes /\ Spent(c) \in Nat
  BY <1>1, <1>6 DEF OnceInv, Spent
<1>8. Spent(c)' <= 1 + crashes
  BY <1>1, <1>3, <1>4, <1>7 DEF Spent
<1>9. ASSUME Ready(c)' PROVE Spent(c)' <= crashes
  <2>1. /\ proc'[h].op = p.op /\ proc'[h].call = c /\ proc'[h].pc = "record"
        /\ proc'[h].then = AfterCall(k, p.op, a.status)
        /\ \A g \in Handlers \ {h} : proc'[g] = proc[g]
    BY <1>1, <1>2 DEF Record, Go, Inv, TypeOK, Requests
  <2>2. \/ c \notin begun
        \/ \E g \in Handlers : proc'[g].call = c /\ Pending(proc'[g])
        \/ /\ task[c] \in {"pending", "approved"}
           /\ \A g \in Handlers : proc'[g].call = c => ~Spending(proc'[g])
    BY <1>3, <1>9 DEF Ready, Pending, Spending
  <2>3. c \in begun
    BY <1>1 DEF InvokeOK, ResumeOK, Inv, CallOK
  <2>4. ~Pending(proc'[h])
    BY <2>1 DEF Pending, AfterCall
  <2>5. task[c] \in {"pending", "approved"} /\ ~Spending(proc'[h])
    BY <1>5, <2>1, <2>2, <2>3, <2>4
  <2>6. ~InvokeOK(p)
    BY <1>1, <2>5 DEF InvokeOK
  <2>7. k = "model" /\ a.status # "success"
    BY <1>1, <2>1, <2>5, <2>6 DEF ResumeOK, Spending, AfterCall
  <2> QED BY <1>1, <1>3, <1>4, <1>7, <2>7 DEF Spent
<1> QED BY <1>8, <1>9

\* Only the call itself counts.
LEMMA OthersSpendNothing ==
  ASSUME Inv, [Next]_vars, NEW c \in Calls,
         \A h \in Handlers, k \in Kinds : Call(h, k) => proc[h].call # c
  PROVE  Spent(c)' = Spent(c) /\ UNCHANGED schedule
<1>1. ASSUME NEW h \in Handlers, NEW k \in Kinds, Call(h, k)
      PROVE  effects'[c] = effects[c] /\ wins'[c] = wins[c] /\ UNCHANGED <<kind, schedule>>
  BY <1>1 DEF Call, fixed, Inv, TypeOK
<1>2. CASE ~ \E h \in Handlers, k \in Kinds : Call(h, k)
  BY <1>2, NextIs DEF StartInvoke, StartDecide, StartResumeTool, StartResumeRuntime, Authorize, Validate,
     Evaluate, ToolBackend, ModelBackend, HttpBackend, Write, CreateTask, DecideTool, DecideRuntime, Decide,
     Mark, Crash, Administer, Expire, vars, fixed, made, Spent
<1> QED BY <1>1, <1>2 DEF Spent

LEMMA OnceStep == Inv /\ OnceInv /\ [Next]_vars => OnceInv'
<1> SUFFICES ASSUME Inv, OnceInv, [Next]_vars, schedule' = "turns", NEW c \in Calls
             PROVE  Spent(c)' <= 1 + crashes' /\ (Ready(c)' => Spent(c)' <= crashes')
  BY DEF OnceInv
<1>1. crashes \in Nat /\ Spent(c) \in Nat
  BY DEF Inv, TypeOK, Spent
<1>2. CASE \E h \in Handlers, k \in Kinds : Call(h, k) /\ proc[h].call = c
  <2>1. PICK h \in Handlers, k \in Kinds : Call(h, k) /\ proc[h].call = c
    BY <1>2
  <2>2. UNCHANGED <<schedule, crashes>>
    BY <2>1 DEF Call, fixed, bounds
  <2> QED BY <2>1, <2>2, SpendStep
<1>3. CASE \A h \in Handlers, k \in Kinds : Call(h, k) => proc[h].call # c
  <2>1. Spent(c)' = Spent(c) /\ schedule = "turns"
    BY <1>3, OthersSpendNothing
  <2>2. Spent(c) <= 1 + crashes /\ (Ready(c) => Spent(c) <= crashes)
    BY <2>1 DEF OnceInv
  <2>3. CASE crashes' = crashes
    BY <1>3, <2>1, <2>2, <2>3, NoneReadier
  <2>4. CASE crashes' # crashes
    <3>1. crashes' = crashes + 1
      BY <2>4, NextIs DEF StartInvoke, StartDecide, StartResumeTool, StartResumeRuntime, Authorize, Validate,
         Evaluate, ToolBackend, ModelBackend, HttpBackend, Call, Write, CreateTask, DecideTool, DecideRuntime,
         Decide, Mark, Crash, Administer, Expire, vars, bounds
    <3> QED BY <1>1, <2>1, <2>2, <3>1
  <2> QED BY <2>3, <2>4
<1> QED BY <1>2, <1>3

\* In turns, every call is spent once, but for the requests that died after it.
THEOREM OncePerCrashCorrect == Spec => []OncePerCrash
<1>1. Init => OnceInv
  BY DEF Init, OnceInv, Spent
<1>2. OnceInv => OncePerCrash
  BY DEF OnceInv, OncePerCrash
<1> QED BY <1>1, <1>2, OnceStep, InvCorrect, PTL DEF Spec

----------------------------------------------------------------------------

Orphans   == {c \in Calls : Orphan(c)}
OrphanInv == IsFiniteSet(Orphans) /\ Cardinality(Orphans) <= crashes

\* A step of a request orphans its call only when it leaves a pending
\* invocation without a task, and no other call.
LEMMA RequestStep ==
  ASSUME Inv, NEW c \in Calls, NEW h \in Handlers, NEW q \in Requests, Go(h, q), Orphan(c)',
         proc[h].call = c => q.call = c,
         proc[h].call # c => inv'[c] = inv[c] /\ task'[c] = task[c]
  PROVE  Orphan(c)
<1>1. \A g \in Handlers : proc'[g] = IF g = h THEN q ELSE proc[g]
  BY DEF Inv, TypeOK, Go
<1> QED BY <1>1 DEF Orphan

LEMMA NoNewOrphan ==
  ASSUME Inv, [Next]_vars, NEW c \in Calls, Orphan(c)', crashes' = crashes
  PROVE  Orphan(c)
<1>1. Idle \in Requests /\ inv'[c] = "pending_approval" /\ task'[c] = "absent"
  BY DEF Idle, Requests, Steps, Rows, Orphan
<1>2. ASSUME NEW h \in Handlers, NEW e \in Calls, NEW d \in Decisions,
             StartInvoke(h, e) \/ StartDecide(h, e, d) \/ StartResumeTool(h, e) \/ StartResumeRuntime(h, e)
      PROVE  Orphan(c)
  <2>1. proc[h].call # c
    BY <1>2, CallsAreNames DEF StartInvoke, StartDecide, StartResumeTool, StartResumeRuntime, MayStart, At,
       Inv, RequestOK, Idle, InvokeOK, DecideOK, ResumeOK
  <2>2. PICK q \in Requests : Go(h, q)
    BY <1>2 DEF StartInvoke, StartDecide, StartResumeTool, StartResumeRuntime, Begin, Requests, Steps, Rows
  <2>3. UNCHANGED <<inv, task>>
    BY <1>2 DEF StartInvoke, StartDecide, StartResumeTool, StartResumeRuntime, store
  <2> QED BY <2>1, <2>2, <2>3, RequestStep
<1>3. ASSUME NEW h \in Handlers, ~At(h, "idle"),
             \/ Authorize(h)   \/ Validate(h)     \/ Evaluate(h)
             \/ ToolBackend(h) \/ ModelBackend(h) \/ HttpBackend(h)
      PROVE  Orphan(c)
  <2>1. UNCHANGED <<inv, task>> /\ proc[h].pc \in {"authorize", "validate", "evaluate", "backend"}
    BY <1>3 DEF Authorize, Validate, Evaluate, ToolBackend, ModelBackend, HttpBackend, store, At
  <2>2. proc[h].call # c
    BY <1>1, <1>3, <2>1, Runs DEF InvokeOK, DecideOK, ResumeOK
  <2>3. \A g \in Handlers \ {h} : proc'[g] = proc[g]
    BY <1>3 DEF Authorize, Validate, Evaluate, ToolBackend, ModelBackend, HttpBackend, Refuse, Move, Record,
       Go, Inv, TypeOK, Backends
  <2> QED BY <2>1, <2>2, <2>3 DEF Orphan
<1>4. ASSUME NEW h \in Handlers, NEW k \in Kinds, Call(h, k) PROVE Orphan(c)
  <2>1. UNCHANGED <<inv, task>> /\ proc[h].pc = "call" /\ ~At(h, "idle")
    BY <1>4 DEF Call, store, At
  <2>2. proc[h].call # c
    BY <1>1, <2>1, Runs DEF InvokeOK, DecideOK, ResumeOK
  <2>3. \A g \in Handlers \ {h} : proc'[g] = proc[g]
    BY <1>4 DEF Call, Record, Go, Inv, TypeOK
  <2> QED BY <2>1, <2>2, <2>3 DEF Orphan
<1>5. ASSUME NEW h \in Handlers, Write(h) PROVE Orphan(c)
  <2>1. /\ task' = task /\ inv' = [inv EXCEPT ![proc[h].call] = proc[h].write]
        /\ proc[h].pc = "record" /\ ~At(h, "idle")
    BY <1>5 DEF Write, At
  <2>2. \A g \in Handlers \ {h} : proc'[g] = proc[g]
    BY <1>5 DEF Write, Move, Go, Inv, TypeOK
  <2>3. CASE proc[h].call # c
    BY <2>1, <2>2, <2>3 DEF Orphan, Inv, TypeOK
  <2>4. CASE proc[h].call = c
    <3>1. InvokeOK(proc[h]) /\ proc[h].write = "pending_approval"
      BY <1>1, <2>1, <2>4, Runs DEF DecideOK, ResumeOK, Inv, TypeOK
    <3>2. proc[h].then = "task"
      BY <2>1, <3>1 DEF InvokeOK
    <3>3. proc'[h].call = c
      BY <1>5, <2>1, <2>4, <3>2, Runs DEF Write, Move, Go, Inv, TypeOK, Requests
    <3> QED BY <3>3 DEF Orphan
  <2> QED BY <2>3, <2>4
<1>6. ASSUME NEW h \in Handlers, CreateTask(h) \/ DecideTool(h) \/ DecideRuntime(h) \/ Mark(h)
      PROVE  Orphan(c)
  <2>1. /\ inv' = inv
        /\ task' = [task EXCEPT ![proc[h].call] = CASE CreateTask(h) -> "pending" [] Mark(h) -> "resumed"
                                                    [] OTHER -> proc[h].write]
    BY <1>6 DEF CreateTask, DecideTool, DecideRuntime, Decide, Mark, At
  <2>2. \A g \in Handlers \ {h} : proc'[g] = proc[g]
    BY <1>6 DEF CreateTask, DecideTool, DecideRuntime, Decide, Mark, Record, Go, Inv, TypeOK
  <2>3. proc[h].call # c
    <3>1. ~At(h, "idle") /\ (DecideTool(h) \/ DecideRuntime(h) => proc[h].pc = "decide")
      BY <1>6 DEF CreateTask, DecideTool, DecideRuntime, Decide, Mark, At
    <3>2. DecideTool(h) \/ DecideRuntime(h) => proc[h].write # "absent"
      BY <3>1, Runs DEF InvokeOK, DecideOK, ResumeOK, Decisions
    <3> QED BY <1>1, <1>6, <2>1, <3>2 DEF Inv, TypeOK
  <2> QED BY <2>1, <2>2, <2>3 DEF Orphan, Inv, TypeOK
<1>7. CASE Administer \/ (\E e \in Calls : Expire(e)) \/ UNCHANGED vars
  BY <1>7 DEF Administer, Expire, vars, store, Orphan
<1>8. ASSUME NEW h \in Handlers PROVE ~Crash(h)
  BY DEF Crash, Inv, TypeOK
<1>9. "approved" \in Decisions
  BY DEF Decisions
<1> QED BY <1>2, <1>3, <1>4, <1>5, <1>6, <1>7, <1>8, <1>9, NextIs

LEMMA OneMore ==
  ASSUME NEW S, IsFiniteSet(S), NEW x
  PROVE  IsFiniteSet(S \cup {x}) /\ Cardinality(S \cup {x}) <= Cardinality(S) + 1
<1>1. Cardinality(S) \in Nat
  BY FS_CardinalityType
<1>2. IsFiniteSet(S \cup {x}) /\ Cardinality(S \cup {x}) \in {Cardinality(S), Cardinality(S) + 1}
  BY FS_AddElement
<1> QED BY <1>1, <1>2

\* A crash orphans the call of the request that died, at most.
LEMMA OrphanStep == Inv /\ OrphanInv /\ [Next]_vars => OrphanInv'
<1> SUFFICES ASSUME Inv, OrphanInv, [Next]_vars PROVE OrphanInv'
  OBVIOUS
<1>1. crashes \in Nat /\ Cardinality(Orphans) \in Nat
  BY FS_CardinalityType DEF Inv, TypeOK, OrphanInv
<1>2. CASE crashes' = crashes
  <2>1. Orphans' \subseteq Orphans
    BY <1>2, NoNewOrphan DEF Orphans
  <2>2. IsFiniteSet(Orphans') /\ Cardinality(Orphans') <= Cardinality(Orphans)
    BY <2>1, FS_Subset DEF OrphanInv
  <2>3. Cardinality(Orphans') \in Nat
    BY <2>2, FS_CardinalityType
  <2> QED BY <1>1, <1>2, <2>2, <2>3 DEF OrphanInv
<1>3. CASE crashes' # crashes
  <2>1. PICK h \in Handlers : Crash(h)
    BY <1>3, NextIs DEF StartInvoke, StartDecide, StartResumeTool, StartResumeRuntime, Authorize, Validate,
       Evaluate, ToolBackend, ModelBackend, HttpBackend, Call, Write, CreateTask, DecideTool, DecideRuntime,
       Decide, Mark, Crash, Administer, Expire, vars, bounds
  <2>2. Orphans' \subseteq Orphans \cup {proc[h].call}
    BY <2>1 DEF Orphans, Orphan, Crash, Go, store, Inv, TypeOK
  <2>3. /\ IsFiniteSet(Orphans \cup {proc[h].call})
        /\ Cardinality(Orphans \cup {proc[h].call}) <= Cardinality(Orphans) + 1
    BY OneMore DEF OrphanInv
  <2>4. IsFiniteSet(Orphans') /\ Cardinality(Orphans') <= Cardinality(Orphans \cup {proc[h].call})
    BY <2>2, <2>3, FS_Subset
  <2>5. Cardinality(Orphans') \in Nat /\ Cardinality(Orphans \cup {proc[h].call}) \in Nat
    BY <2>3, <2>4, FS_CardinalityType
  <2>6. crashes' = crashes + 1
    BY <2>1 DEF Crash
  <2> QED BY <1>1, <2>3, <2>4, <2>5, <2>6 DEF OrphanInv
<1> QED BY <1>2, <1>3

\* Every invocation left pending can be decided, but for one per crash.
THEOREM PendingCorrect == Spec => []PendingIsDecidable
<1>1. Init => OrphanInv
  <2>1. Init => Orphans = {}
    BY DEF Init, Orphans, Orphan
  <2> QED BY <2>1, FS_EmptySet DEF Init, OrphanInv
<1>2. OrphanInv => PendingIsDecidable
  BY DEF OrphanInv, Orphans, PendingIsDecidable
<1> QED BY <1>1, <1>2, OrphanStep, InvCorrect, PTL DEF Spec
=============================================================================
