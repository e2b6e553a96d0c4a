----------------------------- MODULE WorkflowRuns -----------------------------
(***************************************************************************)
(* The life of a workflow run, from the API that accepts it to the status  *)
(* everybody reads at the end: the durable queue in PostgreSQL, the worker *)
(* loop of each API process, the graph runner, and the HTTP handlers that  *)
(* run, retry, cancel and resume.                                          *)
(*                                                                         *)
(* The actors share two database rows for a run, workflow_runs (run, pend) *)
(* and workflow_run_queue_items (item), and reach them through the store,  *)
(* each call in a transaction of its own.  A store method that writes what *)
(* it decided from what it read is two actions, a load and a commit: no    *)
(* row is locked in between.  One whose writes do not depend on the row is *)
(* one action.  Claiming locks the row (FOR UPDATE SKIP LOCKED) and is one *)
(* action too.                                                             *)
(*                                                                         *)
(* Time is abstracted to what its comparisons yield: the lease of an item  *)
(* is live or expired, and the item is due now, due later (its backoff) or *)
(* past its time to live.  A workflow is the path of the Nodes a run       *)
(* visits, node 1 being the start node.                                    *)
(***************************************************************************)
EXTENDS Naturals, FiniteSets

CONSTANTS
    Runs,         \* run ids
    Workers,      \* tasks that consume the queue, one for each API process
    Submitters,   \* POST .../runs/submit requests
    Runners,      \* POST .../runs and .../retry requests, run in the handler
    Cancellers,   \* POST .../cancel requests
    Resumers,     \* POST .../resume requests
    NoRun,        \* the job of an actor that has none
    Nodes,        \* length of the path of nodes
    MaxAttempts,  \* max_attempts of a queue item
    SlowRuns,     \* runs that can outlast lease_seconds in a live worker
    MaxFaults     \* bound on crashes, dead loops and abandoned requests

Requests  == Submitters \cup Runners \cup Cancellers \cup Resumers
Executors == Workers \cup Runners \cup Resumers
Actors    == Workers \cup Requests

ASSUME ConstantsAssumption ==
    /\ NoRun \notin Runs
    /\ Nodes \in Nat \ {0}
    /\ MaxAttempts \in Nat \ {0}
    /\ MaxFaults \in Nat
    /\ SlowRuns \subseteq Runs
    /\ Workers \cap Requests = {}
    /\ Submitters \cap (Runners \cup Cancellers \cup Resumers) = {}
    /\ Runners \cap (Cancellers \cup Resumers) = {}
    /\ Cancellers \cap Resumers = {}

VARIABLES
    run,      \* run[r]: workflow_runs.status, "none" when there is no row
    pend,     \* pend[r]: the node in pending_approval, 0 for {}
    item,     \* item[r]: the queue row of the run
    entered,  \* entered[r]: last node with a policy gate event of this run
    mode,     \* mode[w]: what the consuming task of the process is doing
    plan,     \* plan[w][r]: what startup reconciliation is about to write
    pc,       \* pc[a]: where the actor is in its code
    job,      \* job[a]: the run it works on
    pos,      \* pos[e]: the next node the executor will visit
    late,     \* late[r]: who entered a node since the run is being cancelled
    torn,     \* the runs whose workers the queue has lost track of
    faults    \* crashes, dead loops and abandoned requests so far

queueVars  == <<item, mode, plan>>
historyVars == <<late, torn>>
vars == <<run, pend, item, entered, mode, plan, pc, job, pos, late, torn, faults>>

-----------------------------------------------------------------------------
(* Statuses and rows. *)

Terminal   == {"success", "failed", "cancelled"}
Cancelling == {"cancel_requested", "cancelled"}
Settled    == {"completed", "dead_letter", "cancelled"}
RunStatus  == {"none", "queued", "running", "pending_approval"}
                \cup Cancelling \cup Terminal
ItemStatus == {"none", "queued", "leased", "running", "failed"} \cup Settled
Lease      == {"none", "live", "expired"}
Due        == {"now", "later", "past"}
Items      == [status : ItemStatus, attempts : Nat, lease : Lease, due : Due]

Row(status, attempts, lease, due) ==
    [status |-> status, attempts |-> attempts, lease |-> lease, due |-> due]
NoItem  == Row("none", 0, "none", "past")
NewItem == Row("queued", 0, "none", "now")

Modes == {"down", "starting", "loop", "drain", "dead"}
Up(w) == mode[w] \in {"loop", "drain", "dead"}
Serving == \E w \in Workers : Up(w)

(* A reconciliation writes the status of an item and of its run, or keeps it. *)
Keep     == [item |-> "keep", run |-> "keep"]
Outcomes == [item : {"keep", "queued"} \cup Settled,
             run : {"keep", "queued", "failed", "cancelled"}]

ExecutorPC == {"open", "opened", "check", "enter", "node", "park", "succeed",
               "cancel", "raised", "fail_run"}
WorkerPC   == {"idle", "claimed", "marked", "settle", "settle_cancelled",
               "fail", "retry", "bury", "bury_run", "bury_write"} \cup ExecutorPC
RequestPC  == {"new", "created", "cancel_now", "cancel_soon", "cancel_item",
               "drop", "drop_leased", "recheck", "redo", "done"} \cup ExecutorPC

Holds(w, r) == job[w] = r

Init ==
    /\ run = [r \in Runs |-> "none"]
    /\ pend = [r \in Runs |-> 0]
    /\ item = [r \in Runs |-> NoItem]
    /\ entered = [r \in Runs |-> 0]
    /\ mode \in [Workers -> {"loop", "down"}]
    /\ plan = [w \in Workers |-> [r \in Runs |-> Keep]]
    /\ pc = [a \in Actors |-> IF a \in Workers THEN "idle" ELSE "new"]
    /\ job = [a \in Actors |-> NoRun]
    /\ pos = [e \in Executors |-> 1]
    /\ late = [r \in Runs |-> {}]
    /\ torn = {}
    /\ faults = 0

-----------------------------------------------------------------------------
(* Helpers: how an actor moves, and the store writes shared by the actions. *)

Goto(a, l) == pc' = [pc EXCEPT ![a] = l]

(* The actor is finished with its run: a worker is idle again, a request done. *)
Leave(a) ==
    /\ Goto(a, IF a \in Workers THEN "idle" ELSE "done")
    /\ job' = [job EXCEPT ![a] = NoRun]
    /\ IF a \in Executors
         THEN pos' = [pos EXCEPT ![a] = 1]
         ELSE UNCHANGED pos

(* The runner returned: a worker goes on to settle the queue item. *)
Return(e, settlement) ==
    IF e \in Workers
      THEN Goto(e, settlement) /\ UNCHANGED <<job, pos>>
      ELSE Leave(e)

(* update_run: status and pending_approval are written whatever they were. *)
UpdateRun(r, status, node) ==
    /\ run' = [run EXCEPT ![r] = status]
    /\ pend' = [pend EXCEPT ![r] = node]
    /\ late' = [late EXCEPT ![r] = IF status \in Cancelling THEN @ ELSE {}]

(* create_run: (project, run_id) is unique. *)
CreateRun(r, status) ==
    /\ run[r] = "none"
    /\ run' = [run EXCEPT ![r] = status]

-----------------------------------------------------------------------------
(* POST .../submit: create the run, then encrypt and enqueue its inputs. *)

SubmitRun(a) ==
    /\ a \in Submitters
    /\ pc[a] = "new"
    /\ Serving
    /\ \E r \in Runs :
         /\ CreateRun(r, "queued")
         /\ job' = [job EXCEPT ![a] = r]
    /\ Goto(a, "created")
    /\ UNCHANGED <<queueVars, pend, entered, pos, historyVars, faults>>

(* scheduler.submit inserts the row and wakes the loop of its process; when *)
(* that loop is gone it starts a task that drains the queue once.           *)
Enqueue(a) ==
    /\ a \in Submitters
    /\ pc[a] = "created"
    /\ item' = [item EXCEPT ![job[a]] = NewItem]
    /\ \E w \in Workers :
         /\ Up(w)
         /\ mode' = [mode EXCEPT ![w] = IF @ = "dead" THEN "drain" ELSE @]
    /\ Leave(a)
    /\ UNCHANGED <<run, pend, entered, plan, historyVars, faults>>

(* POST .../runs: the run is created running and executed by the handler. *)
RunNow(a) ==
    /\ a \in Runners
    /\ pc[a] = "new"
    /\ Serving
    /\ \E r \in Runs :
         /\ CreateRun(r, "running")
         /\ job' = [job EXCEPT ![a] = r]
    /\ Goto(a, "check")
    /\ UNCHANGED <<queueVars, pend, entered, pos, historyVars, faults>>

(* POST .../retry: a new run, once the run it repeats is terminal. *)
Retry(a) ==
    /\ \E source \in Runs : run[source] \in Terminal
    /\ RunNow(a)

(* POST .../cancel, request_cancel_run: what it writes is decided here ...  *)
CancelLoad(a) ==
    /\ a \in Cancellers
    /\ pc[a] = "new"
    /\ Serving
    /\ \E r \in Runs :
         /\ run[r] \in {"queued", "running", "pending_approval", "cancel_requested"}
         /\ job' = [job EXCEPT ![a] = r]
         /\ Goto(a, CASE run[r] \in {"queued", "pending_approval"} -> "cancel_now"
                      [] run[r] = "running" -> "cancel_soon"
                      [] run[r] = "cancel_requested" -> "cancel_item")
    /\ UNCHANGED <<queueVars, run, pend, entered, pos, historyVars, faults>>

(* ... and committed here, whatever the run has become.  A request that read *)
(* cancel_requested has no status to write.                                 *)
CancelCommit(a) ==
    /\ a \in Cancellers
    /\ \/ pc[a] = "cancel_now"  /\ UpdateRun(job[a], "cancelled", 0)
       \/ pc[a] = "cancel_soon" /\ UpdateRun(job[a], "cancel_requested", 0)
    /\ Goto(a, "cancel_item")
    /\ UNCHANGED <<queueVars, entered, job, pos, torn, faults>>

(* scheduler.cancel, cancel_queue_item: a settled or missing item is left   *)
(* alone; a lease the load did not see is not cleared by the commit.        *)
CancelItemLoad(a) ==
    /\ a \in Cancellers
    /\ pc[a] = "cancel_item"
    /\ LET row == item[job[a]] IN
         IF row.status \in Settled \cup {"none"}
           THEN Leave(a)
           ELSE /\ Goto(a, IF row.lease = "none" THEN "drop" ELSE "drop_leased")
                /\ UNCHANGED <<job, pos>>
    /\ UNCHANGED <<queueVars, run, pend, entered, historyVars, faults>>

CancelItemCommit(a) ==
    /\ a \in Cancellers
    /\ pc[a] \in {"drop", "drop_leased"}
    /\ item' = [item EXCEPT
                  ![job[a]].status = "cancelled",
                  ![job[a]].lease = IF pc[a] = "drop_leased" THEN "none" ELSE @]
    /\ Leave(a)
    /\ UNCHANGED <<run, pend, entered, mode, plan, historyVars, faults>>

-----------------------------------------------------------------------------
(* A worker takes an item: process_next_queue_item. *)

Claimable_Leased(r) ==  \* a bug: the lease of another worker is ignored
    item[r].status \in {"queued", "failed", "leased"} /\ item[r].due = "now"

Claimable(r) ==
    /\ item[r].status \in {"queued", "failed"}
    /\ item[r].due = "now"

Claim(w) ==
    /\ mode[w] \in {"loop", "drain"}
    /\ pc[w] = "idle"
    /\ \E r \in Runs :
         /\ Claimable(r)
         /\ item' = [item EXCEPT ![r].status = "leased",
                                 ![r].attempts = @ + 1,
                                 ![r].lease = "live"]
         /\ job' = [job EXCEPT ![w] = r]
    /\ Goto(w, "claimed")
    /\ UNCHANGED <<run, pend, entered, mode, plan, pos, historyVars, faults>>

(* mark_queue_item_running, in a transaction of its own. *)
MarkRunning(w) ==
    /\ w \in Workers
    /\ pc[w] = "claimed"
    /\ item' = [item EXCEPT ![job[w]].status = "running"]
    /\ Goto(w, "marked")
    /\ UNCHANGED <<run, pend, entered, mode, plan, job, pos, historyVars, faults>>

(* _execute_queue_item reads the run and run_existing decides on that copy. *)
LoadRun(w) ==
    /\ w \in Workers
    /\ pc[w] = "marked"
    /\ Goto(w, CASE run[job[w]] = "cancelled"        -> "settle_cancelled"
                 [] run[job[w]] = "cancel_requested" -> "cancel"
                 [] OTHER                            -> "open")
    /\ UNCHANGED <<queueVars, run, pend, entered, job, pos, historyVars, faults>>

OpenRun(w) ==
    /\ w \in Workers
    /\ pc[w] = "open"
    /\ UpdateRun(job[w], "running", 0)
    /\ Goto(w, "opened")
    /\ UNCHANGED <<queueVars, entered, job, pos, torn, faults>>

(* The checkpointer is there and run.started is recorded. *)
Begin(w) ==
    /\ w \in Workers
    /\ pc[w] = "opened"
    /\ Goto(w, "check")
    /\ UNCHANGED <<queueVars, run, pend, entered, job, pos, historyVars, faults>>

(* The version is missing or no longer published, the inputs cannot be      *)
(* decrypted, or the checkpointer cannot connect: _handle_queue_failure.    *)
QueueError(w) ==
    /\ w \in Workers
    /\ pc[w] \in {"marked", "open", "opened"}
    /\ Goto(w, "fail")
    /\ UNCHANGED <<queueVars, run, pend, entered, job, pos, historyVars, faults>>

-----------------------------------------------------------------------------
(* The graph: what the runner does for a worker, a runner or a resumer. *)

Check_PastEnd(e) ==  \* a bug: one node too many
    /\ pc[e] = "check"
    /\ Goto(e, IF run[job[e]] \in Cancelling THEN "cancel"
               ELSE IF pos[e] <= Nodes + 1 THEN "enter" ELSE "succeed")
    /\ UNCHANGED <<queueVars, run, pend, entered, job, pos, historyVars, faults>>

Check_Blind(e) ==  \* a bug: cancellation is looked at before the last node only
    /\ pc[e] = "check"
    /\ Goto(e, IF pos[e] > Nodes
                 THEN IF run[job[e]] \in Cancelling THEN "cancel" ELSE "succeed"
                 ELSE "enter")
    /\ UNCHANGED <<queueVars, run, pend, entered, job, pos, historyVars, faults>>

(* ensure_not_cancelled, before each node and before the run succeeds. *)
Check(e) ==
    /\ pc[e] = "check"
    /\ Goto(e, IF run[job[e]] \in Cancelling THEN "cancel"
               ELSE IF pos[e] <= Nodes THEN "enter" ELSE "succeed")
    /\ UNCHANGED <<queueVars, run, pend, entered, job, pos, historyVars, faults>>

(* _record_policy_event: the event_ref runtime:<run>:<node> is unique, so a *)
(* run enters each node of its path once.                                   *)
EnterNode(e) ==
    /\ pc[e] = "enter"
    /\ entered[job[e]] < pos[e]
    /\ entered' = [entered EXCEPT ![job[e]] = pos[e]]
    /\ late' = [late EXCEPT ![job[e]] =
                   IF run[job[e]] \in Cancelling THEN @ \cup {e} ELSE @]
    /\ Goto(e, "node")
    /\ UNCHANGED <<queueVars, run, pend, job, pos, torn, faults>>

(* The insert fails on the second visit and leaves the session unusable:    *)
(* every handler on the way out fails too.  The task of a worker ends, a    *)
(* request answers 500, and neither writes a thing.                         *)
FenceHit(e) ==
    /\ pc[e] = "enter"
    /\ entered[job[e]] >= pos[e]
    /\ Leave(e)
    /\ mode' = IF e \in Workers THEN [mode EXCEPT ![e] = "dead"] ELSE mode
    /\ UNCHANGED <<run, pend, item, entered, plan, historyVars, faults>>

(* The node succeeds, asks for an approval, or raises.  resume reports an   *)
(* exception as failed at once, except a refusal of the gateway (below      *)
(* 500), which leaves the run as it is; a run first reads the status again. *)
RunNode(e) ==
    /\ pc[e] = "node"
    /\ \/ /\ Goto(e, "check")
          /\ pos' = [pos EXCEPT ![e] = @ + 1]
          /\ UNCHANGED job
       \/ Goto(e, "park") /\ UNCHANGED <<job, pos>>
       \/ e \in Resumers /\ Leave(e)
       \/ /\ Goto(e, IF e \in Resumers THEN "fail_run" ELSE "raised")
          /\ UNCHANGED <<job, pos>>
    /\ UNCHANGED <<queueVars, run, pend, entered, historyVars, faults>>

Park(e) ==
    /\ pc[e] = "park"
    /\ UpdateRun(job[e], "pending_approval", pos[e])
    /\ Return(e, "settle")
    /\ UNCHANGED <<queueVars, entered, torn, faults>>

Succeed(e) ==
    /\ pc[e] = "succeed"
    /\ UpdateRun(job[e], "success", 0)
    /\ Return(e, "settle")
    /\ UNCHANGED <<queueVars, entered, torn, faults>>

(* WorkflowRuntimeCancelled, or run_existing of a run with a cancel request. *)
CancelRun(e) ==
    /\ pc[e] = "cancel"
    /\ UpdateRun(job[e], "cancelled", 0)
    /\ Return(e, "settle_cancelled")
    /\ UNCHANGED <<queueVars, entered, torn, faults>>

Raised(e) ==
    /\ pc[e] = "raised"
    /\ Goto(e, IF run[job[e]] \in Cancelling THEN "cancel" ELSE "fail_run")
    /\ UNCHANGED <<queueVars, run, pend, entered, job, pos, historyVars, faults>>

FailRun(e) ==
    /\ pc[e] = "fail_run"
    /\ UpdateRun(job[e], "failed", 0)
    /\ Return(e, "settle")
    /\ UNCHANGED <<queueVars, entered, torn, faults>>

-----------------------------------------------------------------------------
(* A worker settles the item: complete_queue_item and fail_queue_item. *)

Settle(w) ==
    /\ w \in Workers
    /\ pc[w] \in {"settle", "settle_cancelled"}
    /\ item' = [item EXCEPT
                  ![job[w]].status = IF pc[w] = "settle" THEN "completed" ELSE "cancelled",
                  ![job[w]].lease = "none"]
    /\ Leave(w)
    /\ UNCHANGED <<run, pend, entered, mode, plan, historyVars, faults>>

FailLoad_OneMore(w) ==  \* a bug: > for >=
    /\ w \in Workers
    /\ pc[w] = "fail"
    /\ Goto(w, IF item[job[w]].attempts > MaxAttempts THEN "bury" ELSE "retry")
    /\ UNCHANGED <<queueVars, run, pend, entered, job, pos, historyVars, faults>>

FailLoad_Early(w) ==  \* a bug: no retry at all
    /\ w \in Workers
    /\ pc[w] = "fail"
    /\ Goto(w, "bury")
    /\ UNCHANGED <<queueVars, run, pend, entered, job, pos, historyVars, faults>>

FailLoad(w) ==
    /\ w \in Workers
    /\ pc[w] = "fail"
    /\ Goto(w, IF item[job[w]].attempts >= MaxAttempts THEN "bury" ELSE "retry")
    /\ UNCHANGED <<queueVars, run, pend, entered, job, pos, historyVars, faults>>

RetryItem_Kept(w) ==  \* a bug: the lease is cleared, the status is not
    /\ w \in Workers
    /\ pc[w] = "retry"
    /\ item' = [item EXCEPT ![job[w]].lease = "none"]
    /\ Leave(w)
    /\ UNCHANGED <<run, pend, entered, mode, plan, historyVars, faults>>

(* Back to the queue after a backoff that is never zero. *)
RetryItem(w) ==
    /\ w \in Workers
    /\ pc[w] = "retry"
    /\ item' = [item EXCEPT ![job[w]].status = "failed",
                            ![job[w]].lease = "none",
                            ![job[w]].due = IF @ = "past" THEN @ ELSE "later"]
    /\ Leave(w)
    /\ UNCHANGED <<run, pend, entered, mode, plan, historyVars, faults>>

BuryItem(w) ==
    /\ w \in Workers
    /\ pc[w] = "bury"
    /\ item' = [item EXCEPT ![job[w]].status = "dead_letter",
                            ![job[w]].lease = "none"]
    /\ Goto(w, "bury_run")
    /\ UNCHANGED <<run, pend, entered, mode, plan, job, pos, historyVars, faults>>

BuryLoad_Queued(w) ==  \* a bug: a run that never started is passed over
    /\ w \in Workers
    /\ pc[w] = "bury_run"
    /\ IF run[job[w]] \in Terminal \cup {"pending_approval", "queued"}
         THEN Leave(w)
         ELSE Goto(w, "bury_write") /\ UNCHANGED <<job, pos>>
    /\ UNCHANGED <<queueVars, run, pend, entered, historyVars, faults>>

(* _mark_run_failed_from_queue_error: read the run, then write. *)
BuryLoad(w) ==
    /\ w \in Workers
    /\ pc[w] = "bury_run"
    /\ IF run[job[w]] \in Terminal \cup {"pending_approval"}
         THEN Leave(w)
         ELSE Goto(w, "bury_write") /\ UNCHANGED <<job, pos>>
    /\ UNCHANGED <<queueVars, run, pend, entered, historyVars, faults>>

BuryRun(w) ==
    /\ w \in Workers
    /\ pc[w] = "bury_write"
    /\ UpdateRun(job[w], "failed", 0)
    /\ Leave(w)
    /\ UNCHANGED <<queueVars, entered, torn, faults>>

(* The one-shot task of a process whose loop is gone finds nothing to claim. *)
DrainEnds(w) ==
    /\ mode[w] = "drain"
    /\ pc[w] = "idle"
    /\ \A r \in Runs : ~Claimable(r)
    /\ mode' = [mode EXCEPT ![w] = "dead"]
    /\ UNCHANGED <<run, pend, item, entered, plan, pc, job, pos, historyVars, faults>>

-----------------------------------------------------------------------------
(* POST .../resume of a run that waits for an approval. *)

ResumeLoad(a) ==
    /\ a \in Resumers
    /\ pc[a] = "new"
    /\ Serving
    /\ \E r \in Runs :
         /\ run[r] = "pending_approval"
         /\ job' = [job EXCEPT ![a] = r]
         /\ pos' = [pos EXCEPT ![a] = pend[r]]
    /\ Goto(a, "recheck")
    /\ UNCHANGED <<queueVars, run, pend, entered, historyVars, faults>>

ResumeCheck(a) ==
    /\ a \in Resumers
    /\ pc[a] = "recheck"
    /\ Goto(a, IF run[job[a]] \in Cancelling THEN "cancel" ELSE "redo")
    /\ UNCHANGED <<queueVars, run, pend, entered, job, pos, historyVars, faults>>

Redo_Skip(a) ==  \* a bug: the nodes after the pending one are not run
    /\ a \in Resumers
    /\ pc[a] = "redo"
    /\ Goto(a, "succeed")
    /\ UNCHANGED <<queueVars, run, pend, entered, job, pos, historyVars, faults>>

(* The pending node is finished with the approval: it succeeds, the gateway *)
(* refuses (409, the run stays as it is), or it raises.                     *)
Redo(a) ==
    /\ a \in Resumers
    /\ pc[a] = "redo"
    /\ \/ /\ Goto(a, "check")
          /\ pos' = [pos EXCEPT ![a] = @ + 1]
          /\ UNCHANGED job
       \/ Leave(a)
       \/ Goto(a, "fail_run") /\ UNCHANGED <<job, pos>>
    /\ UNCHANGED <<queueVars, run, pend, entered, historyVars, faults>>

-----------------------------------------------------------------------------
(* scheduler.start: reconcile_stale_queue_items, then the loop. *)

Stale(r) == item[r].status \in {"leased", "running"} /\ item[r].lease = "expired"

Outcome_Running(r) ==  \* a bug: a run that is still running counts as over
    IF ~Stale(r)
      THEN Keep
    ELSE IF run[r] \in {"success", "failed", "pending_approval", "running"}
      THEN [item |-> "completed", run |-> "keep"]
    ELSE [item |-> "queued", run |-> "keep"]

Outcome_Requeue(r) ==  \* a bug: a finished run is requeued with the others
    IF ~Stale(r)
      THEN Keep
    ELSE IF item[r].attempts >= MaxAttempts
      THEN [item |-> "dead_letter", run |-> "failed"]
    ELSE [item |-> "queued", run |-> IF run[r] = "queued" THEN "keep" ELSE "queued"]

Outcome(r) ==
    IF ~Stale(r)
      THEN Keep
    ELSE IF run[r] \in Cancelling
      THEN [item |-> "cancelled",
            run |-> IF run[r] = "cancelled" THEN "keep" ELSE "cancelled"]
    ELSE IF run[r] \in {"success", "failed", "pending_approval"}
      THEN [item |-> "completed", run |-> "keep"]
    ELSE IF item[r].attempts >= MaxAttempts
      THEN [item |-> "dead_letter", run |-> "failed"]
    ELSE [item |-> "queued", run |-> IF run[r] = "queued" THEN "keep" ELSE "queued"]

Reconciled(row, status) ==
    IF status = "keep" THEN row
    ELSE Row(status, row.attempts, "none",
             IF status = "queued" /\ row.due = "later" THEN "now" ELSE row.due)

StartLoad(w) ==
    /\ mode[w] = "down"
    /\ mode' = [mode EXCEPT ![w] = "starting"]
    /\ plan' = [plan EXCEPT ![w] = [r \in Runs |-> Outcome(r)]]
    /\ UNCHANGED <<run, pend, item, entered, pc, job, pos, historyVars, faults>>

StartCommit(w) ==
    /\ mode[w] = "starting"
    /\ item' = [r \in Runs |-> Reconciled(item[r], plan[w][r].item)]
    /\ run' = [r \in Runs |-> IF plan[w][r].run = "keep" THEN run[r] ELSE plan[w][r].run]
    /\ plan' = [plan EXCEPT ![w] = [r \in Runs |-> Keep]]
    /\ mode' = [mode EXCEPT ![w] = "loop"]
    /\ torn' = torn \cup {r \in Runs : plan[w][r] \notin {Keep, Outcome(r)}}
    /\ late' = [r \in Runs |-> IF run'[r] \in Cancelling THEN late[r] ELSE {}]
    /\ UNCHANGED <<pend, entered, pc, job, pos, faults>>

-----------------------------------------------------------------------------
(* Time. *)

(* The lease is taken once, by Claim, and never renewed. *)
LeaseExpires(r) ==
    /\ item[r].lease = "live"
    /\ (\E w \in Workers : Holds(w, r)) => r \in SlowRuns
    /\ item' = [item EXCEPT ![r].lease = "expired"]
    /\ torn' = IF \E w \in Workers : Holds(w, r) THEN torn \cup {r} ELSE torn
    /\ UNCHANGED <<run, pend, entered, mode, plan, pc, job, pos, late, faults>>

BackoffElapses(r) ==
    /\ item[r].due = "later"
    /\ item' = [item EXCEPT ![r].due = "now"]
    /\ UNCHANGED <<run, pend, entered, mode, plan, pc, job, pos, historyVars, faults>>

(* expires_at passes; it matters to Claim alone. *)
PayloadExpires(r) ==
    /\ item[r].status \in {"queued", "failed"}
    /\ item[r].due # "past"
    /\ item' = [item EXCEPT ![r].due = "past"]
    /\ UNCHANGED <<run, pend, entered, mode, plan, pc, job, pos, historyVars, faults>>

(* Faults. *)

Fault == faults < MaxFaults /\ faults' = faults + 1

(* The process of the worker stops, in an orderly way or not: a cancelled   *)
(* task runs no handler that writes, so what is committed is all there is.  *)
Crash(w) ==
    /\ Fault
    /\ mode[w] # "down"
    /\ mode' = [mode EXCEPT ![w] = "down"]
    /\ plan' = [plan EXCEPT ![w] = [r \in Runs |-> Keep]]
    /\ Leave(w)
    /\ UNCHANGED <<run, pend, item, entered, historyVars>>

(* An exception escapes process_next_queue_item (a lost connection, a       *)
(* duplicate event sequence) and ends the task; the process lives on.       *)
LoopDies(w) ==
    /\ Fault
    /\ mode[w] \in {"loop", "drain"}
    /\ mode' = [mode EXCEPT ![w] = "dead"]
    /\ Leave(w)
    /\ UNCHANGED <<run, pend, item, entered, plan, historyVars>>

(* A request dies between two of its calls: its process stops, its client   *)
(* goes away, or a call raises.                                             *)
Abandon(a) ==
    /\ Fault
    /\ pc[a] \notin {"new", "done"}
    /\ Leave(a)
    /\ UNCHANGED <<run, pend, item, entered, mode, plan, historyVars>>

-----------------------------------------------------------------------------
Execute(e) ==
    \/ Check(e) \/ EnterNode(e) \/ FenceHit(e) \/ RunNode(e) \/ Park(e)
    \/ Succeed(e) \/ CancelRun(e) \/ Raised(e) \/ FailRun(e)

Work(w) ==
    \/ Claim(w) \/ MarkRunning(w) \/ LoadRun(w) \/ OpenRun(w) \/ Begin(w)
    \/ QueueError(w) \/ Execute(w) \/ Settle(w) \/ FailLoad(w) \/ RetryItem(w)
    \/ BuryItem(w) \/ BuryLoad(w) \/ BuryRun(w) \/ DrainEnds(w)

Submit(a) == SubmitRun(a) \/ Enqueue(a)
Cancel(a) == CancelLoad(a) \/ CancelCommit(a) \/ CancelItemLoad(a) \/ CancelItemCommit(a)
Resume(a) == ResumeLoad(a) \/ ResumeCheck(a) \/ Redo(a) \/ Execute(a)
Start(w)  == StartLoad(w) \/ StartCommit(w)

Next ==
    \/ \E w \in Workers : Work(w) \/ Start(w) \/ Crash(w) \/ LoopDies(w)
    \/ \E a \in Submitters : Submit(a)
    \/ \E a \in Runners : RunNow(a) \/ Retry(a) \/ Execute(a)
    \/ \E a \in Cancellers : Cancel(a)
    \/ \E a \in Resumers : Resume(a)
    \/ \E a \in Requests : Abandon(a)
    \/ \E r \in Runs : LeaseExpires(r) \/ BackoffElapses(r) \/ PayloadExpires(r)

Spec == Init /\ [][Next]_vars

(* asyncio runs every task that is ready, so a loop that is up keeps        *)
(* working, a request that has begun goes on to its end and a backoff       *)
(* passes.  Nobody has to submit, cancel, resume or restart, and no node    *)
(* has to succeed.                                                          *)
Fairness ==
    /\ \A w \in Workers : WF_vars(Work(w))
    /\ \A a \in Submitters : WF_vars(Enqueue(a))
    /\ \A a \in Runners : WF_vars(Execute(a))
    /\ \A a \in Cancellers : WF_vars(Cancel(a) /\ pc[a] # "new")
    /\ \A a \in Resumers : WF_vars(Resume(a) /\ pc[a] # "new")
    /\ \A r \in Runs : WF_vars(BackoffElapses(r))

FairSpec == Spec /\ Fairness

-----------------------------------------------------------------------------
(* Properties. *)

(* Every variable stays in its range: in particular no node past the end of *)
(* the path is entered, and no actor loses the run it is working on.        *)
TypeOK ==
    /\ run \in [Runs -> RunStatus]
    /\ pend \in [Runs -> 0..Nodes]
    /\ item \in [Runs -> Items]
    /\ entered \in [Runs -> 0..Nodes]
    /\ mode \in [Workers -> Modes]
    /\ plan \in [Workers -> [Runs -> Outcomes]]
    /\ pc \in [Actors -> WorkerPC \cup RequestPC]
    /\ job \in [Actors -> Runs \cup {NoRun}]
    /\ pos \in [Executors -> 1..(Nodes + 1)]
    /\ late \in [Runs -> SUBSET Executors]
    /\ torn \subseteq Runs
    /\ faults \in 0..MaxFaults

(* A run is torn by the two things that let two workers have it: a          *)
(* lease that runs out under a worker still at work, and a process that, as *)
(* it starts, writes what it decided about an item that has since changed.  *)
(* Otherwise a run has one worker: claiming, retrying with backoff, burying *)
(* and reconciling never hand a run to a second one.                        *)
OneHolder ==
    \A v, w \in Workers :
        job[v] # NoRun /\ job[v] = job[w] /\ job[v] \notin torn => v = w

(* An item is handed out at most max_attempts times, over the retries of    *)
(* its workers and the requeues of restarted processes together.            *)
AttemptsBounded ==
    \A r \in Runs : r \in torn \/ item[r].attempts <= MaxAttempts

(* A run reported success has been through every node of its path, whoever  *)
(* ran it: deliveries, resumptions and crashes leave no node out.           *)
SuccessIsComplete ==
    \A r \in Runs : run[r] = "success" => entered[r] = Nodes

(* The queue row and the run row agree about completed work: an item is     *)
(* completed only when its run is neither queued nor running.               *)
CompletedIsOver ==
    \A r \in Runs :
        item[r].status = "completed" /\ r \notin torn => run[r] \notin {"queued", "running"}

(* Cancellation is cooperative and prompt: while a run is being cancelled,  *)
(* an executor enters at most one more node of it, the one it was about to  *)
(* enter, even when a second resumption or worker is at work on the run.    *)
OneLateNode ==
    \A r \in Runs : \A e \in late[r] : Holds(e, r) => pc[e] # "enter"

(* A dead letter does not leave its run looking alive: a run gets behind a  *)
(* dead letter only when a fault hits the worker that buries it, between    *)
(* its two transactions.  A fault anywhere else, and any other step after   *)
(* it, leaves no further run there.                                         *)
Burying(w, r) == Holds(w, r) /\ pc[w] \in {"bury_run", "bury_write"}

Unreported(r) ==
    /\ item[r].status = "dead_letter"
    /\ run[r] \in {"queued", "running"}
    /\ r \notin torn
    /\ \A w \in Workers : ~Burying(w, r)

DeadLetterIsReported ==
    [][\A r \in Runs :
          Unreported(r)' =>
              \/ Unreported(r)
              \/ \E w \in Workers : Burying(w, r) /\ (Crash(w) \/ LoopDies(w))]_vars

(* The queue does not reopen a run that finished or waits for an approval:  *)
(* not by a retry, and not by the reconciliation after a crash that hit the *)
(* worker between reporting the run and settling its item.                  *)
FinishedStays ==
    [][\A r \in Runs :
          run[r] \in {"success", "failed", "pending_approval"} /\ r \notin torn' =>
              run'[r] \notin {"queued", "running"}]_vars

(* Without cancellations, and with leases that outlast the work, a client   *)
(* sees no more than the contract of a run.                                 *)
Contract == INSTANCE RunContract WITH
                status <- run,
                deliveries <- [r \in Runs |-> item[r].attempts],
                MaxDeliveries <- MaxAttempts
ContractHolds == Contract!Spec

(* Every accepted run comes to an end or to an approval when nothing fails, *)
(* unless its payload outlives its time to live in the queue: no retry is   *)
(* lost, and no item is settled that still has its run to finish.           *)
EveryRunEnds ==
    \A r \in Runs :
        run[r] \in {"queued", "running"} ~>
            \/ run[r] \notin {"queued", "running"}
            \/ r \in torn
            \/ item[r].status \in {"queued", "failed"} /\ item[r].due = "past"

-----------------------------------------------------------------------------
(* What messages and tests of the repository say, and the code does not do. *)

(* test_real_background_workflow_run_events_and_running_cancel waits for    *)
(* "cancelled" once a cancellation was accepted: the run comes to an end.   *)
CancelledRunEnds ==
    \A c \in Cancellers, r \in Runs :
        pc[c] = "cancel_item" /\ job[c] = r ~> run[r] \in Terminal

(* test_runtime_running_cancel_request_is_not_overwritten_by_success: an    *)
(* accepted cancellation of a running run is not reported as success.       *)
CancelNotOverwritten ==
    [][\A r \in Runs : run[r] = "cancel_requested" => run'[r] # "success"]_vars

(* "workflow run is not pending approval" (runner.py, resume): a run that a *)
(* first resumption has brought to its end is not resumed by a second.      *)
ResumedOnce ==
    [][\A r \in Runs : run[r] \in {"success", "failed"} => run'[r] = run[r]]_vars

(* "requeued during queue startup reconciliation" (sqlalchemy_store.py):    *)
(* a run that reconciliation has requeued is run to its end.                *)
RequeuedRunEnds ==
    \A r \in Runs :
        item[r].status = "queued" /\ item[r].attempts > 0 ~>
            \/ run[r] \notin {"queued", "running"}
            \/ item[r].status \in {"queued", "failed"} /\ item[r].due = "past"
=============================================================================
