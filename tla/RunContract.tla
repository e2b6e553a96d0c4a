------------------------------ MODULE RunContract ------------------------------
(***************************************************************************)
(* What the runtime promises about a run, as a client that polls its       *)
(* status sees it: a run is accepted once, is delivered to a worker a      *)
(* bounded number of times, is requeued only to be delivered again, fails  *)
(* without having run only when its deliveries are used up, waits for an   *)
(* approval as often as it has to, and ends once.                          *)
(*                                                                         *)
(* There is no cancellation here: what a cancellation may overwrite is     *)
(* told by the properties of WorkflowRuns.                                 *)
(***************************************************************************)
EXTENDS Naturals

CONSTANTS Runs, MaxDeliveries

VARIABLES
    status,      \* status[r], "none" for a run that was not accepted
    deliveries   \* deliveries[r]: how often the queue handed the run out

vars == <<status, deliveries>>

Ends     == {"success", "failed"}
Statuses == {"none", "queued", "running", "pending_approval"} \cup Ends

Init ==
    /\ status = [r \in Runs |-> "none"]
    /\ deliveries = [r \in Runs |-> 0]

(* One run of the two tables: what it becomes in a step. *)
Becomes(r, new, count) == status'[r] = new /\ deliveries'[r] = count

Stay(r) == Becomes(r, status[r], deliveries[r])

(* Accepted to be delivered later, or executed at once. *)
Accept(r) ==
    /\ status[r] = "none"
    /\ \E new \in {"queued", "running"} : Becomes(r, new, deliveries[r])

Deliver(r) ==
    /\ status[r] \in {"queued", "running"}
    /\ deliveries[r] < MaxDeliveries
    /\ Becomes(r, status[r], deliveries[r] + 1)

Run(r) == status[r] = "queued" /\ Becomes(r, "running", deliveries[r])

Requeue(r) ==
    /\ status[r] = "running"
    /\ deliveries[r] \in 1..(MaxDeliveries - 1)
    /\ Becomes(r, "queued", deliveries[r])

GiveUp(r) ==
    /\ status[r] = "queued"
    /\ deliveries[r] = MaxDeliveries
    /\ Becomes(r, "failed", deliveries[r])

Wait(r) ==
    /\ status[r] = "running"
    /\ Becomes(r, "pending_approval", deliveries[r])

(* A run that waits is not reported running while it is resumed. *)
End(r) ==
    /\ status[r] \in {"running", "pending_approval"}
    /\ \E end \in Ends : Becomes(r, end, deliveries[r])

Step(r) ==
    Accept(r) \/ Deliver(r) \/ Run(r) \/ Requeue(r) \/ GiveUp(r) \/ Wait(r) \/ End(r)

(* Each run goes its own way: a process that starts requeues many at once. *)
Next ==
    /\ status' \in [Runs -> Statuses]
    /\ deliveries' \in [Runs -> 0..MaxDeliveries]
    /\ \A r \in Runs : Step(r) \/ Stay(r)

Spec == Init /\ [][Next]_vars
=============================================================================
