-------------------------- MODULE CheckpointRetention --------------------------
(* Retention of graph checkpoints (checkpoint_lifecycle.py): the checkpoints *)
(* of a run, its thread, are deleted some days after the run ended.  The     *)
(* candidates are read in one query and deleted one by one, while workers    *)
(* and requests go on changing the runs: a worker may write "running", and a *)
(* resume "pending_approval", over a cancellation it has not seen.           *)
EXTENDS Naturals, Sequences, FiniteSets

CONSTANTS Threads,        \* the runs of the project, each with its thread
          RetentionRuns,  \* the retention requests in progress
          MaxDay,         \* bound: days that pass
          RetentionDays,  \* the retention a request asks for
          CandidateLimit  \* how many candidates one request takes

ASSUME RetentionIsADay == RetentionDays \in Nat \ {0} /\ CandidateLimit \in Nat \ {0}

VARIABLES day,
          tables,     \* whether the checkpoint tables exist
          runStatus,  \* thread -> the status of its run and the day it was written
          saved,      \* the threads that have checkpoints
          execution,  \* thread -> what the worker or request that has the run does
          retention   \* request -> what it does and the candidates left

checkpointVars == <<day, tables, runStatus, saved, execution, retention>>

EndStatuses == {"success", "failed", "cancelled"}

CheckpointInit ==
    /\ day = 0
    /\ tables = FALSE
    /\ runStatus = [r \in Threads |-> [status |-> "queued", on |-> 0]]
    /\ saved = {}
    /\ execution = [r \in Threads |-> "none"]
    /\ retention = [q \in RetentionRuns |-> [at |-> "idle", dry |-> TRUE, left |-> {}]]

SetStatus(r, s) == runStatus' = [runStatus EXCEPT ![r] = [status |-> s, on |-> day]]

Executes(r, states) == execution[r] \in states
Becomes(r, e) == execution' = [execution EXCEPT ![r] = e]

\* An execution and a resume take less than a day: what they read is from today.
NextDay == /\ day < MaxDay
           /\ \A r \in Threads : Executes(r, {"none"})
           /\ day' = day + 1
           /\ UNCHANGED <<tables, runStatus, saved, execution, retention>>

SetUpTables == /\ ~tables
               /\ tables' = TRUE
               /\ UNCHANGED <<day, runStatus, saved, execution, retention>>

\* A worker reads the run while it is queued ...
ReadQueued(r) == /\ tables
                 /\ runStatus[r].status = "queued" /\ Executes(r, {"none"})
                 /\ Becomes(r, "starting")
                 /\ UNCHANGED <<day, tables, runStatus, saved, retention>>

\* ... and writes "running" without looking again.
StartRun(r) == /\ Executes(r, {"starting"})
               /\ SetStatus(r, "running")
               /\ Becomes(r, "running")
               /\ UNCHANGED <<day, tables, saved, retention>>

\* The graph saves its checkpoint after every step, cancelled or not.
SaveCheckpoint(r) == /\ Executes(r, {"running", "saved", "resuming"})
                     /\ saved' = saved \cup {r}
                     /\ execution' = [execution EXCEPT ![r] =
                                         IF @ = "resuming" THEN @ ELSE "saved"]
                     /\ UNCHANGED <<day, tables, runStatus, retention>>

\* A run waits for an approval after a checkpoint; a resume may find its node
\* waiting again before the graph has saved another.
WaitForApproval(r) == /\ Executes(r, {"saved", "resuming"})
                      /\ SetStatus(r, "pending_approval")
                      /\ Becomes(r, "none")
                      /\ UNCHANGED <<day, tables, saved, retention>>

\* Only a success looks for a cancellation first.
EndRun(r) == /\ Executes(r, {"running", "saved", "resuming"})
             /\ \/ SetStatus(r, "failed")
                \/ /\ runStatus[r].status \in {"cancelled", "cancel_requested"}
                   /\ SetStatus(r, "cancelled")
                \/ /\ runStatus[r].status \notin {"cancelled", "cancel_requested"}
                   /\ SetStatus(r, "success")
             /\ Becomes(r, "none")
             /\ UNCHANGED <<day, tables, saved, retention>>

CancelRun(r) == /\ \/ /\ runStatus[r].status \in {"queued", "pending_approval"}
                      /\ SetStatus(r, "cancelled")
                   \/ /\ runStatus[r].status \in {"running", "cancel_requested"}
                      /\ SetStatus(r, "cancel_requested")
                /\ UNCHANGED <<day, tables, saved, execution, retention>>

ReadResume(r) == /\ runStatus[r].status = "pending_approval" /\ Executes(r, {"none"})
                 /\ Becomes(r, "resuming")
                 /\ UNCHANGED <<day, tables, runStatus, saved, retention>>

\* A resume that the tool gateway refuses leaves the run as it is.
RefuseResume(r) == /\ Executes(r, {"resuming"})
                   /\ Becomes(r, "none")
                   /\ UNCHANGED <<day, tables, runStatus, saved, retention>>

EndedThreads == {r \in saved : runStatus[r].status \in EndStatuses}

\* Mutant: every thread of an ended run counts as past its retention.
Expired_Now(r) == r \in EndedThreads

Expired(r) == r \in EndedThreads /\ runStatus[r].on + RetentionDays <= day

\* The candidates: the oldest first, at most as many as the limit.
Candidate(S) ==
    /\ S \subseteq {r \in Threads : Expired(r)}
    /\ Cardinality(S) <= CandidateLimit
    /\ \A r \in Threads : Expired(r) /\ r \notin S =>
           /\ Cardinality(S) = CandidateLimit
           /\ \A s \in S : runStatus[s].on <= runStatus[r].on

\* Without all the tables a request has nothing to do, as has a dry one.
ReadCandidates(q) ==
    /\ retention[q].at = "idle"
    /\ tables
    /\ \E S \in SUBSET Threads, dry \in BOOLEAN :
          /\ Candidate(S)
          /\ retention' = [retention EXCEPT ![q] =
                [at |-> IF dry \/ S = {} THEN "idle" ELSE "deleting", dry |-> dry, left |-> S]]
    /\ UNCHANGED <<day, tables, runStatus, saved, execution>>

Finish(q, r) ==
    retention' = [retention EXCEPT ![q] = [at |-> IF @.left = {r} THEN "idle" ELSE @.at,
                                           dry |-> @.dry, left |-> @.left \ {r}]]

DeleteThread(q) == \E r \in retention[q].left :
    /\ retention[q].at = "deleting"
    /\ saved' = saved \ {r}
    /\ Finish(q, r)
    /\ UNCHANGED <<day, tables, runStatus, execution>>

\* A deletion that fails is reported and the next thread is taken.
FailDelete(q) == \E r \in retention[q].left :
    /\ retention[q].at = "deleting"
    /\ Finish(q, r)
    /\ UNCHANGED <<day, tables, runStatus, saved, execution>>

CheckpointNext ==
    \/ NextDay \/ SetUpTables
    \/ \E r \in Threads : \/ ReadQueued(r) \/ StartRun(r) \/ SaveCheckpoint(r)
                          \/ WaitForApproval(r) \/ EndRun(r) \/ CancelRun(r)
                          \/ ReadResume(r) \/ RefuseResume(r)
    \/ \E q \in RetentionRuns : ReadCandidates(q) \/ DeleteThread(q) \/ FailDelete(q)

CheckpointSpec == CheckpointInit /\ [][CheckpointNext]_checkpointVars

\* A run that waits for an approval can be resumed: its checkpoints are there,
\* even when a worker or a resume wrote over a cancellation while retention
\* read its candidates and deleted them.
ResumableKeepsThread ==
    \A r \in Threads : runStatus[r].status = "pending_approval" => r \in saved
=============================================================================
