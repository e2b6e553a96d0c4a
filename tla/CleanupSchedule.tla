--------------------------- MODULE CleanupSchedule ---------------------------
(* The scheduled cleanup of image reports: workers claim a project's         *)
(* schedule under a lease, run a dry cleanup, record the run and then mark   *)
(* the schedule (tool_registry/cleanup_worker.py, image_artifact_cleanup.py, *)
(* sqlalchemy_store.py).  A worker may take longer than its lease, fail or   *)
(* die between any two of these.  Times are in minutes.                      *)
EXTENDS Naturals, FiniteSets

CONSTANTS Workers,       \* the worker processes
          LeaseMinutes,  \* how long a claim lasts
          Interval,      \* the schedule's interval
          MaxFailures,   \* bound: failures counted
          MaxNow         \* bound: how far the clock runs

ASSUME IntervalIsHours == Interval \in Nat /\ Interval >= 60
ASSUME LeaseIsPositive == LeaseMinutes \in Nat \ {0}

VARIABLES schedule,  \* the schedule row
          worker,    \* what each worker is doing
          now,       \* the clock
          late       \* whether a worker has ever outlived its lease

scheduleVars == <<schedule, worker, now, late>>

NoWorker == "nobody"
Resting == [at |-> "idle", until |-> 0]

\* The row as it is inserted: due, and leased by nobody.
NewSchedule == [enabled |-> TRUE, next |-> 0, leased |-> 0, owner |-> NoWorker, failures |-> 0]

ScheduleInit ==
    /\ schedule = NewSchedule
    /\ worker = [w \in Workers |-> Resting]
    /\ now = 0
    /\ late = FALSE

Recorded == {"succeeded", "failed"}
Working == {w \in Workers : worker[w].at # "idle"}

Tick == /\ now < MaxNow
        /\ now' = now + 1
        /\ late' = (late \/ \E w \in Working : worker[w].until <= now')
        /\ UNCHANGED <<schedule, worker>>

\* The owner may enable, disable and re-time the schedule; the lease stays.
UpsertSchedule(enabled, next) ==
    /\ schedule' = [schedule EXCEPT !.enabled = enabled, !.next = next]
    /\ UNCHANGED <<worker, now, late>>

\* Mutant: a leased schedule may be claimed again.
Claimable_Leased == schedule.enabled /\ schedule.next <= now

Claimable == /\ schedule.enabled
             /\ schedule.next <= now
             /\ schedule.leased <= now

\* SELECT ... FOR UPDATE SKIP LOCKED and the lease, in one transaction.
ClaimDue(w) ==
    /\ worker[w].at = "idle"
    /\ Claimable
    /\ schedule' = [schedule EXCEPT !.owner = w, !.leased = now + LeaseMinutes]
    /\ worker' = [worker EXCEPT ![w] = [at |-> "run", until |-> now + LeaseMinutes]]
    /\ UNCHANGED <<now, late>>

\* The dry run, or its failure, is recorded in a transaction of its own.
RecordRun(w, run) ==
    /\ worker[w].at = "run"
    /\ worker' = [worker EXCEPT ![w].at = run]
    /\ UNCHANGED <<schedule, now, late>>

AtMost(a, b) == IF a < b THEN a ELSE b
Backoff(failures) == AtMost(60, 2 ^ AtMost(IF failures = 0 THEN 0 ELSE failures - 1, 5))

\* The lease is cleared whoever holds it by now.
MarkRun(w) ==
    LET failures == IF worker[w].at = "failed" THEN schedule.failures + 1 ELSE 0
    IN  /\ worker[w].at \in Recorded
        /\ failures <= MaxFailures
        /\ schedule' = [schedule EXCEPT !.failures = failures, !.leased = 0, !.owner = NoWorker,
                          !.next = now + IF failures > 0 THEN Backoff(failures) ELSE Interval]
        /\ worker' = [worker EXCEPT ![w] = Resting]
        /\ UNCHANGED <<now, late>>

WorkerDies(w) ==
    /\ w \in Working
    /\ worker' = [worker EXCEPT ![w] = Resting]
    /\ UNCHANGED <<schedule, now, late>>

ScheduleNext ==
    \/ Tick
    \/ \E enabled \in BOOLEAN : UpsertSchedule(enabled, now) \/ UpsertSchedule(enabled, now + Interval)
    \/ \E w \in Workers : ClaimDue(w) \/ MarkRun(w) \/ WorkerDies(w)
    \/ \E w \in Workers, run \in Recorded : RecordRun(w, run)

ScheduleSpec == ScheduleInit /\ [][ScheduleNext]_scheduleVars

\* As long as every worker finishes within its lease no two work on the
\* schedule together, and the row names the one that does, whatever workers
\* die and however the schedule is changed meanwhile.
OneWorkerPerLease ==
    ~late => /\ Cardinality(Working) <= 1
             /\ \A w \in Working : schedule.owner = w /\ schedule.leased = worker[w].until
=============================================================================
