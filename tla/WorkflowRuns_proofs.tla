------------------------- MODULE WorkflowRuns_proofs -------------------------
(***************************************************************************)
(* Theorems of WorkflowRuns, for any numbers of runs, workers, requests,   *)
(* nodes and attempts, with slow runs, crashes and restarts.               *)
(*                                                                         *)
(* Each invariant is proved from an inductive one: that it holds at first  *)
(* is an Init lemma, that a step preserves it a Step lemma with a case for *)
(* each action.  The leaves of a case are mostly alike, since the actions  *)
(* write the same few variables through the same few helpers.              *)
(***************************************************************************)
EXTENDS WorkflowRuns, TLAPS

(***************************************************************************)
(* Types, and what the place of an actor in its code tells about it.       *)
(***************************************************************************)

(* Where an actor is tells what it holds. *)
ActorsOK ==
    /\ pc \in [Actors -> WorkerPC \cup RequestPC]
    /\ job \in [Actors -> Runs \cup {NoRun}]
    /\ pos \in [Executors -> 1..(Nodes + 1)]
    /\ \A w \in Workers : pc[w] \in WorkerPC /\ (pc[w] # "idle" => job[w] \in Runs)
    /\ \A a \in Requests :
          pc[a] \in RequestPC /\ (pc[a] \notin {"new", "done"} => job[a] \in Runs)
    /\ \A e \in Executors :
          pc[e] \in {"enter", "node", "park", "recheck", "redo"} => pos[e] <= Nodes

(* A run that waits for an approval names the node it waits at. *)
RowsOK ==
    /\ run \in [Runs -> RunStatus]
    /\ pend \in [Runs -> 0..Nodes]
    /\ item \in [Runs -> Items]
    /\ entered \in [Runs -> 0..Nodes]
    /\ \A r \in Runs : run[r] = "pending_approval" => pend[r] # 0

SystemOK ==
    /\ mode \in [Workers -> Modes]
    /\ plan \in [Workers -> [Runs -> Outcomes]]
    /\ faults \in 0..MaxFaults

HistoryOK ==
    /\ late \in [Runs -> SUBSET Executors]
    /\ torn \subseteq Runs

TInv == ActorsOK /\ RowsOK /\ SystemOK /\ HistoryOK

(* The first state is typed. *)
LEMMA TypeInit == Init => TInv
  BY ConstantsAssumption, SMTT(60)
     DEF Init, TInv, ActorsOK, RowsOK, SystemOK, HistoryOK, Requests, Executors, Actors,
         WorkerPC, RequestPC, ExecutorPC, RunStatus, Terminal, Cancelling,
         Items, ItemStatus, Settled, Lease, Due, NoItem, Row, Modes,
         Keep, Outcomes

(* Every step preserves the types.  A write to a queue row is typed field   *)
(* by field for any row, then for the one that is written.                  *)
LEMMA TypeStep == TInv /\ [Next]_vars => TInv'
<1> SUFFICES ASSUME TInv, [Next]_vars PROVE TInv'
  OBVIOUS
<1> USE ConstantsAssumption
    DEF TInv, Requests, Executors, Actors, Goto, Leave, Return, UpdateRun, CreateRun, Fault,
           Holds, queueVars, historyVars
<1>1. ASSUME NEW w \in Workers, Claim(w) PROVE TInv'
  <2> USE <1>1 DEF Claim, Claimable
  <2>1. ActorsOK'
    BY SMTT(60) DEF ActorsOK, RowsOK, WorkerPC, RequestPC, ExecutorPC
  <2>2. RowsOK'
    <3>1. ASSUME NEW x \in Items, NEW n \in Nat
          PROVE  [x EXCEPT !.status = "leased", !.attempts = n,
                           !.lease = "live"] \in Items
      BY DEF Items, ItemStatus, Settled, Lease, Due
    <3>2. PICK r \in Runs :
             item' = [item EXCEPT ![r].status = "leased", ![r].attempts = @ + 1,
                                  ![r].lease = "live"]
      OBVIOUS
    <3>3. item[r] \in Items /\ item[r].attempts + 1 \in Nat
      BY DEF RowsOK, Items
    <3>4. item' \in [Runs -> Items]
      BY <3>1, <3>2, <3>3 DEF RowsOK
    <3> QED BY <3>4 DEF RowsOK
  <2>3. SystemOK'
    BY SMTT(60) DEF SystemOK, RowsOK, Modes, Outcomes, Settled
  <2>4. HistoryOK'
    BY DEF HistoryOK
  <2> QED BY <2>1, <2>2, <2>3, <2>4
<1>2. ASSUME NEW w \in Workers, MarkRunning(w) PROVE TInv'
  <2> USE <1>2 DEF MarkRunning
  <2>1. ActorsOK'
    BY SMTT(60) DEF ActorsOK, RowsOK, WorkerPC, RequestPC, ExecutorPC
  <2>2. RowsOK'
    <3>1. item \in [Runs -> Items] /\ job[w] \in Runs
      BY DEF ActorsOK, RowsOK, WorkerPC, RequestPC
    <3>2. ASSUME NEW x \in Items
          PROVE  [x EXCEPT !.status = "running"] \in Items
      BY DEF Items, ItemStatus, Settled, Lease, Due
    <3>3. item' \in [Runs -> Items]
      BY <3>1, <3>2
    <3> QED BY <3>3 DEF RowsOK
  <2>3. SystemOK'
    BY SMTT(60) DEF SystemOK, RowsOK, Modes, Outcomes, Settled
  <2>4. HistoryOK'
    BY DEF HistoryOK
  <2> QED BY <2>1, <2>2, <2>3, <2>4
<1>3. ASSUME NEW w \in Workers, LoadRun(w) PROVE TInv'
  <2> USE <1>3 DEF LoadRun
  <2>1. ActorsOK'
    BY SMTT(60) DEF ActorsOK, RowsOK, WorkerPC, RequestPC, ExecutorPC
  <2>2. RowsOK'
    BY SMTT(60) DEF ActorsOK, RowsOK, RunStatus, Terminal, Cancelling
  <2>3. SystemOK'
    BY SMTT(60) DEF SystemOK, RowsOK, Modes, Outcomes, Settled
  <2>4. HistoryOK'
    BY DEF HistoryOK
  <2> QED BY <2>1, <2>2, <2>3, <2>4
<1>4. ASSUME NEW w \in Workers, OpenRun(w) PROVE TInv'
  <2> USE <1>4 DEF OpenRun
  <2>1. ActorsOK'
    BY SMTT(60) DEF ActorsOK, RowsOK, WorkerPC, RequestPC, ExecutorPC
  <2>2. RowsOK'
    BY SMTT(60) DEF ActorsOK, RowsOK, RunStatus, Terminal, Cancelling
  <2>3. SystemOK'
    BY SMTT(60) DEF SystemOK, RowsOK, Modes, Outcomes, Settled
  <2>4. HistoryOK'
    BY DEF HistoryOK
  <2> QED BY <2>1, <2>2, <2>3, <2>4
<1>5. ASSUME NEW w \in Workers, Begin(w) PROVE TInv'
  <2> USE <1>5 DEF Begin
  <2>1. ActorsOK'
    BY SMTT(60) DEF ActorsOK, RowsOK, WorkerPC, RequestPC, ExecutorPC
  <2>2. RowsOK'
    BY SMTT(60) DEF ActorsOK, RowsOK, RunStatus, Terminal, Cancelling
  <2>3. SystemOK'
    BY SMTT(60) DEF SystemOK, RowsOK, Modes, Outcomes, Settled
  <2>4. HistoryOK'
    BY DEF HistoryOK
  <2> QED BY <2>1, <2>2, <2>3, <2>4
<1>6. ASSUME NEW w \in Workers, QueueError(w) PROVE TInv'
  <2> USE <1>6 DEF QueueError
  <2>1. ActorsOK'
    BY SMTT(60) DEF ActorsOK, RowsOK, WorkerPC, RequestPC, ExecutorPC
  <2>2. RowsOK'
    BY SMTT(60) DEF ActorsOK, RowsOK, RunStatus, Terminal, Cancelling
  <2>3. SystemOK'
    BY SMTT(60) DEF SystemOK, RowsOK, Modes, Outcomes, Settled
  <2>4. HistoryOK'
    BY DEF HistoryOK
  <2> QED BY <2>1, <2>2, <2>3, <2>4
<1>7. ASSUME NEW w \in Workers, Settle(w) PROVE TInv'
  <2> USE <1>7 DEF Settle
  <2>1. ActorsOK'
    BY SMTT(60) DEF ActorsOK, RowsOK, WorkerPC, RequestPC, ExecutorPC
  <2>2. RowsOK'
    <3>1. item \in [Runs -> Items] /\ job[w] \in Runs
      BY DEF ActorsOK, RowsOK, WorkerPC, RequestPC
    <3>2. ASSUME NEW x \in Items
          PROVE  [x EXCEPT !.status = IF pc[w] = "settle" THEN "completed" ELSE "cancelled",
                     !.lease = "none"] \in Items
      BY DEF Items, ItemStatus, Settled, Lease, Due
    <3>3. item' \in [Runs -> Items]
      BY <3>1, <3>2
    <3> QED BY <3>3 DEF RowsOK
  <2>3. SystemOK'
    BY SMTT(60) DEF SystemOK, RowsOK, Modes, Outcomes, Settled
  <2>4. HistoryOK'
    BY DEF HistoryOK
  <2> QED BY <2>1, <2>2, <2>3, <2>4
<1>8. ASSUME NEW w \in Workers, FailLoad(w) PROVE TInv'
  <2> USE <1>8 DEF FailLoad
  <2>1. ActorsOK'
    BY SMTT(60) DEF ActorsOK, RowsOK, WorkerPC, RequestPC, ExecutorPC
  <2>2. RowsOK'
    BY SMTT(60) DEF ActorsOK, RowsOK, RunStatus, Terminal, Cancelling
  <2>3. SystemOK'
    BY SMTT(60) DEF SystemOK, RowsOK, Modes, Outcomes, Settled
  <2>4. HistoryOK'
    BY DEF HistoryOK
  <2> QED BY <2>1, <2>2, <2>3, <2>4
<1>9. ASSUME NEW w \in Workers, RetryItem(w) PROVE TInv'
  <2> USE <1>9 DEF RetryItem
  <2>1. ActorsOK'
    BY SMTT(60) DEF ActorsOK, RowsOK, WorkerPC, RequestPC, ExecutorPC
  <2>2. RowsOK'
    <3>1. item \in [Runs -> Items] /\ job[w] \in Runs
      BY DEF ActorsOK, RowsOK, WorkerPC, RequestPC
    <3>2. ASSUME NEW x \in Items
          PROVE  [x EXCEPT !.status = "failed", !.lease = "none",
                     !.due = IF @ = "past" THEN @ ELSE "later"] \in Items
      BY DEF Items, ItemStatus, Settled, Lease, Due
    <3>3. item' \in [Runs -> Items]
      BY <3>1, <3>2
    <3> QED BY <3>3 DEF RowsOK
  <2>3. SystemOK'
    BY SMTT(60) DEF SystemOK, RowsOK, Modes, Outcomes, Settled
  <2>4. HistoryOK'
    BY DEF HistoryOK
  <2> QED BY <2>1, <2>2, <2>3, <2>4
<1>10. ASSUME NEW w \in Workers, BuryItem(w) PROVE TInv'
  <2> USE <1>10 DEF BuryItem
  <2>1. ActorsOK'
    BY SMTT(60) DEF ActorsOK, RowsOK, WorkerPC, RequestPC, ExecutorPC
  <2>2. RowsOK'
    <3>1. item \in [Runs -> Items] /\ job[w] \in Runs
      BY DEF ActorsOK, RowsOK, WorkerPC, RequestPC
    <3>2. ASSUME NEW x \in Items
          PROVE  [x EXCEPT !.status = "dead_letter", !.lease = "none"] \in Items
      BY DEF Items, ItemStatus, Settled, Lease, Due
    <3>3. item' \in [Runs -> Items]
      BY <3>1, <3>2
    <3> QED BY <3>3 DEF RowsOK
  <2>3. SystemOK'
    BY SMTT(60) DEF SystemOK, RowsOK, Modes, Outcomes, Settled
  <2>4. HistoryOK'
    BY DEF HistoryOK
  <2> QED BY <2>1, <2>2, <2>3, <2>4
<1>11. ASSUME NEW w \in Workers, BuryLoad(w) PROVE TInv'
  <2> USE <1>11 DEF BuryLoad
  <2>1. ActorsOK'
    BY SMTT(60) DEF ActorsOK, RowsOK, WorkerPC, RequestPC, ExecutorPC
  <2>2. RowsOK'
    BY SMTT(60) DEF ActorsOK, RowsOK, RunStatus, Terminal, Cancelling
  <2>3. SystemOK'
    BY SMTT(60) DEF SystemOK, RowsOK, Modes, Outcomes, Settled
  <2>4. HistoryOK'
    BY DEF HistoryOK
  <2> QED BY <2>1, <2>2, <2>3, <2>4
<1>12. ASSUME NEW w \in Workers, BuryRun(w) PROVE TInv'
  <2> USE <1>12 DEF BuryRun
  <2>1. ActorsOK'
    BY SMTT(60) DEF ActorsOK, RowsOK, WorkerPC, RequestPC, ExecutorPC
  <2>2. RowsOK'
    BY SMTT(60) DEF ActorsOK, RowsOK, RunStatus, Terminal, Cancelling
  <2>3. SystemOK'
    BY SMTT(60) DEF SystemOK, RowsOK, Modes, Outcomes, Settled
  <2>4. HistoryOK'
    BY DEF HistoryOK
  <2> QED BY <2>1, <2>2, <2>3, <2>4
<1>13. ASSUME NEW w \in Workers, DrainEnds(w) PROVE TInv'
  <2> USE <1>13 DEF DrainEnds, Claimable
  <2>1. ActorsOK'
    BY SMTT(60) DEF ActorsOK, RowsOK, WorkerPC, RequestPC, ExecutorPC
  <2>2. RowsOK'
    BY SMTT(60) DEF ActorsOK, RowsOK, RunStatus, Terminal, Cancelling
  <2>3. SystemOK'
    BY SMTT(60) DEF SystemOK, RowsOK, Modes, Outcomes, Settled
  <2>4. HistoryOK'
    BY DEF HistoryOK
  <2> QED BY <2>1, <2>2, <2>3, <2>4
<1>14. ASSUME NEW w \in Workers, StartLoad(w) PROVE TInv'
  <2> USE <1>14 DEF StartLoad, Outcome, Stale, Keep
  <2>1. ActorsOK'
    BY SMTT(60) DEF ActorsOK, RowsOK, WorkerPC, RequestPC, ExecutorPC
  <2>2. RowsOK'
    BY SMTT(60) DEF ActorsOK, RowsOK, RunStatus, Terminal, Cancelling
  <2>3. SystemOK'
    BY SMTT(60) DEF SystemOK, RowsOK, Modes, Outcomes, Settled
  <2>4. HistoryOK'
    BY DEF HistoryOK
  <2> QED BY <2>1, <2>2, <2>3, <2>4
<1>15. ASSUME NEW w \in Workers, StartCommit(w) PROVE TInv'
  <2> USE <1>15 DEF StartCommit, Reconciled, Row, Keep
  <2>1. ActorsOK'
    BY SMTT(60) DEF ActorsOK, RowsOK, WorkerPC, RequestPC, ExecutorPC
  <2>2. RowsOK'
    <3>1. ASSUME NEW r \in Runs
          PROVE  /\ plan[w][r].run \in {"keep", "queued", "failed", "cancelled"}
                 /\ plan[w][r].item \in {"keep", "queued"} \cup Settled
      <4>1. plan[w][r] \in Outcomes
        BY DEF SystemOK
      <4> QED BY <4>1 DEF Outcomes
    <3>2. run' \in [Runs -> RunStatus]
      BY <3>1 DEF RowsOK, RunStatus, Cancelling, Terminal
    <3>3. ASSUME NEW r \in Runs
          PROVE  Reconciled(item[r], plan[w][r].item) \in Items
      BY <3>1 DEF RowsOK, Items, ItemStatus, Settled, Lease, Due
    <3>4. item' \in [Runs -> Items]
      BY <3>3
    <3>5. ASSUME NEW r \in Runs, run'[r] = "pending_approval"
          PROVE  run[r] = "pending_approval"
      BY <3>1, <3>5
    <3> QED BY <3>2, <3>4, <3>5 DEF RowsOK
  <2>3. SystemOK'
    BY SMTT(60) DEF SystemOK, RowsOK, Modes, Outcomes, Settled
  <2>4. HistoryOK'
    BY DEF HistoryOK
  <2> QED BY <2>1, <2>2, <2>3, <2>4
<1>16. ASSUME NEW w \in Workers, Crash(w) PROVE TInv'
  <2> USE <1>16 DEF Crash, Keep
  <2>1. ActorsOK'
    BY SMTT(60) DEF ActorsOK, RowsOK, WorkerPC, RequestPC, ExecutorPC
  <2>2. RowsOK'
    BY SMTT(60) DEF ActorsOK, RowsOK, RunStatus, Terminal, Cancelling
  <2>3. SystemOK'
    BY SMTT(60) DEF SystemOK, RowsOK, Modes, Outcomes, Settled
  <2>4. HistoryOK'
    BY DEF HistoryOK
  <2> QED BY <2>1, <2>2, <2>3, <2>4
<1>17. ASSUME NEW w \in Workers, LoopDies(w) PROVE TInv'
  <2> USE <1>17 DEF LoopDies
  <2>1. ActorsOK'
    BY SMTT(60) DEF ActorsOK, RowsOK, WorkerPC, RequestPC, ExecutorPC
  <2>2. RowsOK'
    BY SMTT(60) DEF ActorsOK, RowsOK, RunStatus, Terminal, Cancelling
  <2>3. SystemOK'
    BY SMTT(60) DEF SystemOK, RowsOK, Modes, Outcomes, Settled
  <2>4. HistoryOK'
    BY DEF HistoryOK
  <2> QED BY <2>1, <2>2, <2>3, <2>4
<1>18. ASSUME NEW e \in Executors, Check(e) PROVE TInv'
  <2> USE <1>18 DEF Check
  <2>1. ActorsOK'
    BY SMTT(60) DEF ActorsOK, RowsOK, WorkerPC, RequestPC, ExecutorPC
  <2>2. RowsOK'
    BY SMTT(60) DEF ActorsOK, RowsOK, RunStatus, Terminal, Cancelling
  <2>3. SystemOK'
    BY SMTT(60) DEF SystemOK, RowsOK, Modes, Outcomes, Settled
  <2>4. HistoryOK'
    BY DEF HistoryOK
  <2> QED BY <2>1, <2>2, <2>3, <2>4
<1>19. ASSUME NEW e \in Executors, EnterNode(e) PROVE TInv'
  <2> USE <1>19 DEF EnterNode
  <2>1. ActorsOK'
    BY SMTT(60) DEF ActorsOK, RowsOK, WorkerPC, RequestPC, ExecutorPC
  <2>2. RowsOK'
    BY SMTT(60) DEF ActorsOK, RowsOK, RunStatus, Terminal, Cancelling
  <2>3. SystemOK'
    BY SMTT(60) DEF SystemOK, RowsOK, Modes, Outcomes, Settled
  <2>4. HistoryOK'
    BY DEF HistoryOK
  <2> QED BY <2>1, <2>2, <2>3, <2>4
<1>20. ASSUME NEW e \in Executors, FenceHit(e) PROVE TInv'
  <2> USE <1>20 DEF FenceHit
  <2>1. ActorsOK'
    BY SMTT(60) DEF ActorsOK, RowsOK, WorkerPC, RequestPC, ExecutorPC
  <2>2. RowsOK'
    BY SMTT(60) DEF ActorsOK, RowsOK, RunStatus, Terminal, Cancelling
  <2>3. SystemOK'
    BY SMTT(60) DEF SystemOK, RowsOK, Modes, Outcomes, Settled
  <2>4. HistoryOK'
    BY DEF HistoryOK
  <2> QED BY <2>1, <2>2, <2>3, <2>4
<1>21. ASSUME NEW e \in Executors, RunNode(e) PROVE TInv'
  <2> USE <1>21 DEF RunNode
  <2>1. ActorsOK'
    BY SMTT(60) DEF ActorsOK, RowsOK, WorkerPC, RequestPC, ExecutorPC
  <2>2. RowsOK'
    BY SMTT(60) DEF ActorsOK, RowsOK, RunStatus, Terminal, Cancelling
  <2>3. SystemOK'
    BY SMTT(60) DEF SystemOK, RowsOK, Modes, Outcomes, Settled
  <2>4. HistoryOK'
    BY DEF HistoryOK
  <2> QED BY <2>1, <2>2, <2>3, <2>4
<1>22. ASSUME NEW e \in Executors, Park(e) PROVE TInv'
  <2> USE <1>22 DEF Park
  <2>1. ActorsOK'
    BY SMTT(60) DEF ActorsOK, RowsOK, WorkerPC, RequestPC, ExecutorPC
  <2>2. RowsOK'
    BY SMTT(60) DEF ActorsOK, RowsOK, RunStatus, Terminal, Cancelling
  <2>3. SystemOK'
    BY SMTT(60) DEF SystemOK, RowsOK, Modes, Outcomes, Settled
  <2>4. HistoryOK'
    BY DEF HistoryOK
  <2> QED BY <2>1, <2>2, <2>3, <2>4
<1>23. ASSUME NEW e \in Executors, Succeed(e) PROVE TInv'
  <2> USE <1>23 DEF Succeed
  <2>1. ActorsOK'
    BY SMTT(60) DEF ActorsOK, RowsOK, WorkerPC, RequestPC, ExecutorPC
  <2>2. RowsOK'
    BY SMTT(60) DEF ActorsOK, RowsOK, RunStatus, Terminal, Cancelling
  <2>3. SystemOK'
    BY SMTT(60) DEF SystemOK, RowsOK, Modes, Outcomes, Settled
  <2>4. HistoryOK'
    BY DEF HistoryOK
  <2> QED BY <2>1, <2>2, <2>3, <2>4
<1>24. ASSUME NEW e \in Executors, CancelRun(e) PROVE TInv'
  <2> USE <1>24 DEF CancelRun
  <2>1. ActorsOK'
    BY SMTT(60) DEF ActorsOK, RowsOK, WorkerPC, RequestPC, ExecutorPC
  <2>2. RowsOK'
    BY SMTT(60) DEF ActorsOK, RowsOK, RunStatus, Terminal, Cancelling
  <2>3. SystemOK'
    BY SMTT(60) DEF SystemOK, RowsOK, Modes, Outcomes, Settled
  <2>4. HistoryOK'
    BY DEF HistoryOK
  <2> QED BY <2>1, <2>2, <2>3, <2>4
<1>25. ASSUME NEW e \in Executors, Raised(e) PROVE TInv'
  <2> USE <1>25 DEF Raised
  <2>1. ActorsOK'
    BY SMTT(60) DEF ActorsOK, RowsOK, WorkerPC, RequestPC, ExecutorPC
  <2>2. RowsOK'
    BY SMTT(60) DEF ActorsOK, RowsOK, RunStatus, Terminal, Cancelling
  <2>3. SystemOK'
    BY SMTT(60) DEF SystemOK, RowsOK, Modes, Outcomes, Settled
  <2>4. HistoryOK'
    BY DEF HistoryOK
  <2> QED BY <2>1, <2>2, <2>3, <2>4
<1>26. ASSUME NEW e \in Executors, FailRun(e) PROVE TInv'
  <2> USE <1>26 DEF FailRun
  <2>1. ActorsOK'
    BY SMTT(60) DEF ActorsOK, RowsOK, WorkerPC, RequestPC, ExecutorPC
  <2>2. RowsOK'
    BY SMTT(60) DEF ActorsOK, RowsOK, RunStatus, Terminal, Cancelling
  <2>3. SystemOK'
    BY SMTT(60) DEF SystemOK, RowsOK, Modes, Outcomes, Settled
  <2>4. HistoryOK'
    BY DEF HistoryOK
  <2> QED BY <2>1, <2>2, <2>3, <2>4
<1>27. ASSUME NEW a \in Submitters, SubmitRun(a) PROVE TInv'
  <2> USE <1>27 DEF SubmitRun
  <2>1. ActorsOK'
    BY SMTT(60) DEF ActorsOK, RowsOK, WorkerPC, RequestPC, ExecutorPC
  <2>2. RowsOK'
    BY SMTT(60) DEF ActorsOK, RowsOK, RunStatus, Terminal, Cancelling
  <2>3. SystemOK'
    BY SMTT(60) DEF SystemOK, RowsOK, Modes, Outcomes, Settled
  <2>4. HistoryOK'
    BY DEF HistoryOK
  <2> QED BY <2>1, <2>2, <2>3, <2>4
<1>28. ASSUME NEW a \in Submitters, Enqueue(a) PROVE TInv'
  <2> USE <1>28 DEF Enqueue, NewItem, Row, Up
  <2>1. ActorsOK'
    BY SMTT(60) DEF ActorsOK, RowsOK, WorkerPC, RequestPC, ExecutorPC
  <2>2. RowsOK'
    <3>1. NewItem \in Items
      BY DEF Items, ItemStatus, Settled, Lease, Due
    <3> QED BY <3>1 DEF ActorsOK, RowsOK
  <2>3. SystemOK'
    BY SMTT(60) DEF SystemOK, RowsOK, Modes, Outcomes, Settled
  <2>4. HistoryOK'
    BY DEF HistoryOK
  <2> QED BY <2>1, <2>2, <2>3, <2>4
<1>29. ASSUME NEW a \in Runners, RunNow(a) PROVE TInv'
  <2> USE <1>29 DEF RunNow
  <2>1. ActorsOK'
    BY SMTT(60) DEF ActorsOK, RowsOK, WorkerPC, RequestPC, ExecutorPC
  <2>2. RowsOK'
    BY SMTT(60) DEF ActorsOK, RowsOK, RunStatus, Terminal, Cancelling
  <2>3. SystemOK'
    BY SMTT(60) DEF SystemOK, RowsOK, Modes, Outcomes, Settled
  <2>4. HistoryOK'
    BY DEF HistoryOK
  <2> QED BY <2>1, <2>2, <2>3, <2>4
<1>30. ASSUME NEW a \in Cancellers, CancelLoad(a) PROVE TInv'
  <2> USE <1>30 DEF CancelLoad
  <2>1. ActorsOK'
    BY SMTT(60) DEF ActorsOK, RowsOK, WorkerPC, RequestPC, ExecutorPC
  <2>2. RowsOK'
    BY SMTT(60) DEF ActorsOK, RowsOK, RunStatus, Terminal, Cancelling
  <2>3. SystemOK'
    BY SMTT(60) DEF SystemOK, RowsOK, Modes, Outcomes, Settled
  <2>4. HistoryOK'
    BY DEF HistoryOK
  <2> QED BY <2>1, <2>2, <2>3, <2>4
<1>31. ASSUME NEW a \in Cancellers, CancelCommit(a) PROVE TInv'
  <2> USE <1>31 DEF CancelCommit
  <2>1. ActorsOK'
    BY SMTT(60) DEF ActorsOK, RowsOK, WorkerPC, RequestPC, ExecutorPC
  <2>2. RowsOK'
    <3>1. CASE pc[a] = "cancel_now"
      BY <3>1, SMTT(60) DEF ActorsOK, RowsOK, RunStatus, Cancelling
    <3>2. CASE pc[a] = "cancel_soon"
      BY <3>2, SMTT(60) DEF ActorsOK, RowsOK, RunStatus, Cancelling
    <3> QED BY <3>1, <3>2
  <2>3. SystemOK'
    BY SMTT(60) DEF SystemOK, RowsOK, Modes, Outcomes, Settled
  <2>4. HistoryOK'
    BY DEF HistoryOK
  <2> QED BY <2>1, <2>2, <2>3, <2>4
<1>32. ASSUME NEW a \in Cancellers, CancelItemLoad(a) PROVE TInv'
  <2> USE <1>32 DEF CancelItemLoad
  <2>1. ActorsOK'
    BY SMTT(60) DEF ActorsOK, RowsOK, WorkerPC, RequestPC, ExecutorPC
  <2>2. RowsOK'
    BY SMTT(60) DEF ActorsOK, RowsOK, RunStatus, Terminal, Cancelling
  <2>3. SystemOK'
    BY SMTT(60) DEF SystemOK, RowsOK, Modes, Outcomes, Settled
  <2>4. HistoryOK'
    BY DEF HistoryOK
  <2> QED BY <2>1, <2>2, <2>3, <2>4
<1>33. ASSUME NEW a \in Cancellers, CancelItemCommit(a) PROVE TInv'
  <2> USE <1>33 DEF CancelItemCommit
  <2>1. ActorsOK'
    BY SMTT(60) DEF ActorsOK, RowsOK, WorkerPC, RequestPC, ExecutorPC
  <2>2. RowsOK'
    <3>1. item \in [Runs -> Items] /\ job[a] \in Runs
      BY DEF ActorsOK, RowsOK, WorkerPC, RequestPC
    <3>2. ASSUME NEW x \in Items
          PROVE  [x EXCEPT !.status = "cancelled",
                     !.lease = IF pc[a] = "drop_leased" THEN "none" ELSE @] \in Items
      BY DEF Items, ItemStatus, Settled, Lease, Due
    <3>3. item' \in [Runs -> Items]
      BY <3>1, <3>2
    <3> QED BY <3>3 DEF RowsOK
  <2>3. SystemOK'
    BY SMTT(60) DEF SystemOK, RowsOK, Modes, Outcomes, Settled
  <2>4. HistoryOK'
    BY DEF HistoryOK
  <2> QED BY <2>1, <2>2, <2>3, <2>4
<1>34. ASSUME NEW a \in Resumers, ResumeLoad(a) PROVE TInv'
  <2> USE <1>34 DEF ResumeLoad
  <2>1. ActorsOK'
    BY SMTT(60) DEF ActorsOK, RowsOK, WorkerPC, RequestPC, ExecutorPC
  <2>2. RowsOK'
    BY SMTT(60) DEF ActorsOK, RowsOK, RunStatus, Terminal, Cancelling
  <2>3. SystemOK'
    BY SMTT(60) DEF SystemOK, RowsOK, Modes, Outcomes, Settled
  <2>4. HistoryOK'
    BY DEF HistoryOK
  <2> QED BY <2>1, <2>2, <2>3, <2>4
<1>35. ASSUME NEW a \in Resumers, ResumeCheck(a) PROVE TInv'
  <2> USE <1>35 DEF ResumeCheck
  <2>1. ActorsOK'
    BY SMTT(60) DEF ActorsOK, RowsOK, WorkerPC, RequestPC, ExecutorPC
  <2>2. RowsOK'
    BY SMTT(60) DEF ActorsOK, RowsOK, RunStatus, Terminal, Cancelling
  <2>3. SystemOK'
    BY SMTT(60) DEF SystemOK, RowsOK, Modes, Outcomes, Settled
  <2>4. HistoryOK'
    BY DEF HistoryOK
  <2> QED BY <2>1, <2>2, <2>3, <2>4
<1>36. ASSUME NEW a \in Resumers, Redo(a) PROVE TInv'
  <2> USE <1>36 DEF Redo
  <2>1. ActorsOK'
    BY SMTT(60) DEF ActorsOK, RowsOK, WorkerPC, RequestPC, ExecutorPC
  <2>2. RowsOK'
    BY SMTT(60) DEF ActorsOK, RowsOK, RunStatus, Terminal, Cancelling
  <2>3. SystemOK'
    BY SMTT(60) DEF SystemOK, RowsOK, Modes, Outcomes, Settled
  <2>4. HistoryOK'
    BY DEF HistoryOK
  <2> QED BY <2>1, <2>2, <2>3, <2>4
<1>37. ASSUME NEW a \in Requests, Abandon(a) PROVE TInv'
  <2> USE <1>37 DEF Abandon
  <2>1. ActorsOK'
    BY SMTT(60) DEF ActorsOK, RowsOK, WorkerPC, RequestPC, ExecutorPC
  <2>2. RowsOK'
    BY SMTT(60) DEF ActorsOK, RowsOK, RunStatus, Terminal, Cancelling
  <2>3. SystemOK'
    BY SMTT(60) DEF SystemOK, RowsOK, Modes, Outcomes, Settled
  <2>4. HistoryOK'
    BY DEF HistoryOK
  <2> QED BY <2>1, <2>2, <2>3, <2>4
<1>38. ASSUME NEW r \in Runs, LeaseExpires(r) PROVE TInv'
  <2> USE <1>38 DEF LeaseExpires
  <2>1. ActorsOK'
    BY SMTT(60) DEF ActorsOK, RowsOK, WorkerPC, RequestPC, ExecutorPC
  <2>2. RowsOK'
    <3>1. item \in [Runs -> Items]
      BY DEF RowsOK
    <3>2. ASSUME NEW x \in Items
          PROVE  [x EXCEPT !.lease = "expired"] \in Items
      BY DEF Items, ItemStatus, Settled, Lease, Due
    <3>3. item' \in [Runs -> Items]
      BY <3>1, <3>2
    <3> QED BY <3>3 DEF RowsOK
  <2>3. SystemOK'
    BY SMTT(60) DEF SystemOK, RowsOK, Modes, Outcomes, Settled
  <2>4. HistoryOK'
    BY DEF HistoryOK
  <2> QED BY <2>1, <2>2, <2>3, <2>4
<1>39. ASSUME NEW r \in Runs, BackoffElapses(r) PROVE TInv'
  <2> USE <1>39 DEF BackoffElapses
  <2>1. ActorsOK'
    BY SMTT(60) DEF ActorsOK, RowsOK, WorkerPC, RequestPC, ExecutorPC
  <2>2. RowsOK'
    <3>1. item \in [Runs -> Items]
      BY DEF RowsOK
    <3>2. ASSUME NEW x \in Items
          PROVE  [x EXCEPT !.due = "now"] \in Items
      BY DEF Items, ItemStatus, Settled, Lease, Due
    <3>3. item' \in [Runs -> Items]
      BY <3>1, <3>2
    <3> QED BY <3>3 DEF RowsOK
  <2>3. SystemOK'
    BY SMTT(60) DEF SystemOK, RowsOK, Modes, Outcomes, Settled
  <2>4. HistoryOK'
    BY DEF HistoryOK
  <2> QED BY <2>1, <2>2, <2>3, <2>4
<1>40. ASSUME NEW r \in Runs, PayloadExpires(r) PROVE TInv'
  <2> USE <1>40 DEF PayloadExpires
  <2>1. ActorsOK'
    BY SMTT(60) DEF ActorsOK, RowsOK, WorkerPC, RequestPC, ExecutorPC
  <2>2. RowsOK'
    <3>1. item \in [Runs -> Items]
      BY DEF RowsOK
    <3>2. ASSUME NEW x \in Items
          PROVE  [x EXCEPT !.due = "past"] \in Items
      BY DEF Items, ItemStatus, Settled, Lease, Due
    <3>3. item' \in [Runs -> Items]
      BY <3>1, <3>2
    <3> QED BY <3>3 DEF RowsOK
  <2>3. SystemOK'
    BY SMTT(60) DEF SystemOK, RowsOK, Modes, Outcomes, Settled
  <2>4. HistoryOK'
    BY DEF HistoryOK
  <2> QED BY <2>1, <2>2, <2>3, <2>4
<1>41. ASSUME UNCHANGED vars PROVE TInv'
  BY <1>41 DEF vars, ActorsOK, RowsOK, SystemOK, HistoryOK
<1> QED
  BY <1>1, <1>2, <1>3, <1>4, <1>5, <1>6, <1>7, <1>8, <1>9, <1>10, 
     <1>11, <1>12, <1>13, <1>14, <1>15, <1>16, <1>17, <1>18, 
     <1>19, <1>20, <1>21, <1>22, <1>23, <1>24, <1>25, <1>26, 
     <1>27, <1>28, <1>29, <1>30, <1>31, <1>32, <1>33, <1>34, 
     <1>35, <1>36, <1>37, <1>38, <1>39, <1>40, <1>41
  DEF Next, Work, Execute, Submit, Cancel, Resume, Start, Retry

(* TInv is an invariant. *)
LEMMA Typed == Spec => []TInv
  BY TypeInit, TypeStep, PTL DEF Spec

(* Every variable stays in its range: no executor goes past the end of the  *)
(* path, and an actor at work never loses the run it works on.              *)
THEOREM TypeCorrect == Spec => []TypeOK
<1>1. TInv => TypeOK
  BY DEF TInv, ActorsOK, RowsOK, SystemOK, HistoryOK, TypeOK
<1> QED BY <1>1, Typed, PTL

(***************************************************************************)
(* Startup reconciliation.                                                 *)
(***************************************************************************)

(* What StartCommit writes for a run: it never reports success or makes a   *)
(* run wait, it creates no queue row, and it requeues an item that has not  *)
(* changed since it was read only when that is stale and has an attempt     *)
(* left.                                                                    *)
LEMMA Reconciliation ==
    ASSUME TInv, NEW w \in Workers, StartCommit(w), NEW r \in Runs
    PROVE  /\ run'[r] \in {run[r], "queued", "failed", "cancelled"}
           /\ \/ item'[r] = item[r] /\ plan[w][r].item = "keep"
              \/ /\ plan[w][r].item # "keep"
                 /\ item'[r].status \in {"queued"} \cup Settled
                 /\ item'[r].attempts = item[r].attempts
                 /\ item'[r].lease = "none"
           /\ r \notin torn' =>
                 /\ r \notin torn
                 /\ \/ item'[r] = item[r]
                    \/ /\ Stale(r)
                       /\ item'[r].status = "queued" => item[r].attempts < MaxAttempts
<1>1. plan[w][r] \in Outcomes
  BY DEF TInv, SystemOK
<1>2. item[r] \in Items
  BY DEF TInv, RowsOK
<1>3. item'[r] = Reconciled(item[r], plan[w][r].item)
  BY DEF StartCommit
<1>4. run'[r] \in {run[r], "queued", "failed", "cancelled"}
  BY <1>1 DEF StartCommit, Outcomes, TInv, RowsOK
<1>5. \/ item'[r] = item[r] /\ plan[w][r].item = "keep"
      \/ /\ plan[w][r].item # "keep"
         /\ item'[r].status = plan[w][r].item
         /\ item'[r].status \in {"queued"} \cup Settled
         /\ item'[r].attempts = item[r].attempts
         /\ item'[r].lease = "none"
  BY <1>1, <1>2, <1>3 DEF Reconciled, Row, Outcomes, Items
<1>6. ASSUME r \notin torn'
      PROVE  /\ r \notin torn
             /\ \/ item'[r] = item[r]
                \/ /\ Stale(r)
                   /\ item'[r].status = "queued" => item[r].attempts < MaxAttempts
  <2>1. r \notin torn /\ plan[w][r] \in {Keep, Outcome(r)}
    BY <1>6 DEF StartCommit
  <2>2. CASE plan[w][r] = Keep
    BY <2>1, <2>2, <1>5 DEF Keep
  <2>3. CASE plan[w][r] = Outcome(r)
    <3>1. CASE ~Stale(r)
      BY <2>1, <2>3, <3>1, <1>5 DEF Keep, Outcome
    <3>2. CASE Stale(r)
      <4>1. plan[w][r].item = "queued" => item[r].attempts < MaxAttempts
        BY <2>3, <3>2, <1>2, ConstantsAssumption DEF Outcome, Items
      <4> QED BY <2>1, <3>2, <4>1, <1>5
    <3> QED BY <3>1, <3>2
  <2> QED BY <2>1, <2>2, <2>3
<1> QED BY <1>4, <1>5, <1>6

(***************************************************************************)
(* Nodes: a run reported success has been through every node.              *)
(***************************************************************************)

(* An executor is at most one node ahead of what its run has entered, and a *)
(* run waits at a node it has entered.  An executor that has no run starts  *)
(* from the first node.                                                     *)
Visited ==
    /\ \A e \in Executors :
          /\ pc[e] \in {"idle", "new", "done"} => pos[e] = 1
          /\ job[e] \in Runs => pos[e] <= entered[job[e]] + 1
          /\ pc[e] \in {"node", "park", "recheck", "redo"} => pos[e] <= entered[job[e]]
          /\ pc[e] = "succeed" => entered[job[e]] = Nodes
    /\ \A r \in Runs : run[r] = "pending_approval" => pend[r] <= entered[r]
    /\ SuccessIsComplete

(* Every step preserves Visited. *)
LEMMA VisitedStep ==
    ASSUME TInv, Visited, [Next]_vars PROVE Visited'
<1> USE ConstantsAssumption
    DEF TInv, Requests, Executors, Actors, Goto, Leave, Return, UpdateRun, CreateRun, Fault,
           Holds, queueVars, historyVars
<1>1. ASSUME NEW w \in Workers, Claim(w) PROVE Visited'
  BY <1>1, SMTT(60)
     DEF Claim, Claimable, Visited, SuccessIsComplete, RowsOK, ActorsOK,
         WorkerPC, RequestPC, ExecutorPC
<1>2. ASSUME NEW w \in Workers, MarkRunning(w) PROVE Visited'
  BY <1>2, SMTT(60)
     DEF MarkRunning, Visited, SuccessIsComplete, RowsOK, ActorsOK,
         WorkerPC, RequestPC, ExecutorPC
<1>3. ASSUME NEW w \in Workers, LoadRun(w) PROVE Visited'
  BY <1>3, SMTT(60)
     DEF LoadRun, Visited, SuccessIsComplete, RowsOK, ActorsOK, WorkerPC,
         RequestPC, ExecutorPC
<1>4. ASSUME NEW w \in Workers, OpenRun(w) PROVE Visited'
  BY <1>4, SMTT(60)
     DEF OpenRun, Visited, SuccessIsComplete, RowsOK, ActorsOK, WorkerPC,
         RequestPC, ExecutorPC
<1>5. ASSUME NEW w \in Workers, Begin(w) PROVE Visited'
  BY <1>5, SMTT(60)
     DEF Begin, Visited, SuccessIsComplete, RowsOK, ActorsOK, WorkerPC,
         RequestPC, ExecutorPC
<1>6. ASSUME NEW w \in Workers, QueueError(w) PROVE Visited'
  BY <1>6, SMTT(60)
     DEF QueueError, Visited, SuccessIsComplete, RowsOK, ActorsOK, WorkerPC,
         RequestPC, ExecutorPC
<1>7. ASSUME NEW w \in Workers, Settle(w) PROVE Visited'
  BY <1>7, SMTT(60)
     DEF Settle, Visited, SuccessIsComplete, RowsOK, ActorsOK, WorkerPC,
         RequestPC, ExecutorPC
<1>8. ASSUME NEW w \in Workers, FailLoad(w) PROVE Visited'
  BY <1>8, SMTT(60)
     DEF FailLoad, Visited, SuccessIsComplete, RowsOK, ActorsOK, WorkerPC,
         RequestPC, ExecutorPC
<1>9. ASSUME NEW w \in Workers, RetryItem(w) PROVE Visited'
  BY <1>9, SMTT(60)
     DEF RetryItem, Visited, SuccessIsComplete, RowsOK, ActorsOK, WorkerPC,
         RequestPC, ExecutorPC
<1>10. ASSUME NEW w \in Workers, BuryItem(w) PROVE Visited'
  BY <1>10, SMTT(60)
     DEF BuryItem, Visited, SuccessIsComplete, RowsOK, ActorsOK, WorkerPC,
         RequestPC, ExecutorPC
<1>11. ASSUME NEW w \in Workers, BuryLoad(w) PROVE Visited'
  BY <1>11, SMTT(60)
     DEF BuryLoad, Visited, SuccessIsComplete, RowsOK, ActorsOK, WorkerPC,
         RequestPC, ExecutorPC
<1>12. ASSUME NEW w \in Workers, BuryRun(w) PROVE Visited'
  BY <1>12, SMTT(60)
     DEF BuryRun, Visited, SuccessIsComplete, RowsOK, ActorsOK, WorkerPC,
         RequestPC, ExecutorPC
<1>13. ASSUME NEW w \in Workers, DrainEnds(w) PROVE Visited'
  BY <1>13, SMTT(60)
     DEF DrainEnds, Claimable, Visited, SuccessIsComplete, RowsOK, ActorsOK,
         WorkerPC, RequestPC, ExecutorPC
<1>14. ASSUME NEW w \in Workers, StartLoad(w) PROVE Visited'
  BY <1>14, SMTT(60)
     DEF StartLoad, Outcome, Stale, Keep, Visited, SuccessIsComplete,
         RowsOK, ActorsOK, WorkerPC, RequestPC, ExecutorPC
<1>15. ASSUME NEW w \in Workers, StartCommit(w) PROVE Visited'
  <2>1. ASSUME NEW r \in Runs
        PROVE  run'[r] \in {run[r], "queued", "failed", "cancelled"}
    BY <1>15, Reconciliation
  <2>2. UNCHANGED <<pend, entered, pc, job, pos>>
    BY <1>15 DEF StartCommit
  <2> QED BY <2>1, <2>2 DEF Visited, SuccessIsComplete
<1>16. ASSUME NEW w \in Workers, Crash(w) PROVE Visited'
  BY <1>16, SMTT(60)
     DEF Crash, Keep, Visited, SuccessIsComplete, RowsOK, ActorsOK,
         WorkerPC, RequestPC, ExecutorPC
<1>17. ASSUME NEW w \in Workers, LoopDies(w) PROVE Visited'
  BY <1>17, SMTT(60)
     DEF LoopDies, Visited, SuccessIsComplete, RowsOK, ActorsOK, WorkerPC,
         RequestPC, ExecutorPC
<1>18. ASSUME NEW e \in Executors, Check(e) PROVE Visited'
  BY <1>18, SMTT(60)
     DEF Check, Visited, SuccessIsComplete, RowsOK, ActorsOK, WorkerPC,
         RequestPC, ExecutorPC
<1>19. ASSUME NEW e \in Executors, EnterNode(e) PROVE Visited'
  BY <1>19, SMTT(60)
     DEF EnterNode, Visited, SuccessIsComplete, RowsOK, ActorsOK, WorkerPC,
         RequestPC, ExecutorPC
<1>20. ASSUME NEW e \in Executors, FenceHit(e) PROVE Visited'
  BY <1>20, SMTT(60)
     DEF FenceHit, Visited, SuccessIsComplete, RowsOK, ActorsOK, WorkerPC,
         RequestPC, ExecutorPC
<1>21. ASSUME NEW e \in Executors, RunNode(e) PROVE Visited'
  BY <1>21, SMTT(60)
     DEF RunNode, Visited, SuccessIsComplete, RowsOK, ActorsOK, WorkerPC,
         RequestPC, ExecutorPC
<1>22. ASSUME NEW e \in Executors, Park(e) PROVE Visited'
  BY <1>22, SMTT(60)
     DEF Park, Visited, SuccessIsComplete, RowsOK, ActorsOK, WorkerPC,
         RequestPC, ExecutorPC
<1>23. ASSUME NEW e \in Executors, Succeed(e) PROVE Visited'
  BY <1>23, SMTT(60)
     DEF Succeed, Visited, SuccessIsComplete, RowsOK, ActorsOK, WorkerPC,
         RequestPC, ExecutorPC
<1>24. ASSUME NEW e \in Executors, CancelRun(e) PROVE Visited'
  BY <1>24, SMTT(60)
     DEF CancelRun, Visited, SuccessIsComplete, RowsOK, ActorsOK, WorkerPC,
         RequestPC, ExecutorPC
<1>25. ASSUME NEW e \in Executors, Raised(e) PROVE Visited'
  BY <1>25, SMTT(60)
     DEF Raised, Visited, SuccessIsComplete, RowsOK, ActorsOK, WorkerPC,
         RequestPC, ExecutorPC
<1>26. ASSUME NEW e \in Executors, FailRun(e) PROVE Visited'
  BY <1>26, SMTT(60)
     DEF FailRun, Visited, SuccessIsComplete, RowsOK, ActorsOK, WorkerPC,
         RequestPC, ExecutorPC
<1>27. ASSUME NEW a \in Submitters, SubmitRun(a) PROVE Visited'
  BY <1>27, SMTT(60)
     DEF SubmitRun, Visited, SuccessIsComplete, RowsOK, ActorsOK, WorkerPC,
         RequestPC, ExecutorPC
<1>28. ASSUME NEW a \in Submitters, Enqueue(a) PROVE Visited'
  BY <1>28, SMTT(60)
     DEF Enqueue, NewItem, Row, Up, Visited, SuccessIsComplete, RowsOK,
         ActorsOK, WorkerPC, RequestPC, ExecutorPC
<1>29. ASSUME NEW a \in Runners, RunNow(a) PROVE Visited'
  BY <1>29, SMTT(60)
     DEF RunNow, Visited, SuccessIsComplete, RowsOK, ActorsOK, WorkerPC,
         RequestPC, ExecutorPC
<1>30. ASSUME NEW a \in Cancellers, CancelLoad(a) PROVE Visited'
  BY <1>30, SMTT(60)
     DEF CancelLoad, Visited, SuccessIsComplete, RowsOK, ActorsOK, WorkerPC,
         RequestPC, ExecutorPC
<1>31. ASSUME NEW a \in Cancellers, CancelCommit(a) PROVE Visited'
  BY <1>31, SMTT(60)
     DEF CancelCommit, Visited, SuccessIsComplete, RowsOK, ActorsOK,
         WorkerPC, RequestPC, ExecutorPC
<1>32. ASSUME NEW a \in Cancellers, CancelItemLoad(a) PROVE Visited'
  BY <1>32, SMTT(60)
     DEF CancelItemLoad, Visited, SuccessIsComplete, RowsOK, ActorsOK,
         WorkerPC, RequestPC, ExecutorPC
<1>33. ASSUME NEW a \in Cancellers, CancelItemCommit(a) PROVE Visited'
  BY <1>33, SMTT(60)
     DEF CancelItemCommit, Visited, SuccessIsComplete, RowsOK, ActorsOK,
         WorkerPC, RequestPC, ExecutorPC
<1>34. ASSUME NEW a \in Resumers, ResumeLoad(a) PROVE Visited'
  BY <1>34, SMTT(60)
     DEF ResumeLoad, Visited, SuccessIsComplete, RowsOK, ActorsOK, WorkerPC,
         RequestPC, ExecutorPC
<1>35. ASSUME NEW a \in Resumers, ResumeCheck(a) PROVE Visited'
  BY <1>35, SMTT(60)
     DEF ResumeCheck, Visited, SuccessIsComplete, RowsOK, ActorsOK,
         WorkerPC, RequestPC, ExecutorPC
<1>36. ASSUME NEW a \in Resumers, Redo(a) PROVE Visited'
  BY <1>36, SMTT(60)
     DEF Redo, Visited, SuccessIsComplete, RowsOK, ActorsOK, WorkerPC,
         RequestPC, ExecutorPC
<1>37. ASSUME NEW a \in Requests, Abandon(a) PROVE Visited'
  BY <1>37, SMTT(60)
     DEF Abandon, Visited, SuccessIsComplete, RowsOK, ActorsOK, WorkerPC,
         RequestPC, ExecutorPC
<1>38. ASSUME NEW r \in Runs, LeaseExpires(r) PROVE Visited'
  BY <1>38, SMTT(60)
     DEF LeaseExpires, Visited, SuccessIsComplete, RowsOK, ActorsOK,
         WorkerPC, RequestPC, ExecutorPC
<1>39. ASSUME NEW r \in Runs, BackoffElapses(r) PROVE Visited'
  BY <1>39, SMTT(60)
     DEF BackoffElapses, Visited, SuccessIsComplete, RowsOK, ActorsOK,
         WorkerPC, RequestPC, ExecutorPC
<1>40. ASSUME NEW r \in Runs, PayloadExpires(r) PROVE Visited'
  BY <1>40, SMTT(60)
     DEF PayloadExpires, Visited, SuccessIsComplete, RowsOK, ActorsOK,
         WorkerPC, RequestPC, ExecutorPC
<1>41. ASSUME UNCHANGED vars PROVE Visited'
  BY <1>41 DEF vars, Visited, SuccessIsComplete
<1> QED
  BY <1>1, <1>2, <1>3, <1>4, <1>5, <1>6, <1>7, <1>8, <1>9, <1>10, 
     <1>11, <1>12, <1>13, <1>14, <1>15, <1>16, <1>17, <1>18, 
     <1>19, <1>20, <1>21, <1>22, <1>23, <1>24, <1>25, <1>26, 
     <1>27, <1>28, <1>29, <1>30, <1>31, <1>32, <1>33, <1>34, 
     <1>35, <1>36, <1>37, <1>38, <1>39, <1>40, <1>41
  DEF Next, Work, Execute, Submit, Cancel, Resume, Start, Retry

(* A run reported success has been through every node of its path, whoever  *)
(* ran it, and over whatever deliveries, resumptions and crashes.           *)
THEOREM SuccessCorrect == Spec => []SuccessIsComplete
<1>1. Init => Visited
  BY ConstantsAssumption
     DEF Init, Visited, SuccessIsComplete, Actors, Executors, Requests
<1>2. TInv /\ Visited /\ [Next]_vars => Visited'
  BY VisitedStep
<1>3. Visited => SuccessIsComplete
  BY DEF Visited
<1> QED BY <1>1, <1>2, <1>3, Typed, PTL DEF Spec

(***************************************************************************)
(* Cancellation: one more node at most.                                    *)
(***************************************************************************)

(* Only a run that is being cancelled has late executors. *)
Stopping ==
    /\ \A r \in Runs : late[r] # {} => run[r] \in Cancelling
    /\ OneLateNode

(* Every step preserves Stopping. *)
LEMMA StoppingStep ==
    ASSUME TInv, Stopping, [Next]_vars PROVE Stopping'
<1> USE ConstantsAssumption
    DEF TInv, Requests, Executors, Actors, Goto, Leave, Return, UpdateRun, CreateRun, Fault,
           Holds, queueVars, historyVars
<1>1. ASSUME NEW w \in Workers, Claim(w) PROVE Stopping'
  BY <1>1, SMTT(60)
     DEF Claim, Claimable, Stopping, OneLateNode, Cancelling, RowsOK,
         HistoryOK, ActorsOK, WorkerPC, RequestPC, ExecutorPC
<1>2. ASSUME NEW w \in Workers, MarkRunning(w) PROVE Stopping'
  BY <1>2, SMTT(60)
     DEF MarkRunning, Stopping, OneLateNode, Cancelling, RowsOK, HistoryOK,
         ActorsOK, WorkerPC, RequestPC, ExecutorPC
<1>3. ASSUME NEW w \in Workers, LoadRun(w) PROVE Stopping'
  BY <1>3, SMTT(60)
     DEF LoadRun, Stopping, OneLateNode, Cancelling, RowsOK, HistoryOK,
         ActorsOK, WorkerPC, RequestPC, ExecutorPC
<1>4. ASSUME NEW w \in Workers, OpenRun(w) PROVE Stopping'
  BY <1>4, SMTT(60)
     DEF OpenRun, Stopping, OneLateNode, Cancelling, RowsOK, HistoryOK,
         ActorsOK, WorkerPC, RequestPC, ExecutorPC
<1>5. ASSUME NEW w \in Workers, Begin(w) PROVE Stopping'
  BY <1>5, SMTT(60)
     DEF Begin, Stopping, OneLateNode, Cancelling, RowsOK, HistoryOK,
         ActorsOK, WorkerPC, RequestPC, ExecutorPC
<1>6. ASSUME NEW w \in Workers, QueueError(w) PROVE Stopping'
  BY <1>6, SMTT(60)
     DEF QueueError, Stopping, OneLateNode, Cancelling, RowsOK, HistoryOK,
         ActorsOK, WorkerPC, RequestPC, ExecutorPC
<1>7. ASSUME NEW w \in Workers, Settle(w) PROVE Stopping'
  BY <1>7, SMTT(60)
     DEF Settle, Stopping, OneLateNode, Cancelling, RowsOK, HistoryOK,
         ActorsOK, WorkerPC, RequestPC, ExecutorPC
<1>8. ASSUME NEW w \in Workers, FailLoad(w) PROVE Stopping'
  BY <1>8, SMTT(60)
     DEF FailLoad, Stopping, OneLateNode, Cancelling, RowsOK, HistoryOK,
         ActorsOK, WorkerPC, RequestPC, ExecutorPC
<1>9. ASSUME NEW w \in Workers, RetryItem(w) PROVE Stopping'
  BY <1>9, SMTT(60)
     DEF RetryItem, Stopping, OneLateNode, Cancelling, RowsOK, HistoryOK,
         ActorsOK, WorkerPC, RequestPC, ExecutorPC
<1>10. ASSUME NEW w \in Workers, BuryItem(w) PROVE Stopping'
  BY <1>10, SMTT(60)
     DEF BuryItem, Stopping, OneLateNode, Cancelling, RowsOK, HistoryOK,
         ActorsOK, WorkerPC, RequestPC, ExecutorPC
<1>11. ASSUME NEW w \in Workers, BuryLoad(w) PROVE Stopping'
  BY <1>11, SMTT(60)
     DEF BuryLoad, Stopping, OneLateNode, Cancelling, RowsOK, HistoryOK,
         ActorsOK, WorkerPC, RequestPC, ExecutorPC
<1>12. ASSUME NEW w \in Workers, BuryRun(w) PROVE Stopping'
  BY <1>12, SMTT(60)
     DEF BuryRun, Stopping, OneLateNode, Cancelling, RowsOK, HistoryOK,
         ActorsOK, WorkerPC, RequestPC, ExecutorPC
<1>13. ASSUME NEW w \in Workers, DrainEnds(w) PROVE Stopping'
  BY <1>13, SMTT(60)
     DEF DrainEnds, Claimable, Stopping, OneLateNode, Cancelling, RowsOK,
         HistoryOK, ActorsOK, WorkerPC, RequestPC, ExecutorPC
<1>14. ASSUME NEW w \in Workers, StartLoad(w) PROVE Stopping'
  BY <1>14, SMTT(60)
     DEF StartLoad, Outcome, Stale, Keep, Stopping, OneLateNode, Cancelling,
         RowsOK, HistoryOK, ActorsOK, WorkerPC, RequestPC, ExecutorPC
<1>15. ASSUME NEW w \in Workers, StartCommit(w) PROVE Stopping'
  <2>1. ASSUME NEW r \in Runs
        PROVE  late'[r] = IF run'[r] \in Cancelling THEN late[r] ELSE {}
    BY <1>15 DEF StartCommit
  <2>2. UNCHANGED <<pc, job>>
    BY <1>15 DEF StartCommit
  <2> QED BY <2>1, <2>2 DEF Stopping, OneLateNode
<1>16. ASSUME NEW w \in Workers, Crash(w) PROVE Stopping'
  BY <1>16, SMTT(60)
     DEF Crash, Keep, Stopping, OneLateNode, Cancelling, RowsOK, HistoryOK,
         ActorsOK, WorkerPC, RequestPC, ExecutorPC
<1>17. ASSUME NEW w \in Workers, LoopDies(w) PROVE Stopping'
  BY <1>17, SMTT(60)
     DEF LoopDies, Stopping, OneLateNode, Cancelling, RowsOK, HistoryOK,
         ActorsOK, WorkerPC, RequestPC, ExecutorPC
<1>18. ASSUME NEW e \in Executors, Check(e) PROVE Stopping'
  BY <1>18, SMTT(60)
     DEF Check, Stopping, OneLateNode, Cancelling, RowsOK, HistoryOK,
         ActorsOK, WorkerPC, RequestPC, ExecutorPC
<1>19. ASSUME NEW e \in Executors, EnterNode(e) PROVE Stopping'
  BY <1>19, SMTT(60)
     DEF EnterNode, Stopping, OneLateNode, Cancelling, RowsOK, HistoryOK,
         ActorsOK, WorkerPC, RequestPC, ExecutorPC
<1>20. ASSUME NEW e \in Executors, FenceHit(e) PROVE Stopping'
  BY <1>20, SMTT(60)
     DEF FenceHit, Stopping, OneLateNode, Cancelling, RowsOK, HistoryOK,
         ActorsOK, WorkerPC, RequestPC, ExecutorPC
<1>21. ASSUME NEW e \in Executors, RunNode(e) PROVE Stopping'
  BY <1>21, SMTT(60)
     DEF RunNode, Stopping, OneLateNode, Cancelling, RowsOK, HistoryOK,
         ActorsOK, WorkerPC, RequestPC, ExecutorPC
<1>22. ASSUME NEW e \in Executors, Park(e) PROVE Stopping'
  BY <1>22, SMTT(60)
     DEF Park, Stopping, OneLateNode, Cancelling, RowsOK, HistoryOK,
         ActorsOK, WorkerPC, RequestPC, ExecutorPC
<1>23. ASSUME NEW e \in Executors, Succeed(e) PROVE Stopping'
  BY <1>23, SMTT(60)
     DEF Succeed, Stopping, OneLateNode, Cancelling, RowsOK, HistoryOK,
         ActorsOK, WorkerPC, RequestPC, ExecutorPC
<1>24. ASSUME NEW e \in Executors, CancelRun(e) PROVE Stopping'
  BY <1>24, SMTT(60)
     DEF CancelRun, Stopping, OneLateNode, Cancelling, RowsOK, HistoryOK,
         ActorsOK, WorkerPC, RequestPC, ExecutorPC
<1>25. ASSUME NEW e \in Executors, Raised(e) PROVE Stopping'
  BY <1>25, SMTT(60)
     DEF Raised, Stopping, OneLateNode, Cancelling, RowsOK, HistoryOK,
         ActorsOK, WorkerPC, RequestPC, ExecutorPC
<1>26. ASSUME NEW e \in Executors, FailRun(e) PROVE Stopping'
  BY <1>26, SMTT(60)
     DEF FailRun, Stopping, OneLateNode, Cancelling, RowsOK, HistoryOK,
         ActorsOK, WorkerPC, RequestPC, ExecutorPC
<1>27. ASSUME NEW a \in Submitters, SubmitRun(a) PROVE Stopping'
  BY <1>27, SMTT(60)
     DEF SubmitRun, Stopping, OneLateNode, Cancelling, RowsOK, HistoryOK,
         ActorsOK, WorkerPC, RequestPC, ExecutorPC
<1>28. ASSUME NEW a \in Submitters, Enqueue(a) PROVE Stopping'
  BY <1>28, SMTT(60)
     DEF Enqueue, NewItem, Row, Up, Stopping, OneLateNode, Cancelling,
         RowsOK, HistoryOK, ActorsOK, WorkerPC, RequestPC, ExecutorPC
<1>29. ASSUME NEW a \in Runners, RunNow(a) PROVE Stopping'
  BY <1>29, SMTT(60)
     DEF RunNow, Stopping, OneLateNode, Cancelling, RowsOK, HistoryOK,
         ActorsOK, WorkerPC, RequestPC, ExecutorPC
<1>30. ASSUME NEW a \in Cancellers, CancelLoad(a) PROVE Stopping'
  BY <1>30, SMTT(60)
     DEF CancelLoad, Stopping, OneLateNode, Cancelling, RowsOK, HistoryOK,
         ActorsOK, WorkerPC, RequestPC, ExecutorPC
<1>31. ASSUME NEW a \in Cancellers, CancelCommit(a) PROVE Stopping'
  BY <1>31, SMTT(60)
     DEF CancelCommit, Stopping, OneLateNode, Cancelling, RowsOK, HistoryOK,
         ActorsOK, WorkerPC, RequestPC, ExecutorPC
<1>32. ASSUME NEW a \in Cancellers, CancelItemLoad(a) PROVE Stopping'
  BY <1>32, SMTT(60)
     DEF CancelItemLoad, Stopping, OneLateNode, Cancelling, RowsOK,
         HistoryOK, ActorsOK, WorkerPC, RequestPC, ExecutorPC
<1>33. ASSUME NEW a \in Cancellers, CancelItemCommit(a) PROVE Stopping'
  BY <1>33, SMTT(60)
     DEF CancelItemCommit, Stopping, OneLateNode, Cancelling, RowsOK,
         HistoryOK, ActorsOK, WorkerPC, RequestPC, ExecutorPC
<1>34. ASSUME NEW a \in Resumers, ResumeLoad(a) PROVE Stopping'
  BY <1>34, SMTT(60)
     DEF ResumeLoad, Stopping, OneLateNode, Cancelling, RowsOK, HistoryOK,
         ActorsOK, WorkerPC, RequestPC, ExecutorPC
<1>35. ASSUME NEW a \in Resumers, ResumeCheck(a) PROVE Stopping'
  BY <1>35, SMTT(60)
     DEF ResumeCheck, Stopping, OneLateNode, Cancelling, RowsOK, HistoryOK,
         ActorsOK, WorkerPC, RequestPC, ExecutorPC
<1>36. ASSUME NEW a \in Resumers, Redo(a) PROVE Stopping'
  BY <1>36, SMTT(60)
     DEF Redo, Stopping, OneLateNode, Cancelling, RowsOK, HistoryOK,
         ActorsOK, WorkerPC, RequestPC, ExecutorPC
<1>37. ASSUME NEW a \in Requests, Abandon(a) PROVE Stopping'
  BY <1>37, SMTT(60)
     DEF Abandon, Stopping, OneLateNode, Cancelling, RowsOK, HistoryOK,
         ActorsOK, WorkerPC, RequestPC, ExecutorPC
<1>38. ASSUME NEW r \in Runs, LeaseExpires(r) PROVE Stopping'
  BY <1>38, SMTT(60)
     DEF LeaseExpires, Stopping, OneLateNode, Cancelling, RowsOK, HistoryOK,
         ActorsOK, WorkerPC, RequestPC, ExecutorPC
<1>39. ASSUME NEW r \in Runs, BackoffElapses(r) PROVE Stopping'
  BY <1>39, SMTT(60)
     DEF BackoffElapses, Stopping, OneLateNode, Cancelling, RowsOK,
         HistoryOK, ActorsOK, WorkerPC, RequestPC, ExecutorPC
<1>40. ASSUME NEW r \in Runs, PayloadExpires(r) PROVE Stopping'
  BY <1>40, SMTT(60)
     DEF PayloadExpires, Stopping, OneLateNode, Cancelling, RowsOK,
         HistoryOK, ActorsOK, WorkerPC, RequestPC, ExecutorPC
<1>41. ASSUME UNCHANGED vars PROVE Stopping'
  BY <1>41 DEF vars, Stopping, OneLateNode, Holds
<1> QED
  BY <1>1, <1>2, <1>3, <1>4, <1>5, <1>6, <1>7, <1>8, <1>9, <1>10, 
     <1>11, <1>12, <1>13, <1>14, <1>15, <1>16, <1>17, <1>18, 
     <1>19, <1>20, <1>21, <1>22, <1>23, <1>24, <1>25, <1>26, 
     <1>27, <1>28, <1>29, <1>30, <1>31, <1>32, <1>33, <1>34, 
     <1>35, <1>36, <1>37, <1>38, <1>39, <1>40, <1>41
  DEF Next, Work, Execute, Submit, Cancel, Resume, Start, Retry

(* While a run is being cancelled an executor enters at most one more node  *)
(* of it.                                                                   *)
THEOREM OneLateNodeCorrect == Spec => []OneLateNode
<1>1. Init => Stopping
  BY DEF Init, Stopping, OneLateNode
<1>2. TInv /\ Stopping /\ [Next]_vars => Stopping'
  BY StoppingStep
<1>3. Stopping => OneLateNode
  BY DEF Stopping
<1> QED BY <1>1, <1>2, <1>3, Typed, PTL DEF Spec

(***************************************************************************)
(* The queue: one worker for a run, and a bounded number of deliveries.    *)
(***************************************************************************)

(* Whoever works on a run works on an accepted one. *)
RunsExist ==
    /\ \A r \in Runs : run[r] = "none" => item[r].status = "none"
    /\ \A a \in Actors : job[a] \in Runs => run[job[a]] # "none"

(* Whoever is about to write a queue row writes one that is there. *)
ItemsExist ==
    /\ \A w \in Workers : job[w] \in Runs => item[job[w]].status # "none"
    /\ \A a \in Cancellers :
          pc[a] \in {"drop", "drop_leased"} => item[job[a]].status # "none"
    /\ \A w \in Workers, r \in Runs :
          plan[w][r].item # "keep" => item[r].status # "none"

(* A run is enqueued once: by the request that created it, and no other. *)
CreationsApart ==
    /\ \A a \in Submitters : pc[a] = "created" => item[job[a]].status = "none"
    /\ \A a, b \in Submitters :
          pc[a] = "created" /\ pc[b] = "created" /\ job[a] = job[b] => a = b

Linked == RunsExist /\ ItemsExist /\ CreationsApart

(* A worker has the run to itself, and as long as it has it the queue       *)
(* neither hands the run out nor takes it for stale.                        *)
Owned ==
    /\ OneHolder
    /\ \A w \in Workers :
          job[w] \in Runs \ torn =>
              /\ item[job[w]].status \notin {"queued", "failed"}
              /\ item[job[w]].lease # "expired"

(* An item that can be claimed again has an attempt left. *)
Counted ==
    /\ \A r \in Runs \ torn :
          /\ item[r].attempts <= MaxAttempts
          /\ item[r].status \in {"queued", "failed"} => item[r].attempts < MaxAttempts
    /\ \A w \in Workers :
          pc[w] = "retry" /\ job[w] \notin torn => item[job[w]].attempts < MaxAttempts

(* The steps that leave the queue aside: they change no queue row and no    *)
(* plan, take up no run, and put nobody in front of a write to a queue row. *)
Aside ==
    \/ \E w \in Workers :
          \/ LoadRun(w) \/ OpenRun(w) \/ Begin(w) \/ QueueError(w)
          \/ BuryLoad(w) \/ BuryRun(w) \/ DrainEnds(w) \/ LoopDies(w)
    \/ \E e \in Executors : Execute(e)
    \/ \E a \in Cancellers : CancelCommit(a)
    \/ \E a \in Resumers : ResumeCheck(a) \/ Redo(a)
    \/ \E a \in Requests : Abandon(a)
    \/ UNCHANGED vars

Quiet ==
    /\ UNCHANGED <<item, plan, torn>>
    /\ \A r \in Runs : run[r] # "none" => run'[r] # "none"
    /\ \A x \in Actors : job'[x] \in {job[x], NoRun}
    /\ \A x \in Actors :
          pc'[x] \in {"created", "drop", "drop_leased", "retry"} =>
              pc'[x] = pc[x] /\ job'[x] = job[x]

(* Such a step is quiet for the queue. *)
LEMMA AsideIsQuiet == ASSUME TInv, Aside PROVE Quiet
<1> USE ConstantsAssumption
    DEF TInv, Requests, Executors, Actors, Goto, Leave, Return, UpdateRun, CreateRun, Fault,
           Holds, queueVars, historyVars
<1>1. ASSUME NEW w \in Workers, LoadRun(w) PROVE Quiet
  BY <1>1, SMTT(60)
     DEF LoadRun, Quiet, RowsOK, ActorsOK, WorkerPC, RequestPC, ExecutorPC
<1>2. ASSUME NEW w \in Workers, OpenRun(w) PROVE Quiet
  BY <1>2, SMTT(60)
     DEF OpenRun, Quiet, RowsOK, ActorsOK, WorkerPC, RequestPC, ExecutorPC
<1>3. ASSUME NEW w \in Workers, Begin(w) PROVE Quiet
  BY <1>3, SMTT(60)
     DEF Begin, Quiet, RowsOK, ActorsOK, WorkerPC, RequestPC, ExecutorPC
<1>4. ASSUME NEW w \in Workers, QueueError(w) PROVE Quiet
  BY <1>4, SMTT(60)
     DEF QueueError, Quiet, RowsOK, ActorsOK, WorkerPC, RequestPC,
         ExecutorPC
<1>5. ASSUME NEW w \in Workers, BuryLoad(w) PROVE Quiet
  BY <1>5, SMTT(60)
     DEF BuryLoad, Quiet, RowsOK, ActorsOK, WorkerPC, RequestPC, ExecutorPC
<1>6. ASSUME NEW w \in Workers, BuryRun(w) PROVE Quiet
  BY <1>6, SMTT(60)
     DEF BuryRun, Quiet, RowsOK, ActorsOK, WorkerPC, RequestPC, ExecutorPC
<1>7. ASSUME NEW w \in Workers, DrainEnds(w) PROVE Quiet
  BY <1>7, SMTT(60)
     DEF DrainEnds, Quiet, RowsOK, ActorsOK, WorkerPC, RequestPC, ExecutorPC
<1>8. ASSUME NEW w \in Workers, LoopDies(w) PROVE Quiet
  BY <1>8, SMTT(60)
     DEF LoopDies, Quiet, RowsOK, ActorsOK, WorkerPC, RequestPC, ExecutorPC
<1>9. ASSUME NEW e \in Executors, Check(e) PROVE Quiet
  BY <1>9, SMTT(60)
     DEF Check, Quiet, RowsOK, ActorsOK, WorkerPC, RequestPC, ExecutorPC
<1>10. ASSUME NEW e \in Executors, EnterNode(e) PROVE Quiet
  BY <1>10, SMTT(60)
     DEF EnterNode, Quiet, RowsOK, ActorsOK, WorkerPC, RequestPC, ExecutorPC
<1>11. ASSUME NEW e \in Executors, FenceHit(e) PROVE Quiet
  BY <1>11, SMTT(60)
     DEF FenceHit, Quiet, RowsOK, ActorsOK, WorkerPC, RequestPC, ExecutorPC
<1>12. ASSUME NEW e \in Executors, RunNode(e) PROVE Quiet
  BY <1>12, SMTT(60)
     DEF RunNode, Quiet, RowsOK, ActorsOK, WorkerPC, RequestPC, ExecutorPC
<1>13. ASSUME NEW e \in Executors, Park(e) PROVE Quiet
  BY <1>13, SMTT(60)
     DEF Park, Quiet, RowsOK, ActorsOK, WorkerPC, RequestPC, ExecutorPC
<1>14. ASSUME NEW e \in Executors, Succeed(e) PROVE Quiet
  BY <1>14, SMTT(60)
     DEF Succeed, Quiet, RowsOK, ActorsOK, WorkerPC, RequestPC, ExecutorPC
<1>15. ASSUME NEW e \in Executors, CancelRun(e) PROVE Quiet
  BY <1>15, SMTT(60)
     DEF CancelRun, Quiet, RowsOK, ActorsOK, WorkerPC, RequestPC, ExecutorPC
<1>16. ASSUME NEW e \in Executors, Raised(e) PROVE Quiet
  BY <1>16, SMTT(60)
     DEF Raised, Quiet, RowsOK, ActorsOK, WorkerPC, RequestPC, ExecutorPC
<1>17. ASSUME NEW e \in Executors, FailRun(e) PROVE Quiet
  BY <1>17, SMTT(60)
     DEF FailRun, Quiet, RowsOK, ActorsOK, WorkerPC, RequestPC, ExecutorPC
<1>18. ASSUME NEW a \in Cancellers, CancelCommit(a) PROVE Quiet
  BY <1>18, SMTT(60)
     DEF CancelCommit, Quiet, RowsOK, ActorsOK, WorkerPC, RequestPC,
         ExecutorPC
<1>19. ASSUME NEW a \in Resumers, ResumeCheck(a) PROVE Quiet
  BY <1>19, SMTT(60)
     DEF ResumeCheck, Quiet, RowsOK, ActorsOK, WorkerPC, RequestPC,
         ExecutorPC
<1>20. ASSUME NEW a \in Resumers, Redo(a) PROVE Quiet
  BY <1>20, SMTT(60)
     DEF Redo, Quiet, RowsOK, ActorsOK, WorkerPC, RequestPC, ExecutorPC
<1>21. ASSUME NEW a \in Requests, Abandon(a) PROVE Quiet
  BY <1>21, SMTT(60)
     DEF Abandon, Quiet, RowsOK, ActorsOK, WorkerPC, RequestPC, ExecutorPC
<1>22. ASSUME UNCHANGED vars PROVE Quiet
  BY <1>22 DEF vars, Quiet, ActorsOK, RowsOK
<1> QED
  BY <1>1, <1>2, <1>3, <1>4, <1>5, <1>6, <1>7, <1>8, <1>9, <1>10, 
     <1>11, <1>12, <1>13, <1>14, <1>15, <1>16, <1>17, <1>18, 
     <1>19, <1>20, <1>21, <1>22
  DEF Aside, Execute

(* Every step preserves Linked. *)
LEMMA LinkedStep ==
    ASSUME TInv, Linked, [Next]_vars PROVE Linked'
<1> USE ConstantsAssumption
    DEF TInv, Requests, Executors, Actors, Goto, Leave, Return, UpdateRun, CreateRun, Fault,
           Holds, queueVars, historyVars
<1>1. ASSUME Aside PROVE Linked'
  <2>1. Quiet
    BY <1>1, AsideIsQuiet
  <2> QED BY <2>1
     DEF Quiet, Linked, RunsExist, ItemsExist, CreationsApart, ActorsOK,
         RequestPC
<1>2. ASSUME NEW w \in Workers, Claim(w) PROVE Linked'
  <2>1. PICK r \in Runs :
           /\ Claimable(r)
           /\ item' = [item EXCEPT ![r].status = "leased", ![r].attempts = @ + 1,
                                  ![r].lease = "live"]
           /\ job' = [job EXCEPT ![w] = r]
    BY <1>2 DEF Claim
  <2>2. item[r].status \in {"queued", "failed"} /\ run[r] # "none"
    BY <2>1 DEF Claimable, Linked, RunsExist
  <2>3. item'[r].status = "leased" /\ (\A q \in Runs : q # r => item'[q] = item[q])
    BY <2>1 DEF RowsOK, Items
  <2>4. UNCHANGED <<run, plan>> /\ (\A x \in Requests : pc'[x] = pc[x] /\ job'[x] = job[x])
    BY <1>2, <2>1 DEF Claim, ActorsOK
  <2>5. \A x \in Workers : job'[x] \in {job[x], r}
    BY <2>1 DEF ActorsOK
  <2>6. RunsExist'
    BY <2>2, <2>3, <2>4, <2>5 DEF Linked, RunsExist
  <2>7. ItemsExist'
    <3>1. \A q \in Runs : item[q].status # "none" => item'[q].status # "none"
      BY <2>3
    <3>2. \A x \in Workers : job'[x] \in Runs => item'[job'[x]].status # "none"
      BY <2>3, <2>5, <3>1 DEF Linked, ItemsExist
    <3>3. \A x \in Cancellers :
             pc'[x] \in {"drop", "drop_leased"} => item'[job'[x]].status # "none"
      BY <2>4, <3>1 DEF Linked, ItemsExist, ActorsOK, RequestPC
    <3>4. \A x \in Workers, q \in Runs :
             plan'[x][q].item # "keep" => item'[q].status # "none"
      BY <2>4, <3>1 DEF Linked, ItemsExist
    <3> QED BY <3>2, <3>3, <3>4 DEF ItemsExist
  <2>8. CreationsApart'
    BY <2>2, <2>3, <2>4 DEF Linked, CreationsApart, ActorsOK, RequestPC
  <2> QED BY <2>6, <2>7, <2>8 DEF Linked
<1>3. ASSUME NEW w \in Workers, MarkRunning(w) PROVE Linked'
  BY <1>3, SMTT(60)
     DEF MarkRunning, Linked, RunsExist, ItemsExist, CreationsApart, RowsOK,
         SystemOK, ActorsOK, WorkerPC, RequestPC, ExecutorPC
<1>4. ASSUME NEW w \in Workers, Settle(w) PROVE Linked'
  <2>1. job[w] \in Runs /\ item \in [Runs -> Items]
    BY <1>4 DEF Settle, ActorsOK, RowsOK, WorkerPC
  <2>2. \A q \in Runs : item[q].status # "none" => item'[q].status # "none"
    BY <1>4, <2>1 DEF Settle, Items
  <2>3. \A q \in Runs : q # job[w] => item'[q] = item[q]
    BY <1>4, <2>1 DEF Settle, Items
  <2>4. UNCHANGED <<run, plan>> /\ (\A x \in Actors : job'[x] \in {job[x], NoRun})
    BY <1>4 DEF Settle, ActorsOK
  <2>5. \A x \in Requests : pc'[x] = pc[x] /\ job'[x] = job[x]
    BY <1>4 DEF Settle, ActorsOK
  <2>6. RunsExist'
    BY <2>1, <2>3, <2>4, <1>4
       DEF Settle, Linked, RunsExist, ItemsExist, ActorsOK, WorkerPC
  <2>7. ItemsExist'
    BY <2>2, <2>4, <2>5 DEF Linked, ItemsExist, ActorsOK, RequestPC
  <2>8. CreationsApart'
    BY <2>1, <2>3, <2>4, <2>5, SMTT(60)
       DEF Linked, ItemsExist, CreationsApart, ActorsOK
  <2> QED BY <2>6, <2>7, <2>8 DEF Linked
<1>5. ASSUME NEW w \in Workers, FailLoad(w) PROVE Linked'
  BY <1>5, SMTT(60)
     DEF FailLoad, Linked, RunsExist, ItemsExist, CreationsApart, RowsOK,
         SystemOK, ActorsOK, WorkerPC, RequestPC, ExecutorPC
<1>6. ASSUME NEW w \in Workers, RetryItem(w) PROVE Linked'
  <2>1. job[w] \in Runs /\ item \in [Runs -> Items]
    BY <1>6 DEF RetryItem, ActorsOK, RowsOK, WorkerPC
  <2>2. \A q \in Runs : item[q].status # "none" => item'[q].status # "none"
    BY <1>6, <2>1 DEF RetryItem, Items
  <2>3. \A q \in Runs : q # job[w] => item'[q] = item[q]
    BY <1>6, <2>1 DEF RetryItem, Items
  <2>4. UNCHANGED <<run, plan>> /\ (\A x \in Actors : job'[x] \in {job[x], NoRun})
    BY <1>6 DEF RetryItem, ActorsOK
  <2>5. \A x \in Requests : pc'[x] = pc[x] /\ job'[x] = job[x]
    BY <1>6 DEF RetryItem, ActorsOK
  <2>6. RunsExist'
    BY <2>1, <2>3, <2>4, <1>6
       DEF RetryItem, Linked, RunsExist, ItemsExist, ActorsOK, WorkerPC
  <2>7. ItemsExist'
    BY <2>2, <2>4, <2>5 DEF Linked, ItemsExist, ActorsOK, RequestPC
  <2>8. CreationsApart'
    BY <2>1, <2>3, <2>4, <2>5, SMTT(60)
       DEF Linked, ItemsExist, CreationsApart, ActorsOK
  <2> QED BY <2>6, <2>7, <2>8 DEF Linked
<1>7. ASSUME NEW w \in Workers, BuryItem(w) PROVE Linked'
  <2>1. job[w] \in Runs /\ item \in [Runs -> Items]
    BY <1>7 DEF BuryItem, ActorsOK, RowsOK, WorkerPC
  <2>2. \A q \in Runs : item[q].status # "none" => item'[q].status # "none"
    BY <1>7, <2>1 DEF BuryItem, Items
  <2>3. \A q \in Runs : q # job[w] => item'[q] = item[q]
    BY <1>7, <2>1 DEF BuryItem, Items
  <2>4. UNCHANGED <<run, plan>> /\ (\A x \in Actors : job'[x] \in {job[x], NoRun})
    BY <1>7 DEF BuryItem, ActorsOK
  <2>5. \A x \in Requests : pc'[x] = pc[x] /\ job'[x] = job[x]
    BY <1>7 DEF BuryItem, ActorsOK
  <2>6. RunsExist'
    BY <2>1, <2>3, <2>4, <1>7
       DEF BuryItem, Linked, RunsExist, ItemsExist, ActorsOK, WorkerPC
  <2>7. ItemsExist'
    BY <2>2, <2>4, <2>5 DEF Linked, ItemsExist, ActorsOK, RequestPC
  <2>8. CreationsApart'
    BY <2>1, <2>3, <2>4, <2>5, SMTT(60)
       DEF Linked, ItemsExist, CreationsApart, ActorsOK
  <2> QED BY <2>6, <2>7, <2>8 DEF Linked
<1>8. ASSUME NEW w \in Workers, StartLoad(w) PROVE Linked'
  BY <1>8, SMTT(60)
     DEF StartLoad, Outcome, Stale, Keep, Linked, RunsExist, ItemsExist,
         CreationsApart, RowsOK, SystemOK, ActorsOK, WorkerPC, RequestPC,
         ExecutorPC
<1>9. ASSUME NEW w \in Workers, StartCommit(w) PROVE Linked'
  <2>1. ASSUME NEW r \in Runs
        PROVE  /\ run'[r] \in {run[r], "queued", "failed", "cancelled"}
               /\ \/ item'[r] = item[r] /\ plan[w][r].item = "keep"
                  \/ plan[w][r].item # "keep" /\ item'[r].status # "none"
    BY <1>9, Reconciliation DEF Settled
  <2>2. UNCHANGED <<pc, job>>
    BY <1>9 DEF StartCommit
  <2>3. \A v \in Workers, r \in Runs :
           plan'[v][r].item # "keep" => plan[v][r].item # "keep"
    BY <1>9, SMTT(60) DEF StartCommit, Keep, SystemOK
  <2>4. RunsExist'
    BY <2>1, <2>2, SMTT(60) DEF Linked, RunsExist, ItemsExist
  <2>5. ItemsExist'
    BY <2>1, <2>2, <2>3, SMTT(60) DEF Linked, ItemsExist, ActorsOK, RequestPC
  <2>6. CreationsApart'
    BY <2>1, <2>2, SMTT(60) DEF Linked, ItemsExist, CreationsApart, ActorsOK
  <2> QED BY <2>4, <2>5, <2>6 DEF Linked
<1>10. ASSUME NEW w \in Workers, Crash(w) PROVE Linked'
  BY <1>10, SMTT(60)
     DEF Crash, Keep, Linked, RunsExist, ItemsExist, CreationsApart, RowsOK,
         SystemOK, ActorsOK, WorkerPC, RequestPC, ExecutorPC
<1>11. ASSUME NEW a \in Submitters, SubmitRun(a) PROVE Linked'
  BY <1>11, SMTT(60)
     DEF SubmitRun, Linked, RunsExist, ItemsExist, CreationsApart, RowsOK,
         SystemOK, ActorsOK, WorkerPC, RequestPC, ExecutorPC
<1>12. ASSUME NEW a \in Submitters, Enqueue(a) PROVE Linked'
  BY <1>12, SMTT(60)
     DEF Enqueue, NewItem, Row, Up, Linked, RunsExist, ItemsExist,
         CreationsApart, RowsOK, SystemOK, ActorsOK, WorkerPC, RequestPC,
         ExecutorPC
<1>13. ASSUME NEW a \in Runners, RunNow(a) PROVE Linked'
  BY <1>13, SMTT(60)
     DEF RunNow, Linked, RunsExist, ItemsExist, CreationsApart, RowsOK,
         SystemOK, ActorsOK, WorkerPC, RequestPC, ExecutorPC
<1>14. ASSUME NEW a \in Cancellers, CancelLoad(a) PROVE Linked'
  BY <1>14, SMTT(60)
     DEF CancelLoad, Linked, RunsExist, ItemsExist, CreationsApart, RowsOK,
         SystemOK, ActorsOK, WorkerPC, RequestPC, ExecutorPC
<1>15. ASSUME NEW a \in Cancellers, CancelItemLoad(a) PROVE Linked'
  <2>1. UNCHANGED <<item, plan, run>> /\ (\A x \in Actors : job'[x] \in {job[x], NoRun})
    BY <1>15 DEF CancelItemLoad, ActorsOK
  <2>2. \A x \in Cancellers \cup Submitters :
           pc'[x] \in {"drop", "drop_leased", "created"} =>
               /\ job'[x] = job[x]
               /\ \/ pc'[x] = pc[x]
                  \/ x \in Cancellers /\ item[job[x]].status # "none"
    BY <1>15, SMTT(60) DEF CancelItemLoad, ActorsOK
  <2>3. RunsExist'
    BY <2>1 DEF Linked, RunsExist
  <2>4. ItemsExist'
    BY <2>1, <2>2 DEF Linked, ItemsExist
  <2>5. CreationsApart'
    BY <2>1, <2>2 DEF Linked, CreationsApart
  <2> QED BY <2>3, <2>4, <2>5 DEF Linked
<1>16. ASSUME NEW a \in Cancellers, CancelItemCommit(a) PROVE Linked'
  <2>1. job[a] \in Runs /\ item \in [Runs -> Items] /\ item[job[a]].status # "none"
    BY <1>16
       DEF CancelItemCommit, ActorsOK, RowsOK, RequestPC, Linked, ItemsExist
  <2>2. /\ item'[job[a]].status # "none"
        /\ \A q \in Runs : q # job[a] => item'[q] = item[q]
    BY <1>16, <2>1 DEF CancelItemCommit, Items
  <2>3. \A q \in Runs : item[q].status # "none" => item'[q].status # "none"
    BY <2>2
  <2>4. UNCHANGED <<run, plan>> /\ (\A x \in Actors : job'[x] \in {job[x], NoRun})
    BY <1>16 DEF CancelItemCommit, ActorsOK
  <2>5. \A x \in Actors :
           pc'[x] \in {"drop", "drop_leased", "created"} =>
               pc'[x] = pc[x] /\ job'[x] = job[x]
    BY <1>16, SMTT(60) DEF CancelItemCommit, ActorsOK
  <2>6. RunsExist'
    BY <2>1, <2>2, <2>4 DEF Linked, RunsExist
  <2>7. ItemsExist'
    BY <2>3, <2>4, <2>5 DEF Linked, ItemsExist, ActorsOK, RequestPC
  <2>8. CreationsApart'
    BY <2>1, <2>2, <2>5 DEF Linked, CreationsApart, ActorsOK, RequestPC
  <2> QED BY <2>6, <2>7, <2>8 DEF Linked
<1>17. ASSUME NEW a \in Resumers, ResumeLoad(a) PROVE Linked'
  BY <1>17, SMTT(60)
     DEF ResumeLoad, Linked, RunsExist, ItemsExist, CreationsApart, RowsOK,
         SystemOK, ActorsOK, WorkerPC, RequestPC, ExecutorPC
<1>18. ASSUME NEW r \in Runs, LeaseExpires(r) PROVE Linked'
  BY <1>18, SMTT(60)
     DEF LeaseExpires, Linked, RunsExist, ItemsExist, CreationsApart,
         RowsOK, SystemOK, ActorsOK, WorkerPC, RequestPC, ExecutorPC
<1>19. ASSUME NEW r \in Runs, BackoffElapses(r) PROVE Linked'
  BY <1>19, SMTT(60)
     DEF BackoffElapses, Linked, RunsExist, ItemsExist, CreationsApart,
         RowsOK, SystemOK, ActorsOK, WorkerPC, RequestPC, ExecutorPC
<1>20. ASSUME NEW r \in Runs, PayloadExpires(r) PROVE Linked'
  BY <1>20, SMTT(60)
     DEF PayloadExpires, Linked, RunsExist, ItemsExist, CreationsApart,
         RowsOK, SystemOK, ActorsOK, WorkerPC, RequestPC, ExecutorPC
<1> QED
  BY <1>1, <1>2, <1>3, <1>4, <1>5, <1>6, <1>7, <1>8, <1>9, <1>10, 
     <1>11, <1>12, <1>13, <1>14, <1>15, <1>16, <1>17, <1>18, 
     <1>19, <1>20
  DEF Next, Work, Execute, Submit, Cancel, Resume, Start, Retry, Aside

(* Every step preserves Owned. *)
LEMMA OwnedStep ==
    ASSUME TInv, Linked, Owned, [Next]_vars PROVE Owned'
<1> USE ConstantsAssumption
    DEF TInv, Requests, Executors, Actors, Goto, Leave, Return, UpdateRun, CreateRun, Fault,
           Holds, queueVars, historyVars
<1>1. ASSUME Aside PROVE Owned'
  <2>1. Quiet
    BY <1>1, AsideIsQuiet
  <2> QED BY <2>1 DEF Quiet, Owned, OneHolder, ActorsOK
<1>2. ASSUME NEW w \in Workers, Claim(w) PROVE Owned'
  BY <1>2, SMTT(60)
     DEF Claim, Claimable, Owned, OneHolder, Linked, RunsExist, ItemsExist,
         CreationsApart, RowsOK, ActorsOK, WorkerPC, RequestPC, ExecutorPC
<1>3. ASSUME NEW w \in Workers, MarkRunning(w) PROVE Owned'
  BY <1>3, SMTT(60)
     DEF MarkRunning, Owned, OneHolder, Linked, RunsExist, ItemsExist,
         CreationsApart, RowsOK, ActorsOK, WorkerPC, RequestPC, ExecutorPC
<1>4. ASSUME NEW w \in Workers, Settle(w) PROVE Owned'
  BY <1>4, SMTT(60)
     DEF Settle, Owned, OneHolder, Linked, RunsExist, ItemsExist,
         CreationsApart, RowsOK, ActorsOK, WorkerPC, RequestPC, ExecutorPC
<1>5. ASSUME NEW w \in Workers, FailLoad(w) PROVE Owned'
  BY <1>5, SMTT(60)
     DEF FailLoad, Owned, OneHolder, Linked, RunsExist, ItemsExist,
         CreationsApart, RowsOK, ActorsOK, WorkerPC, RequestPC, ExecutorPC
<1>6. ASSUME NEW w \in Workers, RetryItem(w) PROVE Owned'
  BY <1>6, SMTT(60)
     DEF RetryItem, Owned, OneHolder, Linked, RunsExist, ItemsExist,
         CreationsApart, RowsOK, ActorsOK, WorkerPC, RequestPC, ExecutorPC
<1>7. ASSUME NEW w \in Workers, BuryItem(w) PROVE Owned'
  BY <1>7, SMTT(60)
     DEF BuryItem, Owned, OneHolder, Linked, RunsExist, ItemsExist,
         CreationsApart, RowsOK, ActorsOK, WorkerPC, RequestPC, ExecutorPC
<1>8. ASSUME NEW w \in Workers, StartLoad(w) PROVE Owned'
  BY <1>8, SMTT(60)
     DEF StartLoad, Outcome, Stale, Keep, Owned, OneHolder, Linked,
         RunsExist, ItemsExist, CreationsApart, RowsOK, ActorsOK, WorkerPC,
         RequestPC, ExecutorPC
<1>9. ASSUME NEW w \in Workers, StartCommit(w) PROVE Owned'
  <2>1. ASSUME NEW r \in Runs, r \notin torn'
        PROVE  /\ r \notin torn
               /\ \/ item'[r] = item[r]
                  \/ /\ item[r].lease = "expired"
                     /\ item'[r].attempts = item[r].attempts
                     /\ item'[r].status = "queued" => item[r].attempts < MaxAttempts
                     /\ item'[r].status \in {"queued"} \cup Settled
    BY <1>9, <2>1, Reconciliation DEF Stale
  <2>2. UNCHANGED <<pc, job>>
    BY <1>9 DEF StartCommit
  <2> QED BY <2>1, <2>2, SMTT(60) DEF Owned, OneHolder, ActorsOK
<1>10. ASSUME NEW w \in Workers, Crash(w) PROVE Owned'
  BY <1>10, SMTT(60)
     DEF Crash, Keep, Owned, OneHolder, Linked, RunsExist, ItemsExist,
         CreationsApart, RowsOK, ActorsOK, WorkerPC, RequestPC, ExecutorPC
<1>11. ASSUME NEW a \in Submitters, SubmitRun(a) PROVE Owned'
  BY <1>11, SMTT(60)
     DEF SubmitRun, Owned, OneHolder, Linked, RunsExist, ItemsExist,
         CreationsApart, RowsOK, ActorsOK, WorkerPC, RequestPC, ExecutorPC
<1>12. ASSUME NEW a \in Submitters, Enqueue(a) PROVE Owned'
  BY <1>12, SMTT(60)
     DEF Enqueue, NewItem, Row, Up, Owned, OneHolder, Linked, RunsExist,
         ItemsExist, CreationsApart, RowsOK, ActorsOK, WorkerPC, RequestPC,
         ExecutorPC
<1>13. ASSUME NEW a \in Runners, RunNow(a) PROVE Owned'
  BY <1>13, SMTT(60)
     DEF RunNow, Owned, OneHolder, Linked, RunsExist, ItemsExist,
         CreationsApart, RowsOK, ActorsOK, WorkerPC, RequestPC, ExecutorPC
<1>14. ASSUME NEW a \in Cancellers, CancelLoad(a) PROVE Owned'
  BY <1>14, SMTT(60)
     DEF CancelLoad, Owned, OneHolder, Linked, RunsExist, ItemsExist,
         CreationsApart, RowsOK, ActorsOK, WorkerPC, RequestPC, ExecutorPC
<1>15. ASSUME NEW a \in Cancellers, CancelItemLoad(a) PROVE Owned'
  BY <1>15, SMTT(60)
     DEF CancelItemLoad, Owned, OneHolder, Linked, RunsExist, ItemsExist,
         CreationsApart, RowsOK, ActorsOK, WorkerPC, RequestPC, ExecutorPC
<1>16. ASSUME NEW a \in Cancellers, CancelItemCommit(a) PROVE Owned'
  BY <1>16, SMTT(60)
     DEF CancelItemCommit, Owned, OneHolder, Linked, RunsExist, ItemsExist,
         CreationsApart, RowsOK, ActorsOK, WorkerPC, RequestPC, ExecutorPC
<1>17. ASSUME NEW a \in Resumers, ResumeLoad(a) PROVE Owned'
  BY <1>17, SMTT(60)
     DEF ResumeLoad, Owned, OneHolder, Linked, RunsExist, ItemsExist,
         CreationsApart, RowsOK, ActorsOK, WorkerPC, RequestPC, ExecutorPC
<1>18. ASSUME NEW r \in Runs, LeaseExpires(r) PROVE Owned'
  BY <1>18, SMTT(60)
     DEF LeaseExpires, Owned, OneHolder, Linked, RunsExist, ItemsExist,
         CreationsApart, RowsOK, ActorsOK, WorkerPC, RequestPC, ExecutorPC
<1>19. ASSUME NEW r \in Runs, BackoffElapses(r) PROVE Owned'
  BY <1>19, SMTT(60)
     DEF BackoffElapses, Owned, OneHolder, Linked, RunsExist, ItemsExist,
         CreationsApart, RowsOK, ActorsOK, WorkerPC, RequestPC, ExecutorPC
<1>20. ASSUME NEW r \in Runs, PayloadExpires(r) PROVE Owned'
  BY <1>20, SMTT(60)
     DEF PayloadExpires, Owned, OneHolder, Linked, RunsExist, ItemsExist,
         CreationsApart, RowsOK, ActorsOK, WorkerPC, RequestPC, ExecutorPC
<1> QED
  BY <1>1, <1>2, <1>3, <1>4, <1>5, <1>6, <1>7, <1>8, <1>9, <1>10, 
     <1>11, <1>12, <1>13, <1>14, <1>15, <1>16, <1>17, <1>18, 
     <1>19, <1>20
  DEF Next, Work, Execute, Submit, Cancel, Resume, Start, Retry, Aside

(* Every step preserves Counted. *)
LEMMA CountedStep ==
    ASSUME TInv, Linked, Owned, Counted, [Next]_vars PROVE Counted'
<1> USE ConstantsAssumption
    DEF TInv, Requests, Executors, Actors, Goto, Leave, Return, UpdateRun, CreateRun, Fault,
           Holds, queueVars, historyVars
<1>1. ASSUME Aside PROVE Counted'
  <2>1. Quiet
    BY <1>1, AsideIsQuiet
  <2> QED BY <2>1 DEF Quiet, Counted, ActorsOK, RowsOK
<1>2. ASSUME NEW w \in Workers, Claim(w) PROVE Counted'
  <2>1. PICK r \in Runs :
           /\ Claimable(r)
           /\ item' = [item EXCEPT ![r].status = "leased", ![r].attempts = @ + 1,
                                  ![r].lease = "live"]
           /\ job' = [job EXCEPT ![w] = r]
    BY <1>2 DEF Claim
  <2>2. \A q \in Runs : item[q] \in Items /\ item[q].attempts \in Nat
    BY DEF RowsOK, Items
  <2> QED BY <1>2, <2>1, <2>2, SMTT(60)
     DEF Claim, Claimable, Owned, OneHolder, Counted, RowsOK, ActorsOK,
         WorkerPC, RequestPC, ExecutorPC
<1>3. ASSUME NEW w \in Workers, MarkRunning(w) PROVE Counted'
  BY <1>3, SMTT(60)
     DEF MarkRunning, Owned, OneHolder, Counted, Linked, RunsExist,
         ItemsExist, CreationsApart, RowsOK, ActorsOK, WorkerPC, RequestPC,
         ExecutorPC
<1>4. ASSUME NEW w \in Workers, Settle(w) PROVE Counted'
  BY <1>4, SMTT(60)
     DEF Settle, Owned, OneHolder, Counted, Linked, RunsExist, ItemsExist,
         CreationsApart, RowsOK, ActorsOK, WorkerPC, RequestPC, ExecutorPC
<1>5. ASSUME NEW w \in Workers, FailLoad(w) PROVE Counted'
  <2>2. \A q \in Runs : item[q] \in Items /\ item[q].attempts \in Nat
    BY DEF RowsOK, Items
  <2> QED BY <1>5, <2>2, SMTT(60)
     DEF FailLoad, Counted, RowsOK, ActorsOK, WorkerPC, RequestPC,
         ExecutorPC
<1>6. ASSUME NEW w \in Workers, RetryItem(w) PROVE Counted'
  BY <1>6, SMTT(60)
     DEF RetryItem, Owned, OneHolder, Counted, Linked, RunsExist,
         ItemsExist, CreationsApart, RowsOK, ActorsOK, WorkerPC, RequestPC,
         ExecutorPC
<1>7. ASSUME NEW w \in Workers, BuryItem(w) PROVE Counted'
  BY <1>7, SMTT(60)
     DEF BuryItem, Owned, OneHolder, Counted, Linked, RunsExist, ItemsExist,
         CreationsApart, RowsOK, ActorsOK, WorkerPC, RequestPC, ExecutorPC
<1>8. ASSUME NEW w \in Workers, StartLoad(w) PROVE Counted'
  BY <1>8, SMTT(60)
     DEF StartLoad, Outcome, Stale, Keep, Owned, OneHolder, Counted, Linked,
         RunsExist, ItemsExist, CreationsApart, RowsOK, ActorsOK, WorkerPC,
         RequestPC, ExecutorPC
<1>9. ASSUME NEW w \in Workers, StartCommit(w) PROVE Counted'
  <2>1. ASSUME NEW r \in Runs, r \notin torn'
        PROVE  /\ r \notin torn
               /\ \/ item'[r] = item[r]
                  \/ /\ item[r].lease = "expired"
                     /\ item'[r].attempts = item[r].attempts
                     /\ item'[r].status = "queued" => item[r].attempts < MaxAttempts
                     /\ item'[r].status \in {"queued"} \cup Settled
    BY <1>9, <2>1, Reconciliation DEF Stale
  <2>2. UNCHANGED <<pc, job>>
    BY <1>9 DEF StartCommit
  <2> QED BY <2>1, <2>2, SMTT(60)
     DEF Settled, Counted, ActorsOK, RowsOK, WorkerPC
<1>10. ASSUME NEW w \in Workers, Crash(w) PROVE Counted'
  BY <1>10, SMTT(60)
     DEF Crash, Keep, Owned, OneHolder, Counted, Linked, RunsExist,
         ItemsExist, CreationsApart, RowsOK, ActorsOK, WorkerPC, RequestPC,
         ExecutorPC
<1>11. ASSUME NEW a \in Submitters, SubmitRun(a) PROVE Counted'
  BY <1>11, SMTT(60)
     DEF SubmitRun, Owned, OneHolder, Counted, Linked, RunsExist,
         ItemsExist, CreationsApart, RowsOK, ActorsOK, WorkerPC, RequestPC,
         ExecutorPC
<1>12. ASSUME NEW a \in Submitters, Enqueue(a) PROVE Counted'
  BY <1>12, SMTT(60)
     DEF Enqueue, NewItem, Row, Up, Owned, OneHolder, Counted, Linked,
         RunsExist, ItemsExist, CreationsApart, RowsOK, ActorsOK, WorkerPC,
         RequestPC, ExecutorPC
<1>13. ASSUME NEW a \in Runners, RunNow(a) PROVE Counted'
  BY <1>13, SMTT(60)
     DEF RunNow, Owned, OneHolder, Counted, Linked, RunsExist, ItemsExist,
         CreationsApart, RowsOK, ActorsOK, WorkerPC, RequestPC, ExecutorPC
<1>14. ASSUME NEW a \in Cancellers, CancelLoad(a) PROVE Counted'
  BY <1>14, SMTT(60)
     DEF CancelLoad, Owned, OneHolder, Counted, Linked, RunsExist,
         ItemsExist, CreationsApart, RowsOK, ActorsOK, WorkerPC, RequestPC,
         ExecutorPC
<1>15. ASSUME NEW a \in Cancellers, CancelItemLoad(a) PROVE Counted'
  BY <1>15, SMTT(60)
     DEF CancelItemLoad, Owned, OneHolder, Counted, Linked, RunsExist,
         ItemsExist, CreationsApart, RowsOK, ActorsOK, WorkerPC, RequestPC,
         ExecutorPC
<1>16. ASSUME NEW a \in Cancellers, CancelItemCommit(a) PROVE Counted'
  BY <1>16, SMTT(60)
     DEF CancelItemCommit, Owned, OneHolder, Counted, Linked, RunsExist,
         ItemsExist, CreationsApart, RowsOK, ActorsOK, WorkerPC, RequestPC,
         ExecutorPC
<1>17. ASSUME NEW a \in Resumers, ResumeLoad(a) PROVE Counted'
  BY <1>17, SMTT(60)
     DEF ResumeLoad, Owned, OneHolder, Counted, Linked, RunsExist,
         ItemsExist, CreationsApart, RowsOK, ActorsOK, WorkerPC, RequestPC,
         ExecutorPC
<1>18. ASSUME NEW r \in Runs, LeaseExpires(r) PROVE Counted'
  BY <1>18, SMTT(60)
     DEF LeaseExpires, Owned, OneHolder, Counted, Linked, RunsExist,
         ItemsExist, CreationsApart, RowsOK, ActorsOK, WorkerPC, RequestPC,
         ExecutorPC
<1>19. ASSUME NEW r \in Runs, BackoffElapses(r) PROVE Counted'
  BY <1>19, SMTT(60)
     DEF BackoffElapses, Owned, OneHolder, Counted, Linked, RunsExist,
         ItemsExist, CreationsApart, RowsOK, ActorsOK, WorkerPC, RequestPC,
         ExecutorPC
<1>20. ASSUME NEW r \in Runs, PayloadExpires(r) PROVE Counted'
  BY <1>20, SMTT(60)
     DEF PayloadExpires, Owned, OneHolder, Counted, Linked, RunsExist,
         ItemsExist, CreationsApart, RowsOK, ActorsOK, WorkerPC, RequestPC,
         ExecutorPC
<1> QED
  BY <1>1, <1>2, <1>3, <1>4, <1>5, <1>6, <1>7, <1>8, <1>9, <1>10, 
     <1>11, <1>12, <1>13, <1>14, <1>15, <1>16, <1>17, <1>18, 
     <1>19, <1>20
  DEF Next, Work, Execute, Submit, Cancel, Resume, Start, Retry, Aside

(* The three together are inductive over the types. *)
LEMMA QueueInvariant == Spec => [](Linked /\ Owned /\ Counted)
<1>1. Init => Linked /\ Owned /\ Counted
  <2> USE ConstantsAssumption DEF Init, Actors, Executors, Requests
  <2>1. Init => Linked
    BY SMTT(60)
       DEF Linked, RunsExist, ItemsExist, CreationsApart, NoItem, Row, Keep
  <2>2. Init => Owned /\ Counted
    BY SMTT(60) DEF Owned, OneHolder, Counted, NoItem, Row
  <2> QED BY <2>1, <2>2
<1>2. TInv /\ (Linked /\ Owned /\ Counted) /\ [Next]_vars
        => (Linked /\ Owned /\ Counted)'
  BY LinkedStep, OwnedStep, CountedStep
<1> QED BY <1>1, <1>2, Typed, PTL DEF Spec

(* A run that is not torn has one worker: claiming, retrying, burying and   *)
(* reconciling after restarts never hand it to a second one.                *)
THEOREM OneHolderCorrect == Spec => []OneHolder
<1>1. Owned => OneHolder
  BY DEF Owned
<1> QED BY <1>1, QueueInvariant, PTL

(* A run that is not torn is handed out at most max_attempts times.         *)
THEOREM AttemptsCorrect == Spec => []AttemptsBounded
<1>1. Linked /\ Owned /\ Counted => AttemptsBounded
  BY DEF Counted, AttemptsBounded
<1> QED BY <1>1, QueueInvariant, PTL

(***************************************************************************)
(* Items and runs: what is settled is over, and what is over stays so.     *)
(***************************************************************************)

(* A run that waits for a worker or has one, and one that does neither.     *)
Alive    == {"queued", "running"}
Finished == {"success", "failed", "pending_approval"}

(* When it writes what it read, StartCommit settles an item only with its run. *)
LEMMA ReconciledRun ==
    ASSUME TInv, NEW w \in Workers, StartCommit(w), NEW r \in Runs, r \notin torn'
    PROVE  /\ r \notin torn
           /\ \/ item'[r] = item[r] /\ run'[r] = run[r]
              \/ /\ Stale(r)
                 /\ item'[r].status \in {"completed", "dead_letter"} => run'[r] \notin Alive
                 /\ item'[r].status = "queued" =>
                       run[r] \in Alive \cup {"none"} /\ run'[r] \in Alive
                 /\ run'[r] \in Alive => item'[r].status = "queued"
                 /\ item'[r].status \in {"queued"} \cup Settled
<1>1. r \notin torn /\ plan[w][r] \in {Keep, Outcome(r)}
  BY DEF StartCommit
<1>2. item[r] \in Items /\ run[r] \in RunStatus
  BY DEF TInv, RowsOK
<1>3. item'[r] = Reconciled(item[r], plan[w][r].item)
  BY DEF StartCommit
<1>4. run'[r] = IF plan[w][r].run = "keep" THEN run[r] ELSE plan[w][r].run
  BY DEF StartCommit
<1>5. CASE plan[w][r] = Keep
  BY <1>1, <1>3, <1>4, <1>5 DEF Keep, Reconciled
<1>6. CASE ~Stale(r) /\ plan[w][r] = Outcome(r)
  BY <1>1, <1>3, <1>4, <1>6 DEF Keep, Outcome, Reconciled
<1>7. CASE Stale(r) /\ plan[w][r] = Outcome(r)
  <2>1. plan[w][r] = Outcome(r) /\ Stale(r)
    BY <1>7
  <2>2. item'[r].status = Outcome(r).item
    BY <1>3, <2>1, <1>2 DEF Outcome, Reconciled, Row
  <2> QED BY <1>1, <2>1, <2>2, <1>4, <1>2
     DEF Outcome, Alive, Settled, Cancelling, Terminal, RunStatus
<1> QED BY <1>1, <1>5, <1>6, <1>7

(* What is settled is over: a completed item has no worker and no live run; *)
(* a worker that goes on to complete its item has reported the run; a dead  *)
(* letter has no worker but the one that buries it.                         *)
Reported ==
    \A r \in Runs \ torn :
        /\ item[r].status = "completed" =>
              run[r] \notin Alive /\ \A w \in Workers : job[w] # r
        /\ item[r].status = "dead_letter" =>
              \A w \in Workers : job[w] = r => pc[w] \in {"bury_run", "bury_write"}
        /\ \A w \in Workers : job[w] = r /\ pc[w] = "settle" => run[r] \notin Alive

(* Every step preserves Reported. *)
LEMMA ReportedStep ==
    ASSUME TInv, Linked, Owned, Reported, [Next]_vars PROVE Reported'
<1> USE ConstantsAssumption
    DEF TInv, Requests, Executors, Actors, Goto, Leave, Return, UpdateRun, CreateRun, Fault,
           Holds, queueVars, historyVars
<1>1. ASSUME NEW w \in Workers, LoadRun(w) PROVE Reported'
  BY <1>1, SMTT(60)
     DEF LoadRun, Reported, Alive, Owned, OneHolder, Linked, RunsExist,
         ItemsExist, CreationsApart, RowsOK, ActorsOK, WorkerPC, RequestPC,
         ExecutorPC
<1>2. ASSUME NEW w \in Workers, OpenRun(w) PROVE Reported'
  BY <1>2, SMTT(60)
     DEF OpenRun, Reported, Alive, Owned, OneHolder, Linked, RunsExist,
         ItemsExist, CreationsApart, RowsOK, ActorsOK, WorkerPC, RequestPC,
         ExecutorPC
<1>3. ASSUME NEW w \in Workers, Begin(w) PROVE Reported'
  BY <1>3, SMTT(60)
     DEF Begin, Reported, Alive, Owned, OneHolder, Linked, RunsExist,
         ItemsExist, CreationsApart, RowsOK, ActorsOK, WorkerPC, RequestPC,
         ExecutorPC
<1>4. ASSUME NEW w \in Workers, QueueError(w) PROVE Reported'
  BY <1>4, SMTT(60)
     DEF QueueError, Reported, Alive, Owned, OneHolder, Linked, RunsExist,
         ItemsExist, CreationsApart, RowsOK, ActorsOK, WorkerPC, RequestPC,
         ExecutorPC
<1>5. ASSUME NEW w \in Workers, BuryLoad(w) PROVE Reported'
  BY <1>5, SMTT(60)
     DEF BuryLoad, Terminal, Reported, Alive, RowsOK, ActorsOK, WorkerPC, ExecutorPC
<1>6. ASSUME NEW w \in Workers, BuryRun(w) PROVE Reported'
  BY <1>6, SMTT(60)
     DEF BuryRun, Reported, Alive, Owned, OneHolder, Linked, RunsExist,
         ItemsExist, CreationsApart, RowsOK, ActorsOK, WorkerPC, RequestPC,
         ExecutorPC
<1>7. ASSUME NEW w \in Workers, DrainEnds(w) PROVE Reported'
  BY <1>7, SMTT(60)
     DEF DrainEnds, Reported, Alive, Owned, OneHolder, Linked, RunsExist,
         ItemsExist, CreationsApart, RowsOK, ActorsOK, WorkerPC, RequestPC,
         ExecutorPC
<1>8. ASSUME NEW w \in Workers, LoopDies(w) PROVE Reported'
  BY <1>8, SMTT(60)
     DEF LoopDies, Reported, Alive, RowsOK, ActorsOK
<1>9. ASSUME NEW w \in Workers, Claim(w) PROVE Reported'
  BY <1>9, SMTT(60)
     DEF Claim, Claimable, Reported, Alive, Owned, OneHolder, Linked,
         RunsExist, ItemsExist, CreationsApart, RowsOK, ActorsOK, WorkerPC,
         RequestPC, ExecutorPC
<1>10. ASSUME NEW w \in Workers, MarkRunning(w) PROVE Reported'
  BY <1>10, SMTT(60)
     DEF MarkRunning, Reported, Alive, Owned, OneHolder, Linked, RunsExist,
         ItemsExist, CreationsApart, RowsOK, ActorsOK, WorkerPC, RequestPC,
         ExecutorPC
<1>11. ASSUME NEW w \in Workers, Settle(w) PROVE Reported'
  BY <1>11, SMTT(60)
     DEF Settle, Reported, Alive, Owned, OneHolder, Linked, RunsExist,
         ItemsExist, CreationsApart, RowsOK, ActorsOK, WorkerPC, RequestPC,
         ExecutorPC
<1>12. ASSUME NEW w \in Workers, FailLoad(w) PROVE Reported'
  BY <1>12, SMTT(60)
     DEF FailLoad, Reported, Alive, Owned, OneHolder, Linked, RunsExist,
         ItemsExist, CreationsApart, RowsOK, ActorsOK, WorkerPC, RequestPC,
         ExecutorPC
<1>13. ASSUME NEW w \in Workers, RetryItem(w) PROVE Reported'
  BY <1>13, SMTT(60)
     DEF RetryItem, Reported, Alive, Owned, OneHolder, Linked, RunsExist,
         ItemsExist, CreationsApart, RowsOK, ActorsOK, WorkerPC, RequestPC,
         ExecutorPC
<1>14. ASSUME NEW w \in Workers, BuryItem(w) PROVE Reported'
  BY <1>14, SMTT(60)
     DEF BuryItem, Reported, Alive, Owned, OneHolder, Linked, RunsExist,
         ItemsExist, CreationsApart, RowsOK, ActorsOK, WorkerPC, RequestPC,
         ExecutorPC
<1>15. ASSUME NEW w \in Workers, StartLoad(w) PROVE Reported'
  BY <1>15, SMTT(60)
     DEF StartLoad, Outcome, Stale, Keep, Reported, Alive, Owned, OneHolder,
         Linked, RunsExist, ItemsExist, CreationsApart, RowsOK, ActorsOK,
         WorkerPC, RequestPC, ExecutorPC
<1>16. ASSUME NEW w \in Workers, StartCommit(w) PROVE Reported'
  <2>1. ASSUME NEW r \in Runs, r \notin torn'
        PROVE  /\ r \notin torn
               /\ \/ item'[r] = item[r] /\ run'[r] = run[r]
                  \/ /\ item[r].lease = "expired"
                     /\ item'[r].status \in {"completed", "dead_letter"} => run'[r] \notin Alive
    BY <1>16, <2>1, ReconciledRun DEF Stale
  <2>2. UNCHANGED <<pc, job, faults>>
    BY <1>16 DEF StartCommit
  <2> QED BY <2>1, <2>2, SMTT(60) DEF Reported, Alive, Owned, OneHolder, ActorsOK
<1>17. ASSUME NEW w \in Workers, Crash(w) PROVE Reported'
  BY <1>17, SMTT(60)
     DEF Crash, Reported, Alive, RowsOK, ActorsOK
<1>18. ASSUME NEW e \in Executors, Check(e) PROVE Reported'
  BY <1>18, SMTT(60)
     DEF Check, Reported, Alive, Owned, OneHolder, Linked, RunsExist,
         ItemsExist, CreationsApart, RowsOK, ActorsOK, WorkerPC, RequestPC,
         ExecutorPC
<1>19. ASSUME NEW e \in Executors, EnterNode(e) PROVE Reported'
  BY <1>19, SMTT(60)
     DEF EnterNode, Reported, Alive, Owned, OneHolder, Linked, RunsExist,
         ItemsExist, CreationsApart, RowsOK, ActorsOK, WorkerPC, RequestPC,
         ExecutorPC
<1>20. ASSUME NEW e \in Executors, FenceHit(e) PROVE Reported'
  BY <1>20, SMTT(60)
     DEF FenceHit, Reported, Alive, Owned, OneHolder, Linked, RunsExist,
         ItemsExist, CreationsApart, RowsOK, ActorsOK, WorkerPC, RequestPC,
         ExecutorPC
<1>21. ASSUME NEW e \in Executors, RunNode(e) PROVE Reported'
  BY <1>21, SMTT(60)
     DEF RunNode, Reported, Alive, Owned, OneHolder, Linked, RunsExist,
         ItemsExist, CreationsApart, RowsOK, ActorsOK, WorkerPC, RequestPC,
         ExecutorPC
<1>22. ASSUME NEW e \in Executors, Park(e) PROVE Reported'
  BY <1>22, SMTT(60)
     DEF Park, Reported, Alive, Owned, OneHolder, Linked, RunsExist,
         ItemsExist, CreationsApart, RowsOK, ActorsOK, WorkerPC, RequestPC,
         ExecutorPC
<1>23. ASSUME NEW e \in Executors, Succeed(e) PROVE Reported'
  BY <1>23, SMTT(60)
     DEF Succeed, Reported, Alive, Owned, OneHolder, Linked, RunsExist,
         ItemsExist, CreationsApart, RowsOK, ActorsOK, WorkerPC, RequestPC,
         ExecutorPC
<1>24. ASSUME NEW e \in Executors, CancelRun(e) PROVE Reported'
  BY <1>24, SMTT(60)
     DEF CancelRun, Reported, Alive, Owned, OneHolder, Linked, RunsExist,
         ItemsExist, CreationsApart, RowsOK, ActorsOK, WorkerPC, RequestPC,
         ExecutorPC
<1>25. ASSUME NEW e \in Executors, Raised(e) PROVE Reported'
  BY <1>25, SMTT(60)
     DEF Raised, Reported, Alive, Owned, OneHolder, Linked, RunsExist,
         ItemsExist, CreationsApart, RowsOK, ActorsOK, WorkerPC, RequestPC,
         ExecutorPC
<1>26. ASSUME NEW e \in Executors, FailRun(e) PROVE Reported'
  BY <1>26, SMTT(60)
     DEF FailRun, Reported, Alive, Owned, OneHolder, Linked, RunsExist,
         ItemsExist, CreationsApart, RowsOK, ActorsOK, WorkerPC, RequestPC,
         ExecutorPC
<1>27. ASSUME NEW a \in Submitters, SubmitRun(a) PROVE Reported'
  BY <1>27, SMTT(60)
     DEF SubmitRun, Reported, Alive, Owned, OneHolder, Linked, RunsExist,
         ItemsExist, CreationsApart, RowsOK, ActorsOK, WorkerPC, RequestPC,
         ExecutorPC
<1>28. ASSUME NEW a \in Submitters, Enqueue(a) PROVE Reported'
  BY <1>28, SMTT(60)
     DEF Enqueue, NewItem, Row, Up, Reported, Alive, Owned, OneHolder, Linked,
         RunsExist, ItemsExist, CreationsApart, RowsOK, ActorsOK, WorkerPC,
         RequestPC, ExecutorPC
<1>29. ASSUME NEW a \in Runners, RunNow(a) PROVE Reported'
  BY <1>29, SMTT(60)
     DEF RunNow, Reported, Alive, Owned, OneHolder, Linked, RunsExist,
         ItemsExist, CreationsApart, RowsOK, ActorsOK, WorkerPC, RequestPC,
         ExecutorPC
<1>30. ASSUME NEW a \in Cancellers, CancelLoad(a) PROVE Reported'
  BY <1>30, SMTT(60)
     DEF CancelLoad, Reported, Alive, Owned, OneHolder, Linked, RunsExist,
         ItemsExist, CreationsApart, RowsOK, ActorsOK, WorkerPC, RequestPC,
         ExecutorPC
<1>31. ASSUME NEW a \in Cancellers, CancelCommit(a) PROVE Reported'
  BY <1>31, SMTT(60)
     DEF CancelCommit, Reported, Alive, Owned, OneHolder, Linked, RunsExist,
         ItemsExist, CreationsApart, RowsOK, ActorsOK, WorkerPC, RequestPC,
         ExecutorPC
<1>32. ASSUME NEW a \in Cancellers, CancelItemLoad(a) PROVE Reported'
  BY <1>32, SMTT(60)
     DEF CancelItemLoad, Reported, Alive, Owned, OneHolder, Linked, RunsExist,
         ItemsExist, CreationsApart, RowsOK, ActorsOK, WorkerPC, RequestPC,
         ExecutorPC
<1>33. ASSUME NEW a \in Cancellers, CancelItemCommit(a) PROVE Reported'
  BY <1>33, SMTT(60)
     DEF CancelItemCommit, Reported, Alive, Owned, OneHolder, Linked,
         RunsExist, ItemsExist, CreationsApart, RowsOK, ActorsOK, WorkerPC,
         RequestPC, ExecutorPC
<1>34. ASSUME NEW a \in Resumers, ResumeLoad(a) PROVE Reported'
  BY <1>34, SMTT(60)
     DEF ResumeLoad, Reported, Alive, Owned, OneHolder, Linked, RunsExist,
         ItemsExist, CreationsApart, RowsOK, ActorsOK, WorkerPC, RequestPC,
         ExecutorPC
<1>35. ASSUME NEW a \in Resumers, ResumeCheck(a) PROVE Reported'
  BY <1>35, SMTT(60)
     DEF ResumeCheck, Reported, Alive, Owned, OneHolder, Linked, RunsExist,
         ItemsExist, CreationsApart, RowsOK, ActorsOK, WorkerPC, RequestPC,
         ExecutorPC
<1>36. ASSUME NEW a \in Resumers, Redo(a) PROVE Reported'
  BY <1>36, SMTT(60)
     DEF Redo, Reported, Alive, Owned, OneHolder, Linked, RunsExist,
         ItemsExist, CreationsApart, RowsOK, ActorsOK, WorkerPC, RequestPC,
         ExecutorPC
<1>37. ASSUME NEW a \in Requests, Abandon(a) PROVE Reported'
  BY <1>37, SMTT(60)
     DEF Abandon, Reported, Alive, RowsOK, ActorsOK
<1>38. ASSUME NEW r \in Runs, LeaseExpires(r) PROVE Reported'
  BY <1>38, SMTT(60)
     DEF LeaseExpires, Reported, Alive, Owned, OneHolder, Linked, RunsExist,
         ItemsExist, CreationsApart, RowsOK, ActorsOK, WorkerPC, RequestPC,
         ExecutorPC
<1>39. ASSUME NEW r \in Runs, BackoffElapses(r) PROVE Reported'
  BY <1>39, SMTT(60)
     DEF BackoffElapses, Reported, Alive, Owned, OneHolder, Linked, RunsExist,
         ItemsExist, CreationsApart, RowsOK, ActorsOK, WorkerPC, RequestPC,
         ExecutorPC
<1>40. ASSUME NEW r \in Runs, PayloadExpires(r) PROVE Reported'
  BY <1>40, SMTT(60)
     DEF PayloadExpires, Reported, Alive, Owned, OneHolder, Linked, RunsExist,
         ItemsExist, CreationsApart, RowsOK, ActorsOK, WorkerPC, RequestPC,
         ExecutorPC
<1>41. ASSUME UNCHANGED vars PROVE Reported'
  BY <1>41 DEF vars, Reported, Alive, Owned, OneHolder, Linked, RunsExist,
          ItemsExist, CreationsApart, RowsOK, ActorsOK, WorkerPC, RequestPC,
          ExecutorPC
<1> QED
  BY <1>1, <1>2, <1>3, <1>4, <1>5, <1>6, <1>7, <1>8, <1>9, <1>10, <1>11,
     <1>12, <1>13, <1>14, <1>15, <1>16, <1>17, <1>18, <1>19, <1>20, <1>21,
     <1>22, <1>23, <1>24, <1>25, <1>26, <1>27, <1>28, <1>29, <1>30, <1>31,
     <1>32, <1>33, <1>34, <1>35, <1>36, <1>37, <1>38, <1>39, <1>40, <1>41
  DEF Next, Work, Execute, Submit, Cancel, Resume, Start, Retry

(* Reported is an invariant. *)
LEMMA ReportedAlways == Spec => []Reported
<1>1. Init => Reported
  BY ConstantsAssumption DEF Init, Reported, NoItem, Row, Actors, Requests, Executors
<1>2. TInv /\ Linked /\ Owned /\ Reported /\ [Next]_vars => Reported'
  BY ReportedStep
<1> QED BY <1>1, <1>2, Typed, QueueInvariant, PTL DEF Spec

(* An item is completed only when its run is neither queued nor running.    *)
THEOREM CompletedCorrect == Spec => []CompletedIsOver
<1>1. Reported => CompletedIsOver
  BY DEF Reported, CompletedIsOver, Alive
<1> QED BY <1>1, ReportedAlways, PTL

(* A step that loses no worker in the act of burying a run, and neither     *)
(* buries an item nor brings a run to life, leaves no run behind.           *)
Covered(r) ==
    /\ r \in torn => r \in torn'
    /\ item'[r].status = "dead_letter" => item[r].status = "dead_letter"
    /\ run'[r] \in Alive => run[r] \in Alive
    /\ \A w \in Workers : Burying(w, r) => Burying(w, r)'

(* Nobody but a burying worker has the run of a dead letter, so no step     *)
(* brings that run back to life; and the burying worker leaves a dead run.  *)
LEMMA UnreportedStep ==
    ASSUME TInv, Linked, Owned, Reported, [Next]_vars, NEW r \in Runs, Unreported(r)'
    PROVE  \/ Unreported(r)
           \/ \E w \in Workers : Burying(w, r) /\ (Crash(w) \/ LoopDies(w))
<1> DEFINE Goal == \/ Unreported(r)
                   \/ \E w \in Workers : Burying(w, r) /\ (Crash(w) \/ LoopDies(w))
<1> USE ConstantsAssumption
    DEF TInv, Requests, Executors, Actors, Goto, Leave, Return, UpdateRun, CreateRun, Fault,
           Holds, queueVars, historyVars
<1>1. ASSUME Covered(r) PROVE Goal
  BY <1>1 DEF Covered, Unreported, Alive
<1>2. item[r] \in Items /\ r \notin torn' /\ item'[r].status = "dead_letter" /\ run'[r] \in Alive
  BY DEF RowsOK, Unreported, Alive
<1>3. ASSUME NEW e \in Executors, Execute(e) PROVE Covered(r)
  <2>1. CASE Check(e) \/ EnterNode(e) \/ Raised(e)
    BY <2>1, SMTT(60)
       DEF Check, EnterNode, Raised, Covered, Burying, Alive, RowsOK, ActorsOK, HistoryOK
  <2>2. CASE FenceHit(e) \/ RunNode(e)
    BY <2>2, SMTT(60)
       DEF FenceHit, RunNode, Covered, Burying, Alive, RowsOK, ActorsOK
  <2>3. CASE Park(e) \/ Succeed(e) \/ CancelRun(e) \/ FailRun(e)
    BY <2>3, SMTT(60)
       DEF Park, Succeed, CancelRun, FailRun, Covered, Burying, Alive, RowsOK, ActorsOK
  <2> QED BY <1>3, <2>1, <2>2, <2>3 DEF Execute
<1>4. ASSUME NEW w \in Workers, Work(w) PROVE Goal
  <2>1. CASE Claim(w)
    <3>1. PICK q \in Runs :
             item' = [item EXCEPT ![q].status = "leased", ![q].attempts = @ + 1, ![q].lease = "live"]
      BY <2>1 DEF Claim
    <3>2. item'[r] = item[r] \/ item'[r].status = "leased"
      BY <1>2, <3>1 DEF RowsOK, Items
    <3>3. /\ UNCHANGED <<run, torn>>
          /\ pc[w] = "idle" /\ \A v \in Workers \ {w} : pc'[v] = pc[v] /\ job'[v] = job[v]
      BY <2>1, SMTT(60) DEF Claim, ActorsOK
    <3>4. Covered(r)
      BY <1>2, <3>2, <3>3 DEF Covered, Burying
    <3> QED BY <1>1, <3>4
  <2>8. CASE MarkRunning(w)
    BY <2>8, <1>1, SMTT(60)
       DEF MarkRunning, Covered, Burying, Alive, RowsOK, ActorsOK, Items
  <2>2. CASE LoadRun(w) \/ Begin(w) \/ QueueError(w) \/ FailLoad(w) \/ DrainEnds(w)
    BY <2>2, <1>1, SMTT(60)
       DEF LoadRun, Begin, QueueError, FailLoad, DrainEnds, Covered, Burying, Alive,
           RowsOK, ActorsOK
  <2>3. CASE OpenRun(w)
    BY <2>3, <1>1, SMTT(60)
       DEF OpenRun, Unreported, Reported, Covered, Burying, Alive, RowsOK, ActorsOK
  <2>4. CASE Settle(w) \/ RetryItem(w)
    BY <2>4, <1>1, SMTT(60)
       DEF Settle, RetryItem, Covered, Burying, Alive, RowsOK, ActorsOK, Items
  <2>5. CASE BuryItem(w)
    BY <2>5, <1>1, SMTT(60)
       DEF BuryItem, Unreported, Covered, Burying, Alive, RowsOK, ActorsOK, Items
  <2>6. CASE BuryLoad(w) \/ BuryRun(w)
    BY <2>6, <1>1, SMTT(60)
       DEF BuryLoad, BuryRun, Terminal, Unreported, Covered, Burying, Alive, RowsOK, ActorsOK
  <2>7. CASE Execute(w)
    BY <2>7, <1>1, <1>3
  <2> QED BY <1>4, <2>1, <2>2, <2>3, <2>4, <2>5, <2>6, <2>7, <2>8 DEF Work
<1>5. ASSUME NEW w \in Workers, Start(w) PROVE Goal
  <2>1. CASE StartLoad(w)
    BY <2>1, <1>1 DEF StartLoad, Covered, Burying
  <2>2. CASE StartCommit(w)
    <3>1. r \notin torn /\ item'[r] = item[r] /\ run'[r] = run[r]
      BY <2>2, <1>2, ReconciledRun
    <3> QED BY <2>2, <3>1 DEF StartCommit, Unreported, Burying
  <2> QED BY <1>5, <2>1, <2>2 DEF Start
<1>6. ASSUME NEW w \in Workers, Crash(w) \/ LoopDies(w) PROVE Goal
  <2>1. CASE Burying(w, r)
    BY <1>6, <2>1
  <2>2. CASE ~Burying(w, r)
    <3>1. Covered(r)
      BY <1>6, <2>2, SMTT(60) DEF Crash, LoopDies, Covered, Burying, RowsOK, ActorsOK
    <3> QED BY <3>1, <1>1
  <2> QED BY <2>1, <2>2
<1>7. ASSUME NEW a \in Submitters, Submit(a) PROVE Covered(r)
  BY <1>2, <1>7, SMTT(60)
     DEF Submit, SubmitRun, Enqueue, NewItem, Row, Covered, Burying, Alive, Linked, RunsExist,
         RowsOK, ActorsOK
<1>8. ASSUME NEW a \in Runners, RunNow(a) \/ Retry(a) PROVE Covered(r)
  BY <1>2, <1>8, SMTT(60)
     DEF RunNow, Retry, Covered, Burying, Alive, Linked, RunsExist, RowsOK, ActorsOK
<1>9. ASSUME NEW a \in Cancellers, Cancel(a) PROVE Covered(r)
  <2>1. CASE CancelLoad(a) \/ CancelItemLoad(a)
    BY <2>1, SMTT(60) DEF CancelLoad, CancelItemLoad, Covered, Burying, RowsOK, ActorsOK
  <2>2. CASE CancelCommit(a)
    BY <2>2, SMTT(60) DEF CancelCommit, Covered, Burying, Alive, RowsOK, ActorsOK
  <2>3. CASE CancelItemCommit(a)
    BY <2>3, SMTT(60) DEF CancelItemCommit, Covered, Burying, Alive, RowsOK, ActorsOK, Items
  <2> QED BY <1>9, <2>1, <2>2, <2>3 DEF Cancel
<1>10. ASSUME NEW a \in Resumers, ResumeLoad(a) \/ ResumeCheck(a) \/ Redo(a) PROVE Covered(r)
  BY <1>10, SMTT(60)
     DEF ResumeLoad, ResumeCheck, Redo, Covered, Burying, RowsOK, ActorsOK
<1>11. ASSUME NEW a \in Requests, Abandon(a) PROVE Covered(r)
  BY <1>11, SMTT(60) DEF Abandon, Covered, Burying, RowsOK, ActorsOK
<1>12. ASSUME NEW q \in Runs, LeaseExpires(q) \/ BackoffElapses(q) \/ PayloadExpires(q)
       PROVE  Covered(r)
  BY <1>12, SMTT(60)
     DEF LeaseExpires, BackoffElapses, PayloadExpires, Covered, Burying, RowsOK, Items, HistoryOK
<1>13. CASE UNCHANGED vars
  BY <1>13, <1>1 DEF vars, Covered, Burying
<1> QED
  BY <1>1, <1>3, <1>4, <1>5, <1>6, <1>7, <1>8, <1>9, <1>10, <1>11, <1>12, <1>13
  DEF Next, Resume

(* A run gets behind a dead letter only by a fault in the worker that       *)
(* buries it, between its two transactions.                                 *)
THEOREM DeadLetterCorrect == Spec => DeadLetterIsReported
<1>1. TInv /\ Linked /\ Owned /\ Reported /\ [Next]_vars =>
        [\A r \in Runs :
            Unreported(r)' =>
                \/ Unreported(r)
                \/ \E w \in Workers : Burying(w, r) /\ (Crash(w) \/ LoopDies(w))]_vars
  BY UnreportedStep
<1> QED BY <1>1, Typed, QueueInvariant, ReportedAlways, PTL DEF Spec, DeadLetterIsReported

(* The places of a worker before it is at a node, and on its way back from  *)
(* there to the queue.                                                      *)
Before == {"claimed", "marked", "open", "opened", "fail", "retry"}

(* A run that may be executed from its start: it is queued, about to be, or *)
(* a worker has not reached its first node.                                 *)
Fresh(r) ==
    \/ item[r].status \in {"queued", "failed"}
    \/ \E a \in Submitters : pc[a] = "created" /\ job[a] = r
    \/ \E w \in Workers : pc[w] \in Before /\ job[w] = r

(* Nobody but its worker executes a run that is fresh, and it has not       *)
(* finished: the run of a runner is never in the queue, and one that is     *)
(* resumed does not look alive, so that reconciliation does not requeue it. *)
Unfinished ==
    /\ \A a \in Runners : job[a] \in Runs =>
          /\ item[job[a]].status = "none"
          /\ \A b \in Submitters : pc[b] = "created" => job[b] # job[a]
    /\ \A a \in Resumers : job[a] \in Runs \ torn => run[job[a]] \notin Alive
    /\ \A r \in Runs \ torn : Fresh(r) =>
          /\ run[r] \notin Finished
          /\ \A a \in Runners \cup Resumers : job[a] # r

(* Every step preserves Unfinished. *)
LEMMA UnfinishedStep ==
    ASSUME TInv, Linked, Owned, Unfinished, [Next]_vars PROVE Unfinished'
<1> USE ConstantsAssumption
    DEF TInv, Requests, Executors, Actors, Goto, Leave, Return, UpdateRun, CreateRun, Fault,
           Holds, queueVars, historyVars
<1>1. ASSUME NEW w \in Workers, LoadRun(w) PROVE Unfinished'
  BY <1>1, SMTT(60)
     DEF LoadRun, Unfinished, Fresh, Before, Finished, Alive, Owned,
         OneHolder, Linked, RunsExist, ItemsExist, CreationsApart, RowsOK,
         ActorsOK, WorkerPC, RequestPC, ExecutorPC
<1>2. ASSUME NEW w \in Workers, OpenRun(w) PROVE Unfinished'
  BY <1>2, SMTT(60)
     DEF OpenRun, Unfinished, Fresh, Before, Finished, Alive, Owned,
         OneHolder, Linked, RunsExist, ItemsExist, CreationsApart, RowsOK,
         ActorsOK, WorkerPC, RequestPC, ExecutorPC
<1>3. ASSUME NEW w \in Workers, Begin(w) PROVE Unfinished'
  BY <1>3, SMTT(60)
     DEF Begin, Unfinished, Fresh, Before, Finished, Alive, Owned, OneHolder,
         Linked, RunsExist, ItemsExist, CreationsApart, RowsOK, ActorsOK,
         WorkerPC, RequestPC, ExecutorPC
<1>4. ASSUME NEW w \in Workers, QueueError(w) PROVE Unfinished'
  BY <1>4, SMTT(60)
     DEF QueueError, Unfinished, Fresh, Before, Finished, Alive, Owned,
         OneHolder, Linked, RunsExist, ItemsExist, CreationsApart, RowsOK,
         ActorsOK, WorkerPC, RequestPC, ExecutorPC
<1>5. ASSUME NEW w \in Workers, BuryLoad(w) PROVE Unfinished'
  BY <1>5, SMTT(60)
     DEF BuryLoad, Unfinished, Fresh, Before, Finished, Alive, Owned,
         OneHolder, Linked, RunsExist, ItemsExist, CreationsApart, RowsOK,
         ActorsOK, WorkerPC, RequestPC, ExecutorPC
<1>6. ASSUME NEW w \in Workers, BuryRun(w) PROVE Unfinished'
  BY <1>6, SMTT(60)
     DEF BuryRun, Unfinished, Fresh, Before, Finished, Alive, Owned,
         OneHolder, Linked, RunsExist, ItemsExist, CreationsApart, RowsOK,
         ActorsOK, WorkerPC, RequestPC, ExecutorPC
<1>7. ASSUME NEW w \in Workers, DrainEnds(w) PROVE Unfinished'
  BY <1>7, SMTT(60)
     DEF DrainEnds, Unfinished, Fresh, Before, Finished, Alive, Owned,
         OneHolder, Linked, RunsExist, ItemsExist, CreationsApart, RowsOK,
         ActorsOK, WorkerPC, RequestPC, ExecutorPC
<1>8. ASSUME NEW w \in Workers, LoopDies(w) PROVE Unfinished'
  BY <1>8, SMTT(60)
     DEF LoopDies, Unfinished, Fresh, Before, Finished, Alive, Owned,
         OneHolder, Linked, RunsExist, ItemsExist, CreationsApart, RowsOK,
         ActorsOK, WorkerPC, RequestPC, ExecutorPC
<1>9. ASSUME NEW w \in Workers, Claim(w) PROVE Unfinished'
  BY <1>9, SMTT(60)
     DEF Claim, Claimable, Unfinished, Fresh, Before, Finished, Alive, Owned,
         OneHolder, Linked, RunsExist, ItemsExist, CreationsApart, RowsOK,
         ActorsOK, WorkerPC, RequestPC, ExecutorPC
<1>10. ASSUME NEW w \in Workers, MarkRunning(w) PROVE Unfinished'
  BY <1>10, SMTT(60)
     DEF MarkRunning, Unfinished, Fresh, Before, Finished, Alive, Owned,
         OneHolder, Linked, RunsExist, ItemsExist, CreationsApart, RowsOK,
         ActorsOK, WorkerPC, RequestPC, ExecutorPC
<1>11. ASSUME NEW w \in Workers, Settle(w) PROVE Unfinished'
  BY <1>11, SMTT(60)
     DEF Settle, Unfinished, Fresh, Before, Finished, Alive, Owned, OneHolder,
         Linked, RunsExist, ItemsExist, CreationsApart, RowsOK, ActorsOK,
         WorkerPC, RequestPC, ExecutorPC
<1>12. ASSUME NEW w \in Workers, FailLoad(w) PROVE Unfinished'
  BY <1>12, SMTT(60)
     DEF FailLoad, Unfinished, Fresh, Before, Finished, Alive, Owned,
         OneHolder, Linked, RunsExist, ItemsExist, CreationsApart, RowsOK,
         ActorsOK, WorkerPC, RequestPC, ExecutorPC
<1>13. ASSUME NEW w \in Workers, RetryItem(w) PROVE Unfinished'
  BY <1>13, SMTT(60)
     DEF RetryItem, Unfinished, Fresh, Before, Finished, Alive, Owned,
         OneHolder, Linked, RunsExist, ItemsExist, CreationsApart, RowsOK,
         ActorsOK, WorkerPC, RequestPC, ExecutorPC
<1>14. ASSUME NEW w \in Workers, BuryItem(w) PROVE Unfinished'
  BY <1>14, SMTT(60)
     DEF BuryItem, Unfinished, Fresh, Before, Finished, Alive, Owned,
         OneHolder, Linked, RunsExist, ItemsExist, CreationsApart, RowsOK,
         ActorsOK, WorkerPC, RequestPC, ExecutorPC
<1>15. ASSUME NEW w \in Workers, StartLoad(w) PROVE Unfinished'
  BY <1>15, SMTT(60)
     DEF StartLoad, Outcome, Stale, Keep, Unfinished, Fresh, Before, Finished,
         Alive, Owned, OneHolder, Linked, RunsExist, ItemsExist,
         CreationsApart, RowsOK, ActorsOK, WorkerPC, RequestPC, ExecutorPC
<1>16. ASSUME NEW w \in Workers, StartCommit(w) PROVE Unfinished'
  <2>1. ASSUME NEW r \in Runs, r \notin torn'
        PROVE  /\ r \notin torn
               /\ \/ item'[r] = item[r] /\ run'[r] = run[r]
                  \/ /\ Stale(r)
                     /\ item'[r].status = "queued" =>
                           run[r] \in Alive \cup {"none"} /\ run'[r] \in Alive
                     /\ run'[r] \in Alive => item'[r].status = "queued"
                     /\ item'[r].status \in {"queued"} \cup Settled
    BY <1>16, <2>1, ReconciledRun
  <2>2. UNCHANGED <<pc, job>>
    BY <1>16 DEF StartCommit
  <2>3. \A r \in Runs : item[r].status = "none" => item'[r].status = "none"
    BY <1>16, Reconciliation DEF Linked, ItemsExist
  <2>4. ASSUME NEW r \in Runs, r \notin torn', Fresh(r)'
        PROVE  \/ Fresh(r) /\ run'[r] = run[r]
               \/ Stale(r) /\ run[r] \in Alive \cup {"none"} /\ run'[r] \in Alive
    BY <2>1, <2>2, <2>4, SMTT(60)
       DEF Fresh, Before, Stale, Settled, Owned, Linked, CreationsApart, ActorsOK
  <2>5. ASSUME NEW a \in Runners, job[a] \in Runs
        PROVE  /\ item'[job[a]].status = "none"
               /\ \A b \in Submitters : pc[b] = "created" => job[b] # job[a]
    BY <2>5, <2>3 DEF Unfinished
  <2>6. ASSUME NEW a \in Resumers, job[a] \in Runs, job[a] \notin torn'
        PROVE  run'[job[a]] \notin Alive
    BY <2>6, <2>1 DEF Unfinished, Linked, RunsExist, Alive
  <2>7. ASSUME NEW r \in Runs, r \notin torn', Fresh(r)'
        PROVE  run'[r] \notin Finished /\ \A a \in Runners \cup Resumers : job[a] # r
    <3>1. CASE Fresh(r) /\ run'[r] = run[r]
      BY <3>1, <2>7, <2>1 DEF Unfinished
    <3>2. CASE Stale(r) /\ run[r] \in Alive \cup {"none"} /\ run'[r] \in Alive
      BY <3>2, <2>7, <2>1 DEF Unfinished, Alive, Finished, Stale, Linked, RunsExist
    <3> QED BY <3>1, <3>2, <2>7, <2>4
  <2> QED BY <2>2, <2>5, <2>6, <2>7 DEF Unfinished
<1>17. ASSUME NEW w \in Workers, Crash(w) PROVE Unfinished'
  BY <1>17, SMTT(60)
     DEF Crash, Keep, Unfinished, Fresh, Before, Finished, Alive, Owned,
         OneHolder, Linked, RunsExist, ItemsExist, CreationsApart, RowsOK,
         ActorsOK, WorkerPC, RequestPC, ExecutorPC
<1>18. ASSUME NEW e \in Executors, Check(e) PROVE Unfinished'
  BY <1>18, SMTT(60)
     DEF Check, Unfinished, Fresh, Before, Finished, Alive, Owned, OneHolder,
         Linked, RunsExist, ItemsExist, CreationsApart, RowsOK, ActorsOK,
         WorkerPC, RequestPC, ExecutorPC
<1>19. ASSUME NEW e \in Executors, EnterNode(e) PROVE Unfinished'
  BY <1>19, SMTT(60)
     DEF EnterNode, Unfinished, Fresh, Before, Finished, Alive, Owned,
         OneHolder, Linked, RunsExist, ItemsExist, CreationsApart, RowsOK,
         ActorsOK, WorkerPC, RequestPC, ExecutorPC
<1>20. ASSUME NEW e \in Executors, FenceHit(e) PROVE Unfinished'
  BY <1>20, SMTT(60)
     DEF FenceHit, Unfinished, Fresh, Before, Finished, Alive, Owned,
         OneHolder, Linked, RunsExist, ItemsExist, CreationsApart, RowsOK,
         ActorsOK, WorkerPC, RequestPC, ExecutorPC
<1>21. ASSUME NEW e \in Executors, RunNode(e) PROVE Unfinished'
  BY <1>21, SMTT(60)
     DEF RunNode, Unfinished, Fresh, Before, Finished, Alive, Owned,
         OneHolder, Linked, RunsExist, ItemsExist, CreationsApart, RowsOK,
         ActorsOK, WorkerPC, RequestPC, ExecutorPC
<1>22. ASSUME NEW e \in Executors, Park(e) PROVE Unfinished'
  BY <1>22, SMTT(60)
     DEF Park, Unfinished, Fresh, Before, Finished, Alive, Owned, OneHolder,
         Linked, RunsExist, ItemsExist, CreationsApart, RowsOK, ActorsOK,
         WorkerPC, RequestPC, ExecutorPC
<1>23. ASSUME NEW e \in Executors, Succeed(e) PROVE Unfinished'
  BY <1>23, SMTT(60)
     DEF Succeed, Unfinished, Fresh, Before, Finished, Alive, Owned,
         OneHolder, Linked, RunsExist, ItemsExist, CreationsApart, RowsOK,
         ActorsOK, WorkerPC, RequestPC, ExecutorPC
<1>24. ASSUME NEW e \in Executors, CancelRun(e) PROVE Unfinished'
  BY <1>24, SMTT(60)
     DEF CancelRun, Unfinished, Fresh, Before, Finished, Alive, Owned,
         OneHolder, Linked, RunsExist, ItemsExist, CreationsApart, RowsOK,
         ActorsOK, WorkerPC, RequestPC, ExecutorPC
<1>25. ASSUME NEW e \in Executors, Raised(e) PROVE Unfinished'
  BY <1>25, SMTT(60)
     DEF Raised, Unfinished, Fresh, Before, Finished, Alive, Owned, OneHolder,
         Linked, RunsExist, ItemsExist, CreationsApart, RowsOK, ActorsOK,
         WorkerPC, RequestPC, ExecutorPC
<1>26. ASSUME NEW e \in Executors, FailRun(e) PROVE Unfinished'
  BY <1>26, SMTT(60)
     DEF FailRun, Unfinished, Fresh, Before, Finished, Alive, Owned,
         OneHolder, Linked, RunsExist, ItemsExist, CreationsApart, RowsOK,
         ActorsOK, WorkerPC, RequestPC, ExecutorPC
<1>27. ASSUME NEW a \in Submitters, SubmitRun(a) PROVE Unfinished'
  BY <1>27, SMTT(60)
     DEF SubmitRun, Unfinished, Fresh, Before, Finished, Alive, Owned,
         OneHolder, Linked, RunsExist, ItemsExist, CreationsApart, RowsOK,
         ActorsOK, WorkerPC, RequestPC, ExecutorPC
<1>28. ASSUME NEW a \in Submitters, Enqueue(a) PROVE Unfinished'
  BY <1>28, SMTT(60)
     DEF Enqueue, NewItem, Row, Up, Unfinished, Fresh, Before, Finished,
         Alive, Owned, OneHolder, Linked, RunsExist, ItemsExist,
         CreationsApart, RowsOK, ActorsOK, WorkerPC, RequestPC, ExecutorPC
<1>29. ASSUME NEW a \in Runners, RunNow(a) PROVE Unfinished'
  BY <1>29, SMTT(60)
     DEF RunNow, Unfinished, Fresh, Before, Finished, Alive, Owned, OneHolder,
         Linked, RunsExist, ItemsExist, CreationsApart, RowsOK, ActorsOK,
         WorkerPC, RequestPC, ExecutorPC
<1>30. ASSUME NEW a \in Cancellers, CancelLoad(a) PROVE Unfinished'
  BY <1>30, SMTT(60)
     DEF CancelLoad, Unfinished, Fresh, Before, Finished, Alive, Owned,
         OneHolder, Linked, RunsExist, ItemsExist, CreationsApart, RowsOK,
         ActorsOK, WorkerPC, RequestPC, ExecutorPC
<1>31. ASSUME NEW a \in Cancellers, CancelCommit(a) PROVE Unfinished'
  BY <1>31, SMTT(60)
     DEF CancelCommit, Unfinished, Fresh, Before, Finished, Alive, Owned,
         OneHolder, Linked, RunsExist, ItemsExist, CreationsApart, RowsOK,
         ActorsOK, WorkerPC, RequestPC, ExecutorPC
<1>32. ASSUME NEW a \in Cancellers, CancelItemLoad(a) PROVE Unfinished'
  BY <1>32, SMTT(60)
     DEF CancelItemLoad, Unfinished, Fresh, Before, Finished, Alive, Owned,
         OneHolder, Linked, RunsExist, ItemsExist, CreationsApart, RowsOK,
         ActorsOK, WorkerPC, RequestPC, ExecutorPC
<1>33. ASSUME NEW a \in Cancellers, CancelItemCommit(a) PROVE Unfinished'
  BY <1>33, SMTT(60)
     DEF CancelItemCommit, Unfinished, Fresh, Before, Finished, Alive, Owned,
         OneHolder, Linked, RunsExist, ItemsExist, CreationsApart, RowsOK,
         ActorsOK, WorkerPC, RequestPC, ExecutorPC
<1>34. ASSUME NEW a \in Resumers, ResumeLoad(a) PROVE Unfinished'
  BY <1>34, SMTT(60)
     DEF ResumeLoad, Unfinished, Fresh, Before, Finished, Alive, Owned,
         OneHolder, Linked, RunsExist, ItemsExist, CreationsApart, RowsOK,
         ActorsOK, WorkerPC, RequestPC, ExecutorPC
<1>35. ASSUME NEW a \in Resumers, ResumeCheck(a) PROVE Unfinished'
  BY <1>35, SMTT(60)
     DEF ResumeCheck, Unfinished, Fresh, Before, Finished, Alive, Owned,
         OneHolder, Linked, RunsExist, ItemsExist, CreationsApart, RowsOK,
         ActorsOK, WorkerPC, RequestPC, ExecutorPC
<1>36. ASSUME NEW a \in Resumers, Redo(a) PROVE Unfinished'
  BY <1>36, SMTT(60)
     DEF Redo, Unfinished, Fresh, Before, Finished, Alive, Owned, OneHolder,
         Linked, RunsExist, ItemsExist, CreationsApart, RowsOK, ActorsOK,
         WorkerPC, RequestPC, ExecutorPC
<1>37. ASSUME NEW a \in Requests, Abandon(a) PROVE Unfinished'
  BY <1>37, SMTT(60)
     DEF Abandon, Unfinished, Fresh, Before, Finished, Alive, Owned,
         OneHolder, Linked, RunsExist, ItemsExist, CreationsApart, RowsOK,
         ActorsOK, WorkerPC, RequestPC, ExecutorPC
<1>38. ASSUME NEW r \in Runs, LeaseExpires(r) PROVE Unfinished'
  BY <1>38, SMTT(60)
     DEF LeaseExpires, Unfinished, Fresh, Before, Finished, Alive, Owned,
         OneHolder, Linked, RunsExist, ItemsExist, CreationsApart, RowsOK,
         ActorsOK, WorkerPC, RequestPC, ExecutorPC
<1>39. ASSUME NEW r \in Runs, BackoffElapses(r) PROVE Unfinished'
  BY <1>39, SMTT(60)
     DEF BackoffElapses, Unfinished, Fresh, Before, Finished, Alive, Owned,
         OneHolder, Linked, RunsExist, ItemsExist, CreationsApart, RowsOK,
         ActorsOK, WorkerPC, RequestPC, ExecutorPC
<1>40. ASSUME NEW r \in Runs, PayloadExpires(r) PROVE Unfinished'
  BY <1>40, SMTT(60)
     DEF PayloadExpires, Unfinished, Fresh, Before, Finished, Alive, Owned,
         OneHolder, Linked, RunsExist, ItemsExist, CreationsApart, RowsOK,
         ActorsOK, WorkerPC, RequestPC, ExecutorPC
<1>41. ASSUME UNCHANGED vars PROVE Unfinished'
  BY <1>41 DEF vars, Unfinished, Fresh, Before, Finished, Alive, Owned, OneHolder,
          Linked, RunsExist, ItemsExist, CreationsApart, RowsOK, ActorsOK,
          WorkerPC, RequestPC, ExecutorPC
<1> QED
  BY <1>1, <1>2, <1>3, <1>4, <1>5, <1>6, <1>7, <1>8, <1>9, <1>10, <1>11,
     <1>12, <1>13, <1>14, <1>15, <1>16, <1>17, <1>18, <1>19, <1>20, <1>21,
     <1>22, <1>23, <1>24, <1>25, <1>26, <1>27, <1>28, <1>29, <1>30, <1>31,
     <1>32, <1>33, <1>34, <1>35, <1>36, <1>37, <1>38, <1>39, <1>40, <1>41
  DEF Next, Work, Execute, Submit, Cancel, Resume, Start, Retry

(* Unfinished is an invariant. *)
LEMMA UnfinishedAlways == Spec => []Unfinished
<1>1. Init => Unfinished
  BY ConstantsAssumption, SMTT(60)
     DEF Init, Unfinished, Fresh, Before, NoItem, Row, Actors, Requests, Executors
<1>2. TInv /\ Linked /\ Owned /\ Unfinished /\ [Next]_vars => Unfinished'
  BY UnfinishedStep
<1> QED BY <1>1, <1>2, Typed, QueueInvariant, PTL DEF Spec

(* No step reopens a run that is over: three actions set a run going, one   *)
(* commits what a starting process has decided.                             *)
LEMMA NoneReopened ==
    ASSUME TInv, Linked, Unfinished, [Next]_vars,
           NEW r \in Runs, run[r] \in Finished, r \notin torn'
    PROVE  run'[r] \notin Alive
<1> USE ConstantsAssumption
    DEF TInv, Requests, Executors, Actors, Goto, Leave, Return, UpdateRun, CreateRun, Fault,
           queueVars, historyVars, Finished, Alive
<1>1. ASSUME NEW w \in Workers, OpenRun(w) PROVE run'[r] \notin Alive
  BY <1>1, SMTT(60) DEF OpenRun, Unfinished, Fresh, Before, RowsOK
<1>2. ASSUME NEW w \in Workers, StartCommit(w) PROVE run'[r] \notin Alive
  BY <1>2, ReconciledRun
<1>3. ASSUME NEW a \in Submitters, SubmitRun(a) PROVE run'[r] \notin Alive
  BY <1>3 DEF SubmitRun, RowsOK
<1>4. ASSUME NEW a \in Runners, RunNow(a) PROVE run'[r] \notin Alive
  BY <1>4 DEF RunNow, RowsOK
<1>5. CASE UNCHANGED run
  BY <1>5
<1>6. ASSUME NEW x \in Actors,
             \/ Park(x) \/ Succeed(x) \/ CancelRun(x) \/ FailRun(x) \/ BuryRun(x) \/ CancelCommit(x)
      PROVE  run'[r] \notin Alive
  BY <1>6 DEF Park, Succeed, CancelRun, FailRun, BuryRun, CancelCommit, RowsOK
<1>7. \/ \E w \in Workers : OpenRun(w) \/ StartCommit(w)
      \/ \E a \in Submitters : SubmitRun(a)
      \/ \E a \in Runners : RunNow(a)
      \/ UNCHANGED run
      \/ \E x \in Actors : \/ Park(x) \/ Succeed(x) \/ CancelRun(x) \/ FailRun(x)
                          \/ BuryRun(x) \/ CancelCommit(x)
  <2>1. CASE UNCHANGED vars
    BY <2>1 DEF vars
  <2>2. ASSUME NEW e \in Executors, Execute(e)
        PROVE  UNCHANGED run \/ Park(e) \/ Succeed(e) \/ CancelRun(e) \/ FailRun(e)
    BY <2>2 DEF Execute, Check, EnterNode, FenceHit, RunNode, Raised
  <2>3. ASSUME NEW w \in Workers, Work(w) \/ Start(w) \/ Crash(w) \/ LoopDies(w)
        PROVE  \/ UNCHANGED run \/ OpenRun(w) \/ StartCommit(w)
               \/ Park(w) \/ Succeed(w) \/ CancelRun(w) \/ FailRun(w) \/ BuryRun(w)
    BY <2>3, <2>2
       DEF Work, Start, Claim, MarkRunning, LoadRun, Begin, QueueError, Settle, FailLoad, RetryItem,
           BuryItem, BuryLoad, DrainEnds, StartLoad, Crash, LoopDies
  <2>4. ASSUME NEW a \in Submitters, Submit(a) PROVE SubmitRun(a) \/ UNCHANGED run
    BY <2>4 DEF Submit, Enqueue
  <2>5. ASSUME NEW a \in Runners, RunNow(a) \/ Retry(a) \/ Execute(a)
        PROVE  UNCHANGED run \/ RunNow(a) \/ Park(a) \/ Succeed(a) \/ CancelRun(a) \/ FailRun(a)
    BY <2>5, <2>2 DEF Retry
  <2>6. ASSUME NEW a \in Cancellers, Cancel(a) PROVE CancelCommit(a) \/ UNCHANGED run
    BY <2>6 DEF Cancel, CancelLoad, CancelItemLoad, CancelItemCommit
  <2>7. ASSUME NEW a \in Resumers, Resume(a)
        PROVE  UNCHANGED run \/ Park(a) \/ Succeed(a) \/ CancelRun(a) \/ FailRun(a)
    BY <2>7, <2>2 DEF Resume, ResumeLoad, ResumeCheck, Redo
  <2>8. ASSUME NEW a \in Requests, Abandon(a) PROVE UNCHANGED run
    BY <2>8 DEF Abandon
  <2>9. ASSUME NEW q \in Runs, LeaseExpires(q) \/ BackoffElapses(q) \/ PayloadExpires(q)
        PROVE  UNCHANGED run
    BY <2>9 DEF LeaseExpires, BackoffElapses, PayloadExpires
  <2> QED BY <2>1, <2>3, <2>4, <2>5, <2>6, <2>7, <2>8, <2>9 DEF Next
<1> QED BY <1>1, <1>2, <1>3, <1>4, <1>5, <1>6, <1>7

(* A run that finished or waits for an approval is not reopened: not by a   *)
(* retry of its item and not by the reconciliation after a crash.           *)
THEOREM FinishedCorrect == Spec => FinishedStays
<1> DEFINE Kept == \A r \in Runs :
        run[r] \in {"success", "failed", "pending_approval"} /\ r \notin torn' =>
            run'[r] \notin {"queued", "running"}
<1>1. TInv /\ Linked /\ Unfinished /\ [Next]_vars => [Kept]_vars
  BY NoneReopened DEF Finished, Alive
<1>2. Spec => [][Kept]_vars
  BY <1>1, Typed, QueueInvariant, UnfinishedAlways, PTL DEF Spec
<1> QED BY <1>2 DEF FinishedStays

(***************************************************************************)
(* The contract: what a client that polls the status of a run may see.     *)
(***************************************************************************)

(* The places of an executor in the graph, but where it cancels its run,    *)
(* and of a worker that has given its run up.                               *)
Executing == {"check", "enter", "node", "park", "succeed", "raised", "fail_run"}
GivingUp  == {"bury", "bury_run", "bury_write"}

(* An item was handed out if it is leased or running, and then once at      *)
(* least; before it is enqueued it was not.                                 *)
Numbered ==
    /\ \A r \in Runs :
          /\ item[r].status = "none" => item[r].attempts = 0
          /\ item[r].status \in {"leased", "running"} => item[r].attempts # 0
    /\ \A w \in Workers : job[w] \in Runs => item[job[w]].attempts # 0

(* Where an actor is tells the status of its run, which nobody else writes. *)
Following ==
    /\ \A r \in Runs : run[r] \notin Cancelling
    /\ \A w \in Workers : job[w] \in Runs =>
          /\ pc[w] \notin {"cancel", "settle_cancelled"}
          /\ pc[w] \in Before \cup GivingUp => run[job[w]] \in Alive
          /\ pc[w] \in {"opened"} \cup Executing => run[job[w]] = "running"
          /\ pc[w] \in GivingUp => item[job[w]].attempts = MaxAttempts
    /\ \A a \in Runners : job[a] \in Runs =>
          /\ pc[a] \in Executing
          /\ run[job[a]] = "running"
          /\ \A b \in Runners : job[a] = job[b] => a = b
    /\ \A a \in Resumers : job[a] \in Runs =>
          /\ pc[a] \in {"recheck", "redo"} \cup Executing
          /\ run[job[a]] = "pending_approval"

(* Nobody cancels, and at most one request resumes.                         *)
Undisturbed ==
    /\ Cancellers = {}
    /\ \A a, b \in Resumers : a = b

(* Nor does it write the status of a run that is over, or without an item. *)
LEMMA ReconciledEnds ==
    ASSUME TInv, NEW w \in Workers, StartCommit(w), NEW r \in Runs, r \notin torn',
           run[r] \notin Cancelling
    PROVE  /\ run[r] \in Finished => run'[r] = run[r]
           /\ run'[r] \in {"queued", "failed", run[r]}
           /\ run'[r] = "failed" => run[r] = "failed" \/ item[r].attempts >= MaxAttempts
           /\ run'[r] = "queued" /\ run[r] # "queued" => item[r].attempts < MaxAttempts
<1>1. r \notin torn /\ plan[w][r] \in {Keep, Outcome(r)}
  BY DEF StartCommit
<1>2. item[r] \in Items /\ run[r] \in RunStatus /\ item[r].attempts \in Nat
  BY DEF TInv, RowsOK, Items
<1>3. run'[r] = IF plan[w][r].run = "keep" THEN run[r] ELSE plan[w][r].run
  BY DEF StartCommit
<1>4. CASE plan[w][r] = Keep
  BY <1>3, <1>4 DEF Keep
<1>5. CASE ~Stale(r) /\ plan[w][r] = Outcome(r)
  BY <1>3, <1>5 DEF Keep, Outcome
<1>6. CASE Stale(r) /\ plan[w][r] = Outcome(r)
  BY <1>6, <1>2, <1>3, ConstantsAssumption, SMT DEF Outcome, Finished
<1> QED BY <1>1, <1>4, <1>5, <1>6

(* Every step preserves Numbered. *)
LEMMA NumberedStep ==
    ASSUME TInv, Linked, Numbered, [Next]_vars PROVE Numbered'
<1> USE ConstantsAssumption
    DEF TInv, Requests, Executors, Actors, Goto, Leave, Return, UpdateRun, CreateRun, Fault,
           Holds, queueVars, historyVars
<1>1. ASSUME NEW w \in Workers, LoadRun(w) PROVE Numbered'
  BY <1>1, SMTT(60)
     DEF LoadRun, Numbered, Linked, RunsExist, ItemsExist, CreationsApart,
         RowsOK, ActorsOK, WorkerPC, RequestPC, ExecutorPC
<1>2. ASSUME NEW w \in Workers, OpenRun(w) PROVE Numbered'
  BY <1>2, SMTT(60)
     DEF OpenRun, Numbered, Linked, RunsExist, ItemsExist, CreationsApart,
         RowsOK, ActorsOK, WorkerPC, RequestPC, ExecutorPC
<1>3. ASSUME NEW w \in Workers, Begin(w) PROVE Numbered'
  BY <1>3, SMTT(60)
     DEF Begin, Numbered, Linked, RunsExist, ItemsExist, CreationsApart,
         RowsOK, ActorsOK, WorkerPC, RequestPC, ExecutorPC
<1>4. ASSUME NEW w \in Workers, QueueError(w) PROVE Numbered'
  BY <1>4, SMTT(60)
     DEF QueueError, Numbered, Linked, RunsExist, ItemsExist, CreationsApart,
         RowsOK, ActorsOK, WorkerPC, RequestPC, ExecutorPC
<1>5. ASSUME NEW w \in Workers, BuryLoad(w) PROVE Numbered'
  BY <1>5, SMTT(60)
     DEF BuryLoad, Numbered, Linked, RunsExist, ItemsExist, CreationsApart,
         RowsOK, ActorsOK, WorkerPC, RequestPC, ExecutorPC
<1>6. ASSUME NEW w \in Workers, BuryRun(w) PROVE Numbered'
  BY <1>6, SMTT(60)
     DEF BuryRun, Numbered, Linked, RunsExist, ItemsExist, CreationsApart,
         RowsOK, ActorsOK, WorkerPC, RequestPC, ExecutorPC
<1>7. ASSUME NEW w \in Workers, DrainEnds(w) PROVE Numbered'
  BY <1>7, SMTT(60)
     DEF DrainEnds, Numbered, Linked, RunsExist, ItemsExist, CreationsApart,
         RowsOK, ActorsOK, WorkerPC, RequestPC, ExecutorPC
<1>8. ASSUME NEW w \in Workers, LoopDies(w) PROVE Numbered'
  BY <1>8, SMTT(60)
     DEF LoopDies, Numbered, Linked, RunsExist, ItemsExist, CreationsApart,
         RowsOK, ActorsOK, WorkerPC, RequestPC, ExecutorPC
<1>9. ASSUME NEW w \in Workers, Claim(w) PROVE Numbered'
  <2>1. PICK r \in Runs :
           /\ Claimable(r)
           /\ item' = [item EXCEPT ![r].status = "leased", ![r].attempts = @ + 1,
                                  ![r].lease = "live"]
           /\ job' = [job EXCEPT ![w] = r]
    BY <1>9 DEF Claim
  <2>2. \A q \in Runs : item[q] \in Items /\ item[q].attempts \in Nat
    BY DEF RowsOK, Items
  <2>3. item'[r].attempts = item[r].attempts + 1 /\ item[r].attempts + 1 # 0
    BY <2>1, <2>2, SMT DEF RowsOK
  <2>4. \A q \in Runs \ {r} : item'[q] = item[q]
    BY <2>1 DEF RowsOK
  <2>5. item'[r].status = "leased"
    BY <2>1, <2>2 DEF RowsOK, Items
  <2> QED BY <2>1, <2>3, <2>4, <2>5 DEF Numbered, ActorsOK
<1>10. ASSUME NEW w \in Workers, MarkRunning(w) PROVE Numbered'
  BY <1>10, SMTT(60)
     DEF MarkRunning, Numbered, Linked, RunsExist, ItemsExist, CreationsApart,
         RowsOK, ActorsOK, WorkerPC, RequestPC, ExecutorPC
<1>11. ASSUME NEW w \in Workers, Settle(w) PROVE Numbered'
  BY <1>11, SMTT(60)
     DEF Settle, Numbered, Linked, RunsExist, ItemsExist, CreationsApart,
         RowsOK, ActorsOK, WorkerPC, RequestPC, ExecutorPC
<1>12. ASSUME NEW w \in Workers, FailLoad(w) PROVE Numbered'
  BY <1>12, SMT DEF FailLoad, Numbered
<1>13. ASSUME NEW w \in Workers, RetryItem(w) PROVE Numbered'
  BY <1>13, SMTT(60)
     DEF RetryItem, Numbered, Linked, RunsExist, ItemsExist, CreationsApart,
         RowsOK, ActorsOK, WorkerPC, RequestPC, ExecutorPC
<1>14. ASSUME NEW w \in Workers, BuryItem(w) PROVE Numbered'
  BY <1>14, SMTT(60)
     DEF BuryItem, Numbered, Linked, RunsExist, ItemsExist, CreationsApart,
         RowsOK, ActorsOK, WorkerPC, RequestPC, ExecutorPC
<1>15. ASSUME NEW w \in Workers, StartLoad(w) PROVE Numbered'
  BY <1>15, SMTT(60)
     DEF StartLoad, Outcome, Stale, Keep, Numbered, Linked, RunsExist,
         ItemsExist, CreationsApart, RowsOK, ActorsOK, WorkerPC, RequestPC,
         ExecutorPC
<1>16. ASSUME NEW w \in Workers, StartCommit(w) PROVE Numbered'
  <2>1. ASSUME NEW r \in Runs
        PROVE  \/ item'[r] = item[r]
               \/ /\ item'[r].status \in {"queued"} \cup Settled
                  /\ item'[r].attempts = item[r].attempts
    BY <1>16, <2>1, Reconciliation
  <2>2. UNCHANGED job
    BY <1>16 DEF StartCommit
  <2> QED BY <2>1, <2>2 DEF Numbered, Settled
<1>17. ASSUME NEW w \in Workers, Crash(w) PROVE Numbered'
  BY <1>17, SMTT(60)
     DEF Crash, Keep, Numbered, Linked, RunsExist, ItemsExist, CreationsApart,
         RowsOK, ActorsOK, WorkerPC, RequestPC, ExecutorPC
<1>18. ASSUME NEW e \in Executors, Check(e) PROVE Numbered'
  BY <1>18, SMTT(60)
     DEF Check, Numbered, Linked, RunsExist, ItemsExist, CreationsApart,
         RowsOK, ActorsOK, WorkerPC, RequestPC, ExecutorPC
<1>19. ASSUME NEW e \in Executors, EnterNode(e) PROVE Numbered'
  BY <1>19, SMTT(60)
     DEF EnterNode, Numbered, Linked, RunsExist, ItemsExist, CreationsApart,
         RowsOK, ActorsOK, WorkerPC, RequestPC, ExecutorPC
<1>20. ASSUME NEW e \in Executors, FenceHit(e) PROVE Numbered'
  BY <1>20, SMTT(60)
     DEF FenceHit, Numbered, Linked, RunsExist, ItemsExist, CreationsApart,
         RowsOK, ActorsOK, WorkerPC, RequestPC, ExecutorPC
<1>21. ASSUME NEW e \in Executors, RunNode(e) PROVE Numbered'
  BY <1>21, SMTT(60)
     DEF RunNode, Numbered, Linked, RunsExist, ItemsExist, CreationsApart,
         RowsOK, ActorsOK, WorkerPC, RequestPC, ExecutorPC
<1>22. ASSUME NEW e \in Executors, Park(e) PROVE Numbered'
  BY <1>22, SMTT(60)
     DEF Park, Numbered, Linked, RunsExist, ItemsExist, CreationsApart,
         RowsOK, ActorsOK, WorkerPC, RequestPC, ExecutorPC
<1>23. ASSUME NEW e \in Executors, Succeed(e) PROVE Numbered'
  BY <1>23, SMTT(60)
     DEF Succeed, Numbered, Linked, RunsExist, ItemsExist, CreationsApart,
         RowsOK, ActorsOK, WorkerPC, RequestPC, ExecutorPC
<1>24. ASSUME NEW e \in Executors, CancelRun(e) PROVE Numbered'
  BY <1>24, SMTT(60)
     DEF CancelRun, Numbered, Linked, RunsExist, ItemsExist, CreationsApart,
         RowsOK, ActorsOK, WorkerPC, RequestPC, ExecutorPC
<1>25. ASSUME NEW e \in Executors, Raised(e) PROVE Numbered'
  BY <1>25, SMTT(60)
     DEF Raised, Numbered, Linked, RunsExist, ItemsExist, CreationsApart,
         RowsOK, ActorsOK, WorkerPC, RequestPC, ExecutorPC
<1>26. ASSUME NEW e \in Executors, FailRun(e) PROVE Numbered'
  BY <1>26, SMTT(60)
     DEF FailRun, Numbered, Linked, RunsExist, ItemsExist, CreationsApart,
         RowsOK, ActorsOK, WorkerPC, RequestPC, ExecutorPC
<1>27. ASSUME NEW a \in Submitters, SubmitRun(a) PROVE Numbered'
  BY <1>27, SMTT(60)
     DEF SubmitRun, Numbered, Linked, RunsExist, ItemsExist, CreationsApart,
         RowsOK, ActorsOK, WorkerPC, RequestPC, ExecutorPC
<1>28. ASSUME NEW a \in Submitters, Enqueue(a) PROVE Numbered'
  <2>1. job[a] \in Runs /\ item[job[a]].status = "none"
    BY <1>28 DEF Enqueue, Linked, CreationsApart, ActorsOK
  <2>2. \A r \in Runs \ {job[a]} : item'[r] = item[r]
    BY <1>28 DEF Enqueue, RowsOK
  <2>3. \A w \in Workers : job[w] # job[a]
    BY <2>1 DEF Linked, ItemsExist
  <2>4. /\ run' = run
        /\ pc' = [pc EXCEPT ![a] = "done"]
        /\ job' = [job EXCEPT ![a] = NoRun]
    BY <1>28 DEF Enqueue
  <2>5. item'[job[a]].status = "queued"
    BY <1>28, <2>1 DEF Enqueue, NewItem, Row, RowsOK
  <2>6. \A w \in Workers : job'[w] = job[w]
    BY <1>28, <2>4 DEF ActorsOK
  <2> QED BY <2>1, <2>2, <2>3, <2>5, <2>6 DEF Numbered
<1>29. ASSUME NEW a \in Runners, RunNow(a) PROVE Numbered'
  BY <1>29, SMTT(60)
     DEF RunNow, Numbered, Linked, RunsExist, ItemsExist, CreationsApart,
         RowsOK, ActorsOK, WorkerPC, RequestPC, ExecutorPC
<1>30. ASSUME NEW a \in Cancellers, CancelLoad(a) PROVE Numbered'
  BY <1>30, SMTT(60)
     DEF CancelLoad, Numbered, Linked, RunsExist, ItemsExist, CreationsApart,
         RowsOK, ActorsOK, WorkerPC, RequestPC, ExecutorPC
<1>31. ASSUME NEW a \in Cancellers, CancelCommit(a) PROVE Numbered'
  BY <1>31, SMTT(60)
     DEF CancelCommit, Numbered, Linked, RunsExist, ItemsExist,
         CreationsApart, RowsOK, ActorsOK, WorkerPC, RequestPC, ExecutorPC
<1>32. ASSUME NEW a \in Cancellers, CancelItemLoad(a) PROVE Numbered'
  BY <1>32, SMTT(60)
     DEF CancelItemLoad, Numbered, Linked, RunsExist, ItemsExist,
         CreationsApart, RowsOK, ActorsOK, WorkerPC, RequestPC, ExecutorPC
<1>33. ASSUME NEW a \in Cancellers, CancelItemCommit(a) PROVE Numbered'
  BY <1>33, SMTT(60)
     DEF CancelItemCommit, Numbered, Linked, RunsExist, ItemsExist,
         CreationsApart, RowsOK, ActorsOK, WorkerPC, RequestPC, ExecutorPC
<1>34. ASSUME NEW a \in Resumers, ResumeLoad(a) PROVE Numbered'
  BY <1>34, SMTT(60)
     DEF ResumeLoad, Numbered, Linked, RunsExist, ItemsExist, CreationsApart,
         RowsOK, ActorsOK, WorkerPC, RequestPC, ExecutorPC
<1>35. ASSUME NEW a \in Resumers, ResumeCheck(a) PROVE Numbered'
  BY <1>35, SMTT(60)
     DEF ResumeCheck, Numbered, Linked, RunsExist, ItemsExist, CreationsApart,
         RowsOK, ActorsOK, WorkerPC, RequestPC, ExecutorPC
<1>36. ASSUME NEW a \in Resumers, Redo(a) PROVE Numbered'
  BY <1>36, SMTT(60)
     DEF Redo, Numbered, Linked, RunsExist, ItemsExist, CreationsApart,
         RowsOK, ActorsOK, WorkerPC, RequestPC, ExecutorPC
<1>37. ASSUME NEW a \in Requests, Abandon(a) PROVE Numbered'
  BY <1>37, SMTT(60)
     DEF Abandon, Numbered, Linked, RunsExist, ItemsExist, CreationsApart,
         RowsOK, ActorsOK, WorkerPC, RequestPC, ExecutorPC
<1>38. ASSUME NEW r \in Runs, LeaseExpires(r) PROVE Numbered'
  BY <1>38, SMTT(60)
     DEF LeaseExpires, Numbered, Linked, RunsExist, ItemsExist,
         CreationsApart, RowsOK, ActorsOK, WorkerPC, RequestPC, ExecutorPC
<1>39. ASSUME NEW r \in Runs, BackoffElapses(r) PROVE Numbered'
  BY <1>39, SMTT(60)
     DEF BackoffElapses, Numbered, Linked, RunsExist, ItemsExist,
         CreationsApart, RowsOK, ActorsOK, WorkerPC, RequestPC, ExecutorPC
<1>40. ASSUME NEW r \in Runs, PayloadExpires(r) PROVE Numbered'
  BY <1>40, SMTT(60)
     DEF PayloadExpires, Numbered, Linked, RunsExist, ItemsExist,
         CreationsApart, RowsOK, ActorsOK, WorkerPC, RequestPC, ExecutorPC
<1>41. ASSUME UNCHANGED vars PROVE Numbered'
  BY <1>41 DEF vars, Numbered, Linked, RunsExist, ItemsExist, CreationsApart,
          RowsOK, ActorsOK, WorkerPC, RequestPC, ExecutorPC
<1> QED
  BY <1>1, <1>2, <1>3, <1>4, <1>5, <1>6, <1>7, <1>8, <1>9, <1>10, <1>11,
     <1>12, <1>13, <1>14, <1>15, <1>16, <1>17, <1>18, <1>19, <1>20, <1>21,
     <1>22, <1>23, <1>24, <1>25, <1>26, <1>27, <1>28, <1>29, <1>30, <1>31,
     <1>32, <1>33, <1>34, <1>35, <1>36, <1>37, <1>38, <1>39, <1>40, <1>41
  DEF Next, Work, Execute, Submit, Cancel, Resume, Start, Retry

(* Every undisturbed step preserves Following. *)
LEMMA FollowingStep ==
    ASSUME Undisturbed, torn = {}, torn' = {}, TInv, 
           Linked, Owned, Counted, Unfinished, Following, [Next]_vars PROVE Following'
<1> USE ConstantsAssumption
    DEF TInv, Requests, Executors, Actors, Goto, Leave, Return, UpdateRun, CreateRun, Fault,
           Holds, queueVars, historyVars
<1>1. ASSUME NEW w \in Workers, LoadRun(w) PROVE Following'
  BY <1>1, SMTT(60)
     DEF LoadRun, Following, Executing, GivingUp, Before, Alive, Cancelling,
         Terminal, Undisturbed, Owned, OneHolder, Linked, RunsExist,
         ItemsExist, Unfinished, Fresh, Finished, RowsOK, ActorsOK, WorkerPC,
         RequestPC, ExecutorPC
<1>2. ASSUME NEW w \in Workers, OpenRun(w) PROVE Following'
  BY <1>2, SMTT(60)
     DEF OpenRun, Following, Executing, GivingUp, Before, Alive, Cancelling,
         Terminal, Undisturbed, Owned, OneHolder, Linked, RunsExist,
         ItemsExist, Unfinished, Fresh, Finished, RowsOK, ActorsOK, WorkerPC,
         RequestPC, ExecutorPC
<1>3. ASSUME NEW w \in Workers, Begin(w) PROVE Following'
  BY <1>3, SMTT(60)
     DEF Begin, Following, Executing, GivingUp, Before, Alive, Cancelling,
         Terminal, Undisturbed, Owned, OneHolder, Linked, RunsExist,
         ItemsExist, Unfinished, Fresh, Finished, RowsOK, ActorsOK, WorkerPC,
         RequestPC, ExecutorPC
<1>4. ASSUME NEW w \in Workers, QueueError(w) PROVE Following'
  BY <1>4, SMTT(60)
     DEF QueueError, Following, Executing, GivingUp, Before, Alive, Cancelling,
         Terminal, Undisturbed, Owned, OneHolder, Linked, RunsExist,
         ItemsExist, Unfinished, Fresh, Finished, RowsOK, ActorsOK, WorkerPC,
         RequestPC, ExecutorPC
<1>5. ASSUME NEW w \in Workers, BuryLoad(w) PROVE Following'
  BY <1>5, SMTT(60)
     DEF BuryLoad, Following, Executing, GivingUp, Before, Alive, Cancelling,
         Terminal, Undisturbed, Owned, OneHolder, Linked, RunsExist,
         ItemsExist, Unfinished, Fresh, Finished, RowsOK, ActorsOK, WorkerPC,
         RequestPC, ExecutorPC
<1>6. ASSUME NEW w \in Workers, BuryRun(w) PROVE Following'
  BY <1>6, SMTT(60)
     DEF BuryRun, Following, Executing, GivingUp, Before, Alive, Cancelling,
         Terminal, Undisturbed, Owned, OneHolder, Linked, RunsExist,
         ItemsExist, Unfinished, Fresh, Finished, RowsOK, ActorsOK, WorkerPC,
         RequestPC, ExecutorPC
<1>7. ASSUME NEW w \in Workers, DrainEnds(w) PROVE Following'
  BY <1>7, SMTT(60)
     DEF DrainEnds, Following, Executing, GivingUp, Before, Alive, Cancelling,
         Terminal, Undisturbed, Owned, OneHolder, Linked, RunsExist,
         ItemsExist, Unfinished, Fresh, Finished, RowsOK, ActorsOK, WorkerPC,
         RequestPC, ExecutorPC
<1>8. ASSUME NEW w \in Workers, LoopDies(w) PROVE Following'
  BY <1>8, SMTT(60)
     DEF LoopDies, Following, Executing, GivingUp, Before, Alive, Cancelling,
         Terminal, Undisturbed, Owned, OneHolder, Linked, RunsExist,
         ItemsExist, Unfinished, Fresh, Finished, RowsOK, ActorsOK, WorkerPC,
         RequestPC, ExecutorPC
<1>9. ASSUME NEW w \in Workers, Claim(w) PROVE Following'
  <2>1. PICK r \in Runs :
           /\ Claimable(r)
           /\ item' = [item EXCEPT ![r].status = "leased", ![r].attempts = @ + 1,
                                  ![r].lease = "live"]
           /\ job' = [job EXCEPT ![w] = r]
    BY <1>9 DEF Claim
  <2>2. \A q \in Runs \ {r} : item'[q] = item[q]
    BY <2>1 DEF RowsOK
  <2>3. run[r] \in Alive
    BY <2>1
       DEF Claimable, Unfinished, Fresh, Following, Linked, RunsExist, RowsOK, RunStatus,
           Finished, Alive, Cancelling, Terminal
  <2>4. \A v \in Workers : job[v] # r
    BY <2>1 DEF Claimable, Owned
  <2> QED BY <1>9, <2>1, <2>2, <2>3, <2>4, SMTT(60)
     DEF Claim, Following, Executing, GivingUp, Before, Alive, RowsOK, ActorsOK
<1>10. ASSUME NEW w \in Workers, MarkRunning(w) PROVE Following'
  BY <1>10, SMTT(60)
     DEF MarkRunning, Following, Executing, GivingUp, Before, Alive,
         Cancelling, Terminal, Undisturbed, Owned, OneHolder, Linked,
         RunsExist, ItemsExist, Unfinished, Fresh, Finished, RowsOK, ActorsOK,
         WorkerPC, RequestPC, ExecutorPC
<1>11. ASSUME NEW w \in Workers, Settle(w) PROVE Following'
  BY <1>11, SMTT(60)
     DEF Settle, Following, Executing, GivingUp, Before, Alive, Cancelling,
         Terminal, Undisturbed, Owned, OneHolder, Linked, RunsExist,
         ItemsExist, Unfinished, Fresh, Finished, RowsOK, ActorsOK, WorkerPC,
         RequestPC, ExecutorPC
<1>12. ASSUME NEW w \in Workers, FailLoad(w) PROVE Following'
  <2>1. job[w] \in Runs
    BY <1>12 DEF FailLoad, ActorsOK
  <2>2. item[job[w]].attempts \in Nat /\ item[job[w]].attempts <= MaxAttempts
    BY <2>1 DEF Counted, RowsOK, Items
  <2>3. item[job[w]].attempts >= MaxAttempts => item[job[w]].attempts = MaxAttempts
    BY <2>2, ConstantsAssumption, SMT
  <2>4. /\ pc[w] = "fail"
        /\ pc' = [pc EXCEPT ![w] = IF item[job[w]].attempts >= MaxAttempts THEN "bury" ELSE "retry"]
        /\ UNCHANGED <<run, item, job>>
    BY <1>12 DEF FailLoad
  <2>5. run[job[w]] \in Alive
    BY <2>1, <2>4 DEF Following, Before
  <2> HIDE DEF Requests, Executors, Actors, TInv
  <2>6. pc \in [Actors -> WorkerPC \cup RequestPC] /\ w \in Actors
    BY DEF TInv, ActorsOK, Actors
  <2> QED BY <2>1, <2>3, <2>4, <2>5, <2>6, SMTT(60)
     DEF Following, Executing, GivingUp, Before, Actors, Requests
<1>13. ASSUME NEW w \in Workers, RetryItem(w) PROVE Following'
  BY <1>13, SMTT(60)
     DEF RetryItem, Following, Executing, GivingUp, Before, Alive, Cancelling,
         Terminal, Undisturbed, Owned, OneHolder, Linked, RunsExist,
         ItemsExist, Unfinished, Fresh, Finished, RowsOK, ActorsOK, WorkerPC,
         RequestPC, ExecutorPC
<1>14. ASSUME NEW w \in Workers, BuryItem(w) PROVE Following'
  BY <1>14, SMTT(60)
     DEF BuryItem, Following, Executing, GivingUp, Before, Alive, Cancelling,
         Terminal, Undisturbed, Owned, OneHolder, Linked, RunsExist,
         ItemsExist, Unfinished, Fresh, Finished, RowsOK, ActorsOK, WorkerPC,
         RequestPC, ExecutorPC
<1>15. ASSUME NEW w \in Workers, StartLoad(w) PROVE Following'
  BY <1>15, SMTT(60)
     DEF StartLoad, Outcome, Stale, Keep, Following, Executing, GivingUp,
         Before, Alive, Cancelling, Terminal, Undisturbed, Owned, OneHolder,
         Linked, RunsExist, ItemsExist, Unfinished, Fresh, Finished, RowsOK,
         ActorsOK, WorkerPC, RequestPC, ExecutorPC
<1>16. ASSUME NEW w \in Workers, StartCommit(w) PROVE Following'
  <2>1. ASSUME NEW r \in Runs
        PROVE  /\ \/ item'[r] = item[r] /\ run'[r] = run[r]
                  \/ Stale(r) /\ run'[r] \in {"queued", "failed"} \cup {run[r]}
               /\ run[r] \in Finished => run'[r] = run[r]
    <3>1. r \notin torn' /\ run[r] \notin Cancelling
      BY <2>1 DEF Following
    <3>2. (item'[r] = item[r] /\ run'[r] = run[r]) \/ Stale(r)
      BY <1>16, <2>1, <3>1, ReconciledRun
    <3>3. /\ run[r] \in Finished => run'[r] = run[r]
          /\ run'[r] \in {"queued", "failed", run[r]}
      BY <1>16, <2>1, <3>1, ReconciledEnds
    <3> QED BY <3>2, <3>3
  <2>2. UNCHANGED <<pc, job>>
    BY <1>16 DEF StartCommit
  <2>3. \A a \in Workers \cup Runners : job[a] \in Runs => ~Stale(job[a])
    BY DEF Stale, Owned, Unfinished
  <2>4. ASSUME NEW a \in Workers \cup Runners \cup Resumers, job[a] \in Runs
        PROVE  run'[job[a]] = run[job[a]]
    BY <2>1, <2>3, <2>4 DEF Following, Finished
  <2>5. ASSUME NEW a \in Workers, job[a] \in Runs
        PROVE  item'[job[a]] = item[job[a]]
    BY <2>1, <2>3, <2>5
  <2>6. \A r \in Runs : run'[r] \notin Cancelling
    BY <2>1 DEF Following, Cancelling
  <2> QED BY <2>2, <2>4, <2>5, <2>6 DEF Following
<1>17. ASSUME NEW w \in Workers, Crash(w) PROVE Following'
  BY <1>17, SMTT(60)
     DEF Crash, Keep, Following, Executing, GivingUp, Before, Alive,
         Cancelling, Terminal, Undisturbed, Owned, OneHolder, Linked,
         RunsExist, ItemsExist, Unfinished, Fresh, Finished, RowsOK, ActorsOK,
         WorkerPC, RequestPC, ExecutorPC
<1>18. ASSUME NEW e \in Executors, Check(e) PROVE Following'
  BY <1>18, SMTT(60)
     DEF Check, Following, Executing, GivingUp, Before, Alive, Cancelling,
         Terminal, Undisturbed, Owned, OneHolder, Linked, RunsExist,
         ItemsExist, Unfinished, Fresh, Finished, RowsOK, ActorsOK, WorkerPC,
         RequestPC, ExecutorPC
<1>19. ASSUME NEW e \in Executors, EnterNode(e) PROVE Following'
  BY <1>19, SMTT(60)
     DEF EnterNode, Following, Executing, GivingUp, Before, Alive, Cancelling,
         Terminal, Undisturbed, Owned, OneHolder, Linked, RunsExist,
         ItemsExist, Unfinished, Fresh, Finished, RowsOK, ActorsOK, WorkerPC,
         RequestPC, ExecutorPC
<1>20. ASSUME NEW e \in Executors, FenceHit(e) PROVE Following'
  BY <1>20, SMTT(60)
     DEF FenceHit, Following, Executing, GivingUp, Before, Alive, Cancelling,
         Terminal, Undisturbed, Owned, OneHolder, Linked, RunsExist,
         ItemsExist, Unfinished, Fresh, Finished, RowsOK, ActorsOK, WorkerPC,
         RequestPC, ExecutorPC
<1>21. ASSUME NEW e \in Executors, RunNode(e) PROVE Following'
  BY <1>21, SMTT(60)
     DEF RunNode, Following, Executing, GivingUp, Before, Alive, Cancelling,
         Terminal, Undisturbed, Owned, OneHolder, Linked, RunsExist,
         ItemsExist, Unfinished, Fresh, Finished, RowsOK, ActorsOK, WorkerPC,
         RequestPC, ExecutorPC
<1>22. ASSUME NEW e \in Executors, Park(e) PROVE Following'
  BY <1>22, SMTT(60)
     DEF Park, Following, Executing, GivingUp, Before, Alive, Cancelling,
         Terminal, Undisturbed, Owned, OneHolder, Linked, RunsExist,
         ItemsExist, Unfinished, Fresh, Finished, RowsOK, ActorsOK, WorkerPC,
         RequestPC, ExecutorPC
<1>23. ASSUME NEW e \in Executors, Succeed(e) PROVE Following'
  BY <1>23, SMTT(60)
     DEF Succeed, Following, Executing, GivingUp, Before, Alive, Cancelling,
         Terminal, Undisturbed, Owned, OneHolder, Linked, RunsExist,
         ItemsExist, Unfinished, Fresh, Finished, RowsOK, ActorsOK, WorkerPC,
         RequestPC, ExecutorPC
<1>24. ASSUME NEW e \in Executors, CancelRun(e) PROVE Following'
  BY <1>24, SMTT(60)
     DEF CancelRun, Following, Executing, GivingUp, Before, Alive, Cancelling,
         Terminal, Undisturbed, Owned, OneHolder, Linked, RunsExist,
         ItemsExist, Unfinished, Fresh, Finished, RowsOK, ActorsOK, WorkerPC,
         RequestPC, ExecutorPC
<1>25. ASSUME NEW e \in Executors, Raised(e) PROVE Following'
  BY <1>25, SMTT(60)
     DEF Raised, Following, Executing, GivingUp, Before, Alive, Cancelling,
         Terminal, Undisturbed, Owned, OneHolder, Linked, RunsExist,
         ItemsExist, Unfinished, Fresh, Finished, RowsOK, ActorsOK, WorkerPC,
         RequestPC, ExecutorPC
<1>26. ASSUME NEW e \in Executors, FailRun(e) PROVE Following'
  BY <1>26, SMTT(60)
     DEF FailRun, Following, Executing, GivingUp, Before, Alive, Cancelling,
         Terminal, Undisturbed, Owned, OneHolder, Linked, RunsExist,
         ItemsExist, Unfinished, Fresh, Finished, RowsOK, ActorsOK, WorkerPC,
         RequestPC, ExecutorPC
<1>27. ASSUME NEW a \in Submitters, SubmitRun(a) PROVE Following'
  BY <1>27, SMTT(60)
     DEF SubmitRun, Following, Executing, GivingUp, Before, Alive, Cancelling,
         Terminal, Undisturbed, Owned, OneHolder, Linked, RunsExist,
         ItemsExist, Unfinished, Fresh, Finished, RowsOK, ActorsOK, WorkerPC,
         RequestPC, ExecutorPC
<1>28. ASSUME NEW a \in Submitters, Enqueue(a) PROVE Following'
  <2>1. job[a] \in Runs /\ item[job[a]].status = "none"
    BY <1>28 DEF Enqueue, Linked, CreationsApart, ActorsOK
  <2>2. \A r \in Runs \ {job[a]} : item'[r] = item[r]
    BY <1>28 DEF Enqueue, RowsOK
  <2>3. \A w \in Workers : job[w] # job[a]
    BY <2>1 DEF Linked, ItemsExist
  <2>4. /\ run' = run
        /\ pc' = [pc EXCEPT ![a] = "done"]
        /\ job' = [job EXCEPT ![a] = NoRun]
    BY <1>28 DEF Enqueue
  <2> QED BY <2>1, <2>2, <2>3, <2>4, SMTT(60) DEF Following, ActorsOK
<1>29. ASSUME NEW a \in Runners, RunNow(a) PROVE Following'
  BY <1>29, SMTT(60)
     DEF RunNow, Following, Executing, GivingUp, Before, Alive, Cancelling,
         Terminal, Undisturbed, Owned, OneHolder, Linked, RunsExist,
         ItemsExist, Unfinished, Fresh, Finished, RowsOK, ActorsOK, WorkerPC,
         RequestPC, ExecutorPC
<1>30. ASSUME NEW a \in Cancellers, CancelLoad(a) PROVE Following'
  BY <1>30, SMTT(60)
     DEF CancelLoad, Following, Executing, GivingUp, Before, Alive, Cancelling,
         Terminal, Undisturbed, Owned, OneHolder, Linked, RunsExist,
         ItemsExist, Unfinished, Fresh, Finished, RowsOK, ActorsOK, WorkerPC,
         RequestPC, ExecutorPC
<1>31. ASSUME NEW a \in Cancellers, CancelCommit(a) PROVE Following'
  BY <1>31, SMTT(60)
     DEF CancelCommit, Following, Executing, GivingUp, Before, Alive,
         Cancelling, Terminal, Undisturbed, Owned, OneHolder, Linked,
         RunsExist, ItemsExist, Unfinished, Fresh, Finished, RowsOK, ActorsOK,
         WorkerPC, RequestPC, ExecutorPC
<1>32. ASSUME NEW a \in Cancellers, CancelItemLoad(a) PROVE Following'
  BY <1>32, SMTT(60)
     DEF CancelItemLoad, Following, Executing, GivingUp, Before, Alive,
         Cancelling, Terminal, Undisturbed, Owned, OneHolder, Linked,
         RunsExist, ItemsExist, Unfinished, Fresh, Finished, RowsOK, ActorsOK,
         WorkerPC, RequestPC, ExecutorPC
<1>33. ASSUME NEW a \in Cancellers, CancelItemCommit(a) PROVE Following'
  BY <1>33, SMTT(60)
     DEF CancelItemCommit, Following, Executing, GivingUp, Before, Alive,
         Cancelling, Terminal, Undisturbed, Owned, OneHolder, Linked,
         RunsExist, ItemsExist, Unfinished, Fresh, Finished, RowsOK, ActorsOK,
         WorkerPC, RequestPC, ExecutorPC
<1>34. ASSUME NEW a \in Resumers, ResumeLoad(a) PROVE Following'
  BY <1>34, SMTT(60)
     DEF ResumeLoad, Following, Executing, GivingUp, Before, Alive, Cancelling,
         Terminal, Undisturbed, Owned, OneHolder, Linked, RunsExist,
         ItemsExist, Unfinished, Fresh, Finished, RowsOK, ActorsOK, WorkerPC,
         RequestPC, ExecutorPC
<1>35. ASSUME NEW a \in Resumers, ResumeCheck(a) PROVE Following'
  BY <1>35, SMTT(60)
     DEF ResumeCheck, Following, Executing, GivingUp, Before, Alive,
         Cancelling, Terminal, Undisturbed, Owned, OneHolder, Linked,
         RunsExist, ItemsExist, Unfinished, Fresh, Finished, RowsOK, ActorsOK,
         WorkerPC, RequestPC, ExecutorPC
<1>36. ASSUME NEW a \in Resumers, Redo(a) PROVE Following'
  BY <1>36, SMTT(60)
     DEF Redo, Following, Executing, GivingUp, Before, Alive, Cancelling,
         Terminal, Undisturbed, Owned, OneHolder, Linked, RunsExist,
         ItemsExist, Unfinished, Fresh, Finished, RowsOK, ActorsOK, WorkerPC,
         RequestPC, ExecutorPC
<1>37. ASSUME NEW a \in Requests, Abandon(a) PROVE Following'
  BY <1>37, SMTT(60)
     DEF Abandon, Following, Executing, GivingUp, Before, Alive, Cancelling,
         Terminal, Undisturbed, Owned, OneHolder, Linked, RunsExist,
         ItemsExist, Unfinished, Fresh, Finished, RowsOK, ActorsOK, WorkerPC,
         RequestPC, ExecutorPC
<1>38. ASSUME NEW r \in Runs, LeaseExpires(r) PROVE Following'
  BY <1>38, SMTT(60)
     DEF LeaseExpires, Following, Executing, GivingUp, Before, Alive,
         Cancelling, Terminal, Undisturbed, Owned, OneHolder, Linked,
         RunsExist, ItemsExist, Unfinished, Fresh, Finished, RowsOK, ActorsOK,
         WorkerPC, RequestPC, ExecutorPC
<1>39. ASSUME NEW r \in Runs, BackoffElapses(r) PROVE Following'
  BY <1>39, SMTT(60)
     DEF BackoffElapses, Following, Executing, GivingUp, Before, Alive,
         Cancelling, Terminal, Undisturbed, Owned, OneHolder, Linked,
         RunsExist, ItemsExist, Unfinished, Fresh, Finished, RowsOK, ActorsOK,
         WorkerPC, RequestPC, ExecutorPC
<1>40. ASSUME NEW r \in Runs, PayloadExpires(r) PROVE Following'
  BY <1>40, SMTT(60)
     DEF PayloadExpires, Following, Executing, GivingUp, Before, Alive,
         Cancelling, Terminal, Undisturbed, Owned, OneHolder, Linked,
         RunsExist, ItemsExist, Unfinished, Fresh, Finished, RowsOK, ActorsOK,
         WorkerPC, RequestPC, ExecutorPC
<1>41. ASSUME UNCHANGED vars PROVE Following'
  BY <1>41 DEF vars, Following, Executing, GivingUp, Before, Alive, Cancelling,
          Terminal, Undisturbed, Owned, OneHolder, Linked, RunsExist,
          ItemsExist, Unfinished, Fresh, Finished, RowsOK, ActorsOK, WorkerPC,
          RequestPC, ExecutorPC
<1> QED
  BY <1>1, <1>2, <1>3, <1>4, <1>5, <1>6, <1>7, <1>8, <1>9, <1>10, <1>11,
     <1>12, <1>13, <1>14, <1>15, <1>16, <1>17, <1>18, <1>19, <1>20, <1>21,
     <1>22, <1>23, <1>24, <1>25, <1>26, <1>27, <1>28, <1>29, <1>30, <1>31,
     <1>32, <1>33, <1>34, <1>35, <1>36, <1>37, <1>38, <1>39, <1>40, <1>41
  DEF Next, Work, Execute, Submit, Cancel, Resume, Start, Retry

(* The steps that may change the status of a run or count a delivery.       *)
LEMMA Polled ==
    ASSUME TInv, Cancellers = {}, [Next]_vars, NEW r \in Runs
    PROVE  \/ run'[r] = run[r] /\ item'[r].attempts = item[r].attempts
           \/ \E w \in Workers : Claim(w) \/ OpenRun(w) \/ BuryRun(w) \/ StartCommit(w)
           \/ \E e \in Executors : Park(e) \/ Succeed(e) \/ CancelRun(e) \/ FailRun(e)
           \/ \E a \in Submitters : SubmitRun(a) \/ Enqueue(a)
           \/ \E a \in Runners : RunNow(a)
<1> DEFINE Same == run'[r] = run[r] /\ item'[r].attempts = item[r].attempts
<1> USE DEF TInv, queueVars, historyVars
<1>1. item[r] \in Items
  BY DEF RowsOK
<1>2. CASE UNCHANGED <<run, item>>
  BY <1>2
<1>3. ASSUME NEW v \in Workers, MarkRunning(v) PROVE Same
  BY <1>1, <1>3, SMT DEF MarkRunning, RowsOK, Items
<1>4. ASSUME NEW v \in Workers, Settle(v) PROVE Same
  BY <1>1, <1>4, SMT DEF Settle, RowsOK, Items
<1>5. ASSUME NEW v \in Workers, RetryItem(v) PROVE Same
  BY <1>1, <1>5, SMT DEF RetryItem, RowsOK, Items
<1>6. ASSUME NEW v \in Workers, BuryItem(v) PROVE Same
  BY <1>1, <1>6, SMT DEF BuryItem, RowsOK, Items
<1>7. ASSUME NEW q \in Runs, LeaseExpires(q) PROVE Same
  BY <1>1, <1>7, SMT DEF LeaseExpires, RowsOK, Items
<1>8. ASSUME NEW q \in Runs, BackoffElapses(q) PROVE Same
  BY <1>1, <1>8, SMT DEF BackoffElapses, RowsOK, Items
<1>9. ASSUME NEW q \in Runs, PayloadExpires(q) PROVE Same
  BY <1>1, <1>9, SMT DEF PayloadExpires, RowsOK, Items
<1>10. ASSUME NEW e \in Executors, Execute(e)
       PROVE  UNCHANGED <<run, item>> \/ Park(e) \/ Succeed(e) \/ CancelRun(e) \/ FailRun(e)
  BY <1>10 DEF Execute, Check, EnterNode, FenceHit, RunNode, Raised
<1>11. ASSUME NEW w \in Workers, Work(w) \/ Start(w) \/ Crash(w) \/ LoopDies(w)
       PROVE  \/ Same \/ Claim(w) \/ OpenRun(w) \/ StartCommit(w) \/ BuryRun(w)
              \/ Park(w) \/ Succeed(w) \/ CancelRun(w) \/ FailRun(w)
  <2>1. \/ UNCHANGED <<run, item>> \/ Claim(w) \/ OpenRun(w) \/ StartCommit(w)
        \/ BuryRun(w) \/ MarkRunning(w) \/ Settle(w) \/ RetryItem(w) \/ BuryItem(w)
        \/ Park(w) \/ Succeed(w) \/ CancelRun(w) \/ FailRun(w)
    BY <1>11, <1>10
       DEF Work, Start, LoadRun, Begin, QueueError, FailLoad, BuryLoad, DrainEnds,
           StartLoad, Crash, LoopDies, Executors
  <2> QED BY <2>1, <1>2, <1>3, <1>4, <1>5, <1>6
<1>12. ASSUME NEW a \in Submitters, Submit(a) PROVE SubmitRun(a) \/ Enqueue(a)
  BY <1>12 DEF Submit
<1>13. ASSUME NEW a \in Runners, RunNow(a) \/ Retry(a) \/ Execute(a)
       PROVE  \/ UNCHANGED <<run, item>> \/ RunNow(a)
              \/ Park(a) \/ Succeed(a) \/ CancelRun(a) \/ FailRun(a)
  BY <1>13, <1>10 DEF Retry, Executors
<1>14. ASSUME NEW a \in Resumers, Resume(a)
       PROVE  UNCHANGED <<run, item>> \/ Park(a) \/ Succeed(a) \/ CancelRun(a) \/ FailRun(a)
  BY <1>14, <1>10 DEF Resume, ResumeLoad, ResumeCheck, Redo, Executors
<1>15. ASSUME NEW a \in Requests, Abandon(a) PROVE UNCHANGED <<run, item>>
  BY <1>15 DEF Abandon
<1>16. ASSUME NEW q \in Runs, LeaseExpires(q) \/ BackoffElapses(q) \/ PayloadExpires(q)
       PROVE  Same
  BY <1>16, <1>7, <1>8, <1>9
<1>17. CASE UNCHANGED vars
  BY <1>17, <1>2 DEF vars
<1>18. CASE \E w \in Workers : Work(w) \/ Start(w) \/ Crash(w) \/ LoopDies(w)
  BY <1>18, <1>11 DEF Executors
<1>19. CASE \E a \in Submitters : Submit(a)
  BY <1>19, <1>12
<1>20. CASE \E a \in Runners : RunNow(a) \/ Retry(a) \/ Execute(a)
  BY <1>20, <1>13, <1>2 DEF Executors
<1>21. CASE \E a \in Resumers : Resume(a)
  BY <1>21, <1>14, <1>2 DEF Executors
<1> QED BY <1>2, <1>15, <1>16, <1>17, <1>18, <1>19, <1>20, <1>21 DEF Next

(* Each step of the system is, for each run, one of the contract or none.   *)
LEMMA ContractStep ==
    ASSUME Undisturbed, torn = {}, torn' = {}, TInv, Linked, Owned, Counted, Unfinished,
           Numbered, Following, [Next]_vars, NEW r \in Runs
    PROVE  Contract!Step(r) \/ Contract!Stay(r)
<1> DEFINE Goal == Contract!Step(r) \/ Contract!Stay(r)
           Same == run'[r] = run[r] /\ item'[r].attempts = item[r].attempts
<1> USE ConstantsAssumption
    DEF TInv, Requests, Executors, Actors, Goto, Leave, Return, UpdateRun, CreateRun
<1>1. item[r] \in Items /\ item[r].attempts \in Nat /\ run[r] \in RunStatus
  BY DEF RowsOK, Items
<1>2. item[r].attempts <= MaxAttempts
  BY DEF Counted
<1>3. ASSUME Same PROVE Goal
  BY <1>3 DEF Contract!Stay, Contract!Becomes
<1>4. ASSUME run[r] = "none", run'[r] \in Alive, item' = item PROVE Goal
  BY <1>4 DEF Contract!Step, Contract!Accept, Contract!Becomes, Alive
<1>5. ASSUME run[r] \in {"running", "pending_approval"}, run'[r] \in {"success", "failed"},
             item'[r].attempts = item[r].attempts
      PROVE  Goal
  BY <1>5 DEF Contract!Step, Contract!End, Contract!Ends, Contract!Becomes
<1>6. ASSUME run[r] = "running", run'[r] = "pending_approval", item' = item PROVE Goal
  BY <1>6 DEF Contract!Step, Contract!Wait, Contract!Becomes
<1>7. ASSUME run[r] = "queued", run'[r] = "running", item' = item PROVE Goal
  BY <1>7 DEF Contract!Step, Contract!Run, Contract!Becomes
<1>8. ASSUME run[r] = "queued", run'[r] = "failed", item'[r].attempts = item[r].attempts,
             item[r].attempts = MaxAttempts
      PROVE  Goal
  BY <1>8 DEF Contract!Step, Contract!GiveUp, Contract!Becomes
<1>9. ASSUME run[r] = "running", run'[r] = "queued", item'[r].attempts = item[r].attempts,
             item[r].attempts # 0, item[r].attempts < MaxAttempts
      PROVE  Goal
  <2>1. item[r].attempts \in 1..(MaxAttempts - 1)
    BY <1>1, <1>9, SMT
  <2> QED BY <1>9, <2>1 DEF Contract!Step, Contract!Requeue, Contract!Becomes
<1>10. ASSUME run[r] \in Alive, run'[r] = run[r], item'[r].attempts = item[r].attempts + 1,
              item[r].attempts < MaxAttempts
       PROVE  Goal
  BY <1>10 DEF Contract!Step, Contract!Deliver, Contract!Becomes, Alive
<1> HIDE DEF Goal, Same
<1>11. ASSUME NEW w \in Workers, Claim(w) PROVE Goal
  <2>1. PICK q \in Runs :
           /\ Claimable(q)
           /\ item' = [item EXCEPT ![q].status = "leased", ![q].attempts = @ + 1,
                                  ![q].lease = "live"]
    BY <1>11 DEF Claim
  <2>2. run' = run
    BY <1>11 DEF Claim
  <2>3. CASE q = r
    <3>1. run[r] \in Alive
      BY <2>1, <2>3
         DEF Claimable, Unfinished, Fresh, Following, Linked, RunsExist, RowsOK, RunStatus,
             Finished, Alive, Cancelling, Terminal
    <3>2. item'[r].attempts = item[r].attempts + 1
      BY <2>1, <2>3, <1>1, SMT DEF RowsOK
    <3>3. item[r].attempts < MaxAttempts
      BY <2>1, <2>3 DEF Claimable, Counted
    <3> QED BY <2>2, <3>1, <3>2, <3>3, <1>10
  <2>4. CASE q # r
    BY <2>1, <2>2, <2>4, <1>3 DEF RowsOK, Same
  <2> QED BY <2>3, <2>4
<1>12. ASSUME NEW w \in Workers, OpenRun(w) PROVE Goal
  <2>1. /\ job[w] \in Runs /\ item' = item
        /\ run[job[w]] \in Alive
        /\ run' = [run EXCEPT ![job[w]] = "running"]
    BY <1>12 DEF OpenRun, queueVars, ActorsOK, Following, Before
  <2> QED BY <2>1, <1>3, <1>7 DEF Same, Alive, RowsOK
<1>13. ASSUME NEW w \in Workers, BuryRun(w) PROVE Goal
  <2>1. /\ job[w] \in Runs /\ item' = item
        /\ run[job[w]] \in Alive
        /\ item[job[w]].attempts = MaxAttempts
        /\ run' = [run EXCEPT ![job[w]] = "failed"]
    BY <1>13 DEF BuryRun, queueVars, ActorsOK, Following, GivingUp
  <2> QED BY <2>1, <1>3, <1>5, <1>8 DEF Same, Alive, RowsOK
<1>14. ASSUME NEW w \in Workers, StartCommit(w) PROVE Goal
  <2>1. run[r] \notin Cancelling /\ r \notin torn'
    BY DEF Following
  <2>2. item'[r].attempts = item[r].attempts
    BY <1>14, Reconciliation
  <2>3. \/ item'[r] = item[r] /\ run'[r] = run[r]
        \/ Stale(r)
    BY <1>14, <2>1, ReconciledRun
  <2>4. /\ run[r] \in Finished => run'[r] = run[r]
        /\ run'[r] \in {"queued", "failed", run[r]}
        /\ run'[r] = "failed" => run[r] = "failed" \/ item[r].attempts >= MaxAttempts
        /\ run'[r] = "queued" /\ run[r] # "queued" => item[r].attempts < MaxAttempts
    BY <1>14, <2>1, ReconciledEnds
  <2>5. CASE run'[r] = run[r]
    BY <2>2, <2>5, <1>3 DEF Same
  <2>6. CASE run'[r] # run[r]
    <3>1. run[r] \in Alive /\ item[r].attempts # 0
      BY <2>1, <2>3, <2>4, <2>6, <1>1
         DEF Stale, Numbered, Linked, RunsExist, RunStatus, Terminal, Cancelling, Finished, Alive
    <3>2. CASE run'[r] = "queued"
      BY <2>2, <2>4, <2>6, <3>1, <3>2, <1>9 DEF Alive
    <3>3. CASE run'[r] = "failed"
      <4>1. item[r].attempts = MaxAttempts
        BY <2>4, <2>6, <3>3, <1>1, <1>2, SMT
      <4> QED BY <2>2, <3>1, <3>3, <4>1, <1>5, <1>8 DEF Alive
    <3> QED BY <2>4, <2>6, <3>2, <3>3
  <2> QED BY <2>5, <2>6
<1>15. ASSUME NEW e \in Executors, pc[e] \in Executing
       PROVE  job[e] \in Runs /\ run[job[e]] \in {"running", "pending_approval"}
  BY <1>15 DEF Following, Executing, ActorsOK
<1>16. ASSUME NEW e \in Executors, Succeed(e) \/ FailRun(e) PROVE Goal
  <2>1. /\ pc[e] \in Executing /\ item' = item
        /\ \E end \in {"success", "failed"} : run' = [run EXCEPT ![job[e]] = end]
    BY <1>16 DEF Succeed, FailRun, queueVars, Executing
  <2>2. job[e] \in Runs /\ run[job[e]] \in {"running", "pending_approval"}
    BY <2>1, <1>15
  <2> QED BY <2>1, <2>2, <1>3, <1>5 DEF Same, RowsOK
<1>17. ASSUME NEW e \in Executors, Park(e) PROVE Goal
  <2>1. /\ pc[e] \in Executing /\ item' = item
        /\ run' = [run EXCEPT ![job[e]] = "pending_approval"]
    BY <1>17 DEF Park, queueVars, Executing
  <2>2. job[e] \in Runs /\ run[job[e]] \in {"running", "pending_approval"}
    BY <2>1, <1>15
  <2> QED BY <2>1, <2>2, <1>3, <1>6 DEF Same, RowsOK
<1>18. ASSUME NEW e \in Executors, CancelRun(e) PROVE FALSE
  BY <1>18 DEF CancelRun, Following, Executing, ActorsOK
<1>19. ASSUME NEW a \in Submitters, SubmitRun(a) PROVE Goal
  <2>1. PICK q \in Runs : run[q] = "none" /\ run' = [run EXCEPT ![q] = "queued"]
    BY <1>19 DEF SubmitRun
  <2>2. item' = item
    BY <1>19 DEF SubmitRun, queueVars
  <2> QED BY <2>1, <2>2, <1>3, <1>4 DEF Same, RowsOK, Alive
<1>20. ASSUME NEW a \in Runners, RunNow(a) PROVE Goal
  <2>1. PICK q \in Runs : run[q] = "none" /\ run' = [run EXCEPT ![q] = "running"]
    BY <1>20 DEF RunNow
  <2>2. item' = item
    BY <1>20 DEF RunNow, queueVars
  <2> QED BY <2>1, <2>2, <1>3, <1>4 DEF Same, RowsOK, Alive
<1>21. ASSUME NEW a \in Submitters, Enqueue(a) PROVE Goal
  <2>1. job[a] \in Runs /\ item[job[a]].attempts = 0
    BY <1>21 DEF Enqueue, Linked, CreationsApart, ActorsOK, Numbered
  <2>2. item' = [item EXCEPT ![job[a]] = NewItem] /\ run' = run
    BY <1>21 DEF Enqueue
  <2>3. NewItem.attempts = 0
    BY DEF NewItem, Row
  <2> QED BY <2>1, <2>2, <2>3, <1>3 DEF Same, RowsOK
<1>22. Cancellers = {}
  BY DEF Undisturbed
<1> QED BY <1>3, <1>11, <1>12, <1>13, <1>14, <1>16, <1>17, <1>18, <1>19, <1>20, <1>21, <1>22, Polled
        DEF Goal, Same

(* Nothing is accepted or under way at first. *)
LEMMA FirstFollows == Init => Numbered /\ Following
  BY ConstantsAssumption
     DEF Init, Numbered, Following, NoItem, Row, Cancelling, Actors, Requests, Executors

(* While nobody cancels, one request resumes and no run is torn, all that a *)
(* client sees of the system is a behaviour of RunContract.                 *)
THEOREM ContractCorrect ==
    ASSUME Undisturbed PROVE Spec /\ [](torn = {}) => ContractHolds
<1>1. Init => Contract!Init /\ Numbered /\ Following
  <2>1. Init => Contract!Init
    BY DEF Init, Contract!Init, NoItem, Row
  <2> QED BY <2>1, FirstFollows
<1> DEFINE Known == TInv /\ Linked /\ Owned /\ Counted /\ Unfinished /\ torn = {}
<1>2. Known /\ Known' /\ Numbered /\ Following /\ [Next]_vars => Numbered' /\ Following'
  BY NumberedStep, FollowingStep
<1>3. Known /\ Known' /\ Numbered /\ Following /\ Following' /\ [Next]_vars
        => [Contract!Next]_(Contract!vars)
  <2> SUFFICES ASSUME Known, Known', Numbered, Following, Following', [Next]_vars
               PROVE  Contract!Next
    OBVIOUS
  <2>1. \A r \in Runs : Contract!Step(r) \/ Contract!Stay(r)
    BY ContractStep
  <2>2. run' \in [Runs -> Contract!Statuses]
    <3>1. run' \in [Runs -> RunStatus] /\ \A r \in Runs : run'[r] \notin Cancelling
      BY DEF TInv, RowsOK, Following
    <3>2. RunStatus \ Cancelling \subseteq Contract!Statuses
      BY DEF RunStatus, Cancelling, Terminal, Contract!Statuses, Contract!Ends
    <3> QED BY <3>1, <3>2
  <2>3. \A r \in Runs : item'[r].attempts \in 0..MaxAttempts
    <3>1. \A r \in Runs : item'[r] \in Items /\ item'[r].attempts <= MaxAttempts
      BY DEF TInv, RowsOK, Counted
    <3>2. \A r \in Runs : item'[r].attempts \in Nat
      BY <3>1 DEF Items
    <3> QED BY <3>1, <3>2, ConstantsAssumption, SMT
  <2> QED BY <2>1, <2>2, <2>3 DEF Contract!Next
<1>4. Spec /\ [](torn = {}) => []Known
  BY Typed, QueueInvariant, UnfinishedAlways, PTL
<1>5. Spec /\ [](torn = {}) => [](Numbered /\ Following)
  BY <1>1, <1>2, <1>4, PTL DEF Spec
<1> QED BY <1>1, <1>3, <1>4, <1>5, PTL DEF Spec, ContractHolds, Contract!Spec

(* One process whose work never outlasts a lease. *)
Alone == SlowRuns = {} /\ \A v, w \in Workers : v = w

(* A process that starts has no worker yet, and what it decided still holds *)
(* when it commits: nothing is torn.                                        *)
Prompt ==
    /\ torn = {}
    /\ \A w \in Workers :
          /\ mode[w] \in {"down", "starting"} => job[w] = NoRun /\ pc[w] = "idle"
          /\ \A r \in Runs :
                /\ plan[w][r] \in {Keep, Outcome(r)}
                /\ plan[w][r] # Keep => mode[w] = "starting"

(* Every step of a process that is alone preserves Prompt. *)
LEMMA PromptStep ==
    ASSUME Undisturbed, Alone, TInv, Linked, Owned, Unfinished, Following, Prompt,
           [Next]_vars
    PROVE  Prompt'
<1> USE ConstantsAssumption
    DEF TInv, Requests, Executors, Actors, Goto, Leave, Return, UpdateRun, CreateRun, Fault,
           Holds, queueVars, historyVars
<1>1. ASSUME NEW w \in Workers, LoadRun(w) PROVE Prompt'
  BY <1>1, SMTT(60)
     DEF LoadRun, Prompt, Keep, Outcome, Stale, Alone, Undisturbed, Following,
         Executing, Alive, Finished, Cancelling, Linked, ItemsExist,
         Unfinished, RowsOK, ActorsOK, SystemOK
<1>2. ASSUME NEW w \in Workers, OpenRun(w) PROVE Prompt'
  BY <1>2, SMTT(60)
     DEF OpenRun, Prompt, Keep, Outcome, Stale, Alone, Undisturbed, Following,
         Executing, Alive, Finished, Cancelling, Linked, ItemsExist,
         Unfinished, RowsOK, ActorsOK, SystemOK
<1>3. ASSUME NEW w \in Workers, Begin(w) PROVE Prompt'
  BY <1>3, SMTT(60)
     DEF Begin, Prompt, Keep, Outcome, Stale, Alone, Undisturbed, Following,
         Executing, Alive, Finished, Cancelling, Linked, ItemsExist,
         Unfinished, RowsOK, ActorsOK, SystemOK
<1>4. ASSUME NEW w \in Workers, QueueError(w) PROVE Prompt'
  BY <1>4, SMTT(60)
     DEF QueueError, Prompt, Keep, Outcome, Stale, Alone, Undisturbed,
         Following, Executing, Alive, Finished, Cancelling, Linked,
         ItemsExist, Unfinished, RowsOK, ActorsOK, SystemOK
<1>5. ASSUME NEW w \in Workers, BuryLoad(w) PROVE Prompt'
  BY <1>5, SMTT(60)
     DEF BuryLoad, Prompt, Keep, Outcome, Stale, Alone, Undisturbed,
         Following, Executing, Alive, Finished, Cancelling, Linked,
         ItemsExist, Unfinished, RowsOK, ActorsOK, SystemOK
<1>6. ASSUME NEW w \in Workers, BuryRun(w) PROVE Prompt'
  BY <1>6, SMTT(60)
     DEF BuryRun, Prompt, Keep, Outcome, Stale, Alone, Undisturbed, Following,
         Executing, Alive, Finished, Cancelling, Linked, ItemsExist,
         Unfinished, RowsOK, ActorsOK, SystemOK
<1>7. ASSUME NEW w \in Workers, DrainEnds(w) PROVE Prompt'
  BY <1>7, SMTT(60)
     DEF DrainEnds, Prompt, Keep, Outcome, Stale, Alone, Undisturbed,
         Following, Executing, Alive, Finished, Cancelling, Linked,
         ItemsExist, Unfinished, RowsOK, ActorsOK, SystemOK
<1>8. ASSUME NEW w \in Workers, LoopDies(w) PROVE Prompt'
  BY <1>8, SMTT(60)
     DEF LoopDies, Prompt, Keep, Outcome, Stale, Alone, Undisturbed,
         Following, Executing, Alive, Finished, Cancelling, Linked,
         ItemsExist, Unfinished, RowsOK, ActorsOK, SystemOK
<1>9. ASSUME NEW w \in Workers, Claim(w) PROVE Prompt'
  BY <1>9, SMTT(60)
     DEF Claim, Claimable, Prompt, Keep, Outcome, Stale, Alone, Undisturbed,
         Following, Executing, Alive, Finished, Cancelling, Linked,
         ItemsExist, Unfinished, RowsOK, ActorsOK, SystemOK
<1>10. ASSUME NEW w \in Workers, MarkRunning(w) PROVE Prompt'
  BY <1>10, SMTT(60)
     DEF MarkRunning, Prompt, Keep, Outcome, Stale, Alone, Undisturbed,
         Following, Executing, Alive, Finished, Cancelling, Linked,
         ItemsExist, Unfinished, RowsOK, ActorsOK, SystemOK
<1>11. ASSUME NEW w \in Workers, Settle(w) PROVE Prompt'
  BY <1>11, SMTT(60)
     DEF Settle, Prompt, Keep, Outcome, Stale, Alone, Undisturbed, Following,
         Executing, Alive, Finished, Cancelling, Linked, ItemsExist,
         Unfinished, RowsOK, ActorsOK, SystemOK
<1>12. ASSUME NEW w \in Workers, FailLoad(w) PROVE Prompt'
  BY <1>12, SMTT(60)
     DEF FailLoad, Prompt, Keep, Outcome, Stale, Alone, Undisturbed,
         Following, Executing, Alive, Finished, Cancelling, Linked,
         ItemsExist, Unfinished, RowsOK, ActorsOK, SystemOK
<1>13. ASSUME NEW w \in Workers, RetryItem(w) PROVE Prompt'
  BY <1>13, SMTT(60)
     DEF RetryItem, Prompt, Keep, Outcome, Stale, Alone, Undisturbed,
         Following, Executing, Alive, Finished, Cancelling, Linked,
         ItemsExist, Unfinished, RowsOK, ActorsOK, SystemOK
<1>14. ASSUME NEW w \in Workers, BuryItem(w) PROVE Prompt'
  BY <1>14, SMTT(60)
     DEF BuryItem, Prompt, Keep, Outcome, Stale, Alone, Undisturbed,
         Following, Executing, Alive, Finished, Cancelling, Linked,
         ItemsExist, Unfinished, RowsOK, ActorsOK, SystemOK
<1>15. ASSUME NEW w \in Workers, StartLoad(w) PROVE Prompt'
  BY <1>15, SMTT(60)
     DEF StartLoad, Outcome, Stale, Keep, Prompt, Keep, Outcome, Stale, Alone,
         Undisturbed, Following, Executing, Alive, Finished, Cancelling,
         Linked, ItemsExist, Unfinished, RowsOK, ActorsOK, SystemOK
<1>16. ASSUME NEW w \in Workers, StartCommit(w) PROVE Prompt'
  BY <1>16, SMTT(60)
     DEF StartCommit, Prompt, Keep, Outcome, Stale, Alone, Undisturbed,
         Following, Executing, Alive, Finished, Cancelling, Linked,
         ItemsExist, Unfinished, RowsOK, ActorsOK, SystemOK
<1>17. ASSUME NEW w \in Workers, Crash(w) PROVE Prompt'
  BY <1>17, SMTT(60)
     DEF Crash, Keep, Prompt, Keep, Outcome, Stale, Alone, Undisturbed,
         Following, Executing, Alive, Finished, Cancelling, Linked,
         ItemsExist, Unfinished, RowsOK, ActorsOK, SystemOK
<1>18. ASSUME NEW e \in Executors, Check(e) PROVE Prompt'
  BY <1>18, SMTT(60)
     DEF Check, Prompt, Keep, Outcome, Stale, Alone, Undisturbed, Following,
         Executing, Alive, Finished, Cancelling, Linked, ItemsExist,
         Unfinished, RowsOK, ActorsOK, SystemOK
<1>19. ASSUME NEW e \in Executors, EnterNode(e) PROVE Prompt'
  BY <1>19, SMTT(60)
     DEF EnterNode, Prompt, Keep, Outcome, Stale, Alone, Undisturbed,
         Following, Executing, Alive, Finished, Cancelling, Linked,
         ItemsExist, Unfinished, RowsOK, ActorsOK, SystemOK
<1>20. ASSUME NEW e \in Executors, FenceHit(e) PROVE Prompt'
  BY <1>20, SMTT(60)
     DEF FenceHit, Prompt, Keep, Outcome, Stale, Alone, Undisturbed,
         Following, Executing, Alive, Finished, Cancelling, Linked,
         ItemsExist, Unfinished, RowsOK, ActorsOK, SystemOK
<1>21. ASSUME NEW e \in Executors, RunNode(e) PROVE Prompt'
  BY <1>21, SMTT(60)
     DEF RunNode, Prompt, Keep, Outcome, Stale, Alone, Undisturbed, Following,
         Executing, Alive, Finished, Cancelling, Linked, ItemsExist,
         Unfinished, RowsOK, ActorsOK, SystemOK
<1>22. ASSUME NEW e \in Executors, Park(e) PROVE Prompt'
  BY <1>22, SMTT(60)
     DEF Park, Prompt, Keep, Outcome, Stale, Alone, Undisturbed, Following,
         Executing, Alive, Finished, Cancelling, Linked, ItemsExist,
         Unfinished, RowsOK, ActorsOK, SystemOK
<1>23. ASSUME NEW e \in Executors, Succeed(e) PROVE Prompt'
  BY <1>23, SMTT(60)
     DEF Succeed, Prompt, Keep, Outcome, Stale, Alone, Undisturbed, Following,
         Executing, Alive, Finished, Cancelling, Linked, ItemsExist,
         Unfinished, RowsOK, ActorsOK, SystemOK
<1>24. ASSUME NEW e \in Executors, CancelRun(e) PROVE Prompt'
  BY <1>24, SMTT(60)
     DEF CancelRun, Prompt, Keep, Outcome, Stale, Alone, Undisturbed,
         Following, Executing, Alive, Finished, Cancelling, Linked,
         ItemsExist, Unfinished, RowsOK, ActorsOK, SystemOK
<1>25. ASSUME NEW e \in Executors, Raised(e) PROVE Prompt'
  BY <1>25, SMTT(60)
     DEF Raised, Prompt, Keep, Outcome, Stale, Alone, Undisturbed, Following,
         Executing, Alive, Finished, Cancelling, Linked, ItemsExist,
         Unfinished, RowsOK, ActorsOK, SystemOK
<1>26. ASSUME NEW e \in Executors, FailRun(e) PROVE Prompt'
  BY <1>26, SMTT(60)
     DEF FailRun, Prompt, Keep, Outcome, Stale, Alone, Undisturbed, Following,
         Executing, Alive, Finished, Cancelling, Linked, ItemsExist,
         Unfinished, RowsOK, ActorsOK, SystemOK
<1>27. ASSUME NEW a \in Submitters, SubmitRun(a) PROVE Prompt'
  <2>1. PICK q \in Runs : run[q] = "none" /\ run' = [run EXCEPT ![q] = "queued"]
    BY <1>27 DEF SubmitRun
  <2>2. /\ UNCHANGED <<item, mode, plan, torn>>
        /\ \A w \in Workers : pc'[w] = pc[w] /\ job'[w] = job[w]
    BY <1>27 DEF SubmitRun, ActorsOK
  <2>3. Outcome(q) = Keep /\ Outcome(q)' = Keep
    BY <2>1, <2>2 DEF Outcome, Stale, Linked, RunsExist
  <2>4. \A r \in Runs \ {q} : Outcome(r)' = Outcome(r)
    BY <2>1, <2>2 DEF Outcome, Stale, RowsOK
  <2>5. \A r \in Runs : Outcome(r)' = Outcome(r)
    BY <2>3, <2>4
  <2> QED BY <2>2, <2>5 DEF Prompt
<1>28. ASSUME NEW a \in Submitters, Enqueue(a) PROVE Prompt'
  BY <1>28, SMTT(60)
     DEF Enqueue, NewItem, Row, Up, Prompt, Keep, Outcome, Stale, Alone,
         Undisturbed, Following, Executing, Alive, Finished, Cancelling,
         Linked, ItemsExist, Unfinished, RowsOK, ActorsOK, SystemOK
<1>29. ASSUME NEW a \in Runners, RunNow(a) PROVE Prompt'
  BY <1>29, SMTT(60)
     DEF RunNow, Prompt, Keep, Outcome, Stale, Alone, Undisturbed, Following,
         Executing, Alive, Finished, Cancelling, Linked, ItemsExist,
         Unfinished, RowsOK, ActorsOK, SystemOK
<1>30. ASSUME NEW a \in Cancellers, CancelLoad(a) PROVE Prompt'
  BY <1>30, SMTT(60)
     DEF CancelLoad, Prompt, Keep, Outcome, Stale, Alone, Undisturbed,
         Following, Executing, Alive, Finished, Cancelling, Linked,
         ItemsExist, Unfinished, RowsOK, ActorsOK, SystemOK
<1>31. ASSUME NEW a \in Cancellers, CancelCommit(a) PROVE Prompt'
  BY <1>31, SMTT(60)
     DEF CancelCommit, Prompt, Keep, Outcome, Stale, Alone, Undisturbed,
         Following, Executing, Alive, Finished, Cancelling, Linked,
         ItemsExist, Unfinished, RowsOK, ActorsOK, SystemOK
<1>32. ASSUME NEW a \in Cancellers, CancelItemLoad(a) PROVE Prompt'
  BY <1>32, SMTT(60)
     DEF CancelItemLoad, Prompt, Keep, Outcome, Stale, Alone, Undisturbed,
         Following, Executing, Alive, Finished, Cancelling, Linked,
         ItemsExist, Unfinished, RowsOK, ActorsOK, SystemOK
<1>33. ASSUME NEW a \in Cancellers, CancelItemCommit(a) PROVE Prompt'
  BY <1>33, SMTT(60)
     DEF CancelItemCommit, Prompt, Keep, Outcome, Stale, Alone, Undisturbed,
         Following, Executing, Alive, Finished, Cancelling, Linked,
         ItemsExist, Unfinished, RowsOK, ActorsOK, SystemOK
<1>34. ASSUME NEW a \in Resumers, ResumeLoad(a) PROVE Prompt'
  BY <1>34, SMTT(60)
     DEF ResumeLoad, Prompt, Keep, Outcome, Stale, Alone, Undisturbed,
         Following, Executing, Alive, Finished, Cancelling, Linked,
         ItemsExist, Unfinished, RowsOK, ActorsOK, SystemOK
<1>35. ASSUME NEW a \in Resumers, ResumeCheck(a) PROVE Prompt'
  BY <1>35, SMTT(60)
     DEF ResumeCheck, Prompt, Keep, Outcome, Stale, Alone, Undisturbed,
         Following, Executing, Alive, Finished, Cancelling, Linked,
         ItemsExist, Unfinished, RowsOK, ActorsOK, SystemOK
<1>36. ASSUME NEW a \in Resumers, Redo(a) PROVE Prompt'
  BY <1>36, SMTT(60)
     DEF Redo, Prompt, Keep, Outcome, Stale, Alone, Undisturbed, Following,
         Executing, Alive, Finished, Cancelling, Linked, ItemsExist,
         Unfinished, RowsOK, ActorsOK, SystemOK
<1>37. ASSUME NEW a \in Requests, Abandon(a) PROVE Prompt'
  BY <1>37, SMTT(60)
     DEF Abandon, Prompt, Keep, Outcome, Stale, Alone, Undisturbed, Following,
         Executing, Alive, Finished, Cancelling, Linked, ItemsExist,
         Unfinished, RowsOK, ActorsOK, SystemOK
<1>38. ASSUME NEW r \in Runs, LeaseExpires(r) PROVE Prompt'
  BY <1>38, SMTT(60)
     DEF LeaseExpires, Prompt, Keep, Outcome, Stale, Alone, Undisturbed,
         Following, Executing, Alive, Finished, Cancelling, Linked,
         ItemsExist, Unfinished, RowsOK, ActorsOK, SystemOK
<1>39. ASSUME NEW r \in Runs, BackoffElapses(r) PROVE Prompt'
  BY <1>39, SMTT(60)
     DEF BackoffElapses, Prompt, Keep, Outcome, Stale, Alone, Undisturbed,
         Following, Executing, Alive, Finished, Cancelling, Linked,
         ItemsExist, Unfinished, RowsOK, ActorsOK, SystemOK
<1>40. ASSUME NEW r \in Runs, PayloadExpires(r) PROVE Prompt'
  BY <1>40, SMTT(60)
     DEF PayloadExpires, Prompt, Keep, Outcome, Stale, Alone, Undisturbed,
         Following, Executing, Alive, Finished, Cancelling, Linked,
         ItemsExist, Unfinished, RowsOK, ActorsOK, SystemOK
<1>41. ASSUME UNCHANGED vars PROVE Prompt'
  BY <1>41 DEF vars, Prompt, Keep, Outcome, Stale, Alone, Undisturbed, Following,
          Executing, Alive, Finished, Cancelling, Linked, ItemsExist,
          Unfinished, RowsOK, ActorsOK, SystemOK
<1> QED
  BY <1>1, <1>2, <1>3, <1>4, <1>5, <1>6, <1>7, <1>8, <1>9, <1>10, <1>11,
     <1>12, <1>13, <1>14, <1>15, <1>16, <1>17, <1>18, <1>19, <1>20, <1>21,
     <1>22, <1>23, <1>24, <1>25, <1>26, <1>27, <1>28, <1>29, <1>30, <1>31,
     <1>32, <1>33, <1>34, <1>35, <1>36, <1>37, <1>38, <1>39, <1>40, <1>41
  DEF Next, Work, Execute, Submit, Cancel, Resume, Start, Retry

(* Without a second process and without leases that run out nothing is      *)
(* torn: the contract holds whatever the process does and however often it  *)
(* stops and starts.                                                        *)
THEOREM ContractAlone ==
    ASSUME Undisturbed, Alone PROVE Spec => [](torn = {}) /\ ContractHolds
<1>1. Init => Numbered /\ Following /\ Prompt
  BY ConstantsAssumption, FirstFollows
     DEF Init, Prompt, Keep, Actors, Requests, Executors
<1> DEFINE Known == TInv /\ Linked /\ Owned /\ Counted /\ Unfinished
           Inv == Numbered /\ Following /\ Prompt
<1>2. Known /\ Known' /\ Inv /\ [Next]_vars => Inv'
  <2> SUFFICES ASSUME Known, Known', Inv, [Next]_vars PROVE Inv'
    OBVIOUS
  <2>1. Prompt'
    BY PromptStep
  <2>2. torn = {} /\ torn' = {}
    BY <2>1 DEF Prompt
  <2> QED BY <2>1, <2>2, NumberedStep, FollowingStep
<1>3. Spec => []Known
  BY Typed, QueueInvariant, UnfinishedAlways, PTL
<1>4. Spec => []Inv
  BY <1>1, <1>2, <1>3, PTL DEF Spec
<1>5. Inv => torn = {}
  BY DEF Prompt
<1>6. Spec => [](torn = {})
  BY <1>4, <1>5, PTL
<1> QED BY <1>6, ContractCorrect, PTL
=============================================================================
