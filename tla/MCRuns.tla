-------------------------------- MODULE MCRuns --------------------------------
(* Two instances of WorkflowRuns, each of one run, which share the states     *)
(* before the run is created.  In "queue" it is submitted, handed out by two  *)
(* processes, cancelled, and resumed by one request.  In "direct" it is       *)
(* executed by the request that creates it, cancelled, and resumed by three   *)
(* requests; one process serves them all.                                     *)
EXTENDS MCWorkflowRuns

\* How many of the requests were made, and how many processes are up.
Made(requests) == Cardinality({a \in requests : pc[a] # "new"})
ProcessesUp    == Cardinality({w \in Workers : mode[w] # "down"})

Queue  == Made(Runners) = 0 /\ Made(Resumers) <= 1
Direct == Made(Submitters) = 0 /\ ProcessesUp <= 1

Instances == Queue \/ Direct

RunSymmetry == Symmetry \cup Permutations(Resumers)
=============================================================================
