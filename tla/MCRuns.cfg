CONSTANTS
  Runs = {r1}
  Workers = {w1, w2}
  Submitters = {s1}
  Runners = {n1}
  Cancellers = {c1}
  Resumers = {p1, p2, p3}
  NoRun = NoRun
  Nodes = 2
  MaxAttempts = 2
  SlowRuns = {r1}
  MaxFaults = 1
INIT Init
NEXT Next
CONSTRAINT Instances
CHECK_DEADLOCK FALSE
SYMMETRY RunSymmetry
INVARIANTS
  TypeOK
  OneHolder
  AttemptsBounded
  CompletedIsOver
  SuccessIsComplete
  OneLateNode
PROPERTIES
  DeadLetterIsReported
  FinishedStays
