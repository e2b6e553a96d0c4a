CONSTANTS
  Runs = {r1, r2}
  Workers = {w1}
  Submitters = {s1, s2}
  Runners = {n1}
  Cancellers = {}
  Resumers = {p1}
  NoRun = NoRun
  Nodes = 2
  MaxAttempts = 2
  SlowRuns = {}
  MaxFaults = 2
SPECIFICATION Spec
CHECK_DEADLOCK FALSE
PROPERTY ContractHolds
