CONSTANTS
  Runs = {r1}
  Workers = {w1}
  Submitters = {}
  Runners = {n1}
  Cancellers = {}
  Resumers = {p1, p2}
  NoRun = NoRun
  Nodes = 1
  MaxAttempts = 1
  SlowRuns = {}
  MaxFaults = 0
SPECIFICATION Spec
CHECK_DEADLOCK FALSE
PROPERTY ResumedOnce
