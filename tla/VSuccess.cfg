CONSTANTS
  Runs = {r1}
  Workers = {w1}
  Submitters = {s1}
  Runners = {}
  Cancellers = {c1}
  Resumers = {}
  NoRun = NoRun
  Nodes = 1
  MaxAttempts = 1
  SlowRuns = {}
  MaxFaults = 0
SPECIFICATION Spec
CHECK_DEADLOCK FALSE
PROPERTY CancelNotOverwritten
