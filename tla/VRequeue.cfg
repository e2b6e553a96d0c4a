CONSTANTS
  Runs = {r1}
  Workers = {w1}
  Submitters = {s1}
  Runners = {}
  Cancellers = {}
  Resumers = {}
  NoRun = NoRun
  Nodes = 2
  MaxAttempts = 3
  SlowRuns = {}
  MaxFaults = 1
SPECIFICATION FairSpec
CHECK_DEADLOCK FALSE
PROPERTY RequeuedRunEnds
