CONSTANTS
  Runs = {r1}
  Workers = {w1}
  Submitters = {s1}
  Runners = {}
  Cancellers = {c1}
  Resumers = {}
  NoRun = NoRun
  Nodes = 1
  MaxAttempts = 2
  SlowRuns = {}
  MaxFaults = 0
SPECIFICATION FairSpec
CHECK_DEADLOCK FALSE
PROPERTY CancelledRunEnds
