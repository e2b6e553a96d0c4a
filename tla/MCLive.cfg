CONSTANTS
  Runs = {r1, r2}
  Workers = {w1, w2}
  Submitters = {s1}
  Runners = {n1}
  Cancellers = {}
  Resumers = {p1}
  NoRun = NoRun
  Nodes = 2
  MaxAttempts = 2
  SlowRuns = {}
  MaxFaults = 0
SPECIFICATION FairSpec
CHECK_DEADLOCK FALSE
PROPERTY EveryRunEnds
