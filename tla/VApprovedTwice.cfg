CONSTANTS
    Handlers = {h1, h2}
    Calls = {c1}
    Schedules = {"overlap"}
    MaxChanges = 0
    MaxCalls = 3
    MaxCrashes = 0
SPECIFICATION Spec
INVARIANT CalledOnce
CHECK_DEADLOCK FALSE
