INIT MCInit
NEXT MCNext
CONSTANTS
    Handlers = {h1, h2}
    Calls = {c1}
    Schedules = {"turns", "overlap"}
    MaxChanges = 2
    MaxCalls = 3
    MaxCrashes = 1
    Documents = {d1, d2}
    NoDocument = NoDocument
    Contents = {"x"}
    Importers = {"i1"}
    Deleters = {"x1"}
    MaxVersions = 2
    Queries = {"q1"}
    Subjects = {"other"}
    Asker = {}
    TopK = 1
    MaxAclChanges = 3
INVARIANTS
    NoUnapprovedCall OncePerCrash RefusedIsNotCalled PendingIsDecidable
    ResultsAreVisible
PROPERTY FinalStays
SYMMETRY GatewaySymmetry
CHECK_DEADLOCK FALSE
