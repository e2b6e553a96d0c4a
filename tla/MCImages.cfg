INIT ImageInit
NEXT ImageNext
CONSTRAINT Instances
CONSTANTS
    Resolvers = {r1, r2, r3}
    Cleaners = {c1, c2}
    Images <- MCFindings
    ImagePolicies <- MCPolicies
    MaxArtifacts = 2
INVARIANTS
    DeletedIsGone EnforcedIsClean KeptUntilExpiry
SYMMETRY RequestSymmetry
CHECK_DEADLOCK FALSE
