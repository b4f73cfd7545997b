SPECIFICATION FairSpec
CONSTANTS
    Modules <- MCModules
    NoModule = "none"
    LiteralNodes <- MCLiteralNodes
    Shape <- MCShape
    Literals <- MCLiterals
    Positions <- MCPositions
    Reference <- MCReference
    IllTyped <- MCIllTyped
    MaxSemantic = 2
    MaxJobs = 3
    Calls = {"c1", "c2"}
    Batches = {"c1", "c2"}
    Size = 1
    Output <- MCOutput
    Backends <- MCBackends
    Destroys = {"d1"}
INVARIANTS CachesAreTransparent DeviceIsThere
PROPERTIES RejectionIsForgotten OwnedDeviceIsReleased EveryCallReturns
CHECK_DEADLOCK FALSE
