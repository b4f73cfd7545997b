SPECIFICATION FairSpec
CONSTANTS
    Trace <- MCTrace
    SemanticSteps = 2
    Options <- MCOptions
INVARIANTS ComputesTheReference EverythingIsDestroyed
PROPERTY EveryRunSettles
CHECK_DEADLOCK FALSE
