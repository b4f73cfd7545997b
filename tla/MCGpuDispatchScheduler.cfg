SPECIFICATION FairSpec
CONSTANTS
    Requests = {"r1", "r2", "r3"}
    Signals = {"s1"}
    NoSignal = "no signal"
    MaximumBatchSize = 2
INVARIANTS
    ResolvedWasExecuted
PROPERTIES
    AbortStopsItsLanes
    EveryRequestSettles
CHECK_DEADLOCK FALSE
