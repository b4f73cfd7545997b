SPECIFICATION FairPoolSpec
CONSTANTS
    Batches = {"core", "wasm", "emit"}
    Mode <- MCMode
    Scenarios <- MCScenarios
    MINIMUM_PARALLEL_MODULES = 2
    WorkerCount = 3
INVARIANTS ResultsAreOwn
PROPERTY EveryBatchSettles
CHECK_DEADLOCK FALSE
