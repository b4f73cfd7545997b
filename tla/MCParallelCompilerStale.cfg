SPECIFICATION PoolSpec
CONSTANTS
    Batches = {"core", "wasm", "emit"}
    Mode <- MCMode
    Scenarios <- MCStale
    MINIMUM_PARALLEL_MODULES = 2
    WorkerCount = 2
INVARIANT ResultsAreOwn
CHECK_DEADLOCK FALSE
