SPECIFICATION FairBatchSpec
CONSTANTS
    Batches = {"resident", "linking"}
    Size = 2
    Output <- MCOutput
INVARIANTS AnswersInPlace RejectedCompilationsAreDestroyed
PROPERTY EveryBatchSettles
CHECK_DEADLOCK FALSE
