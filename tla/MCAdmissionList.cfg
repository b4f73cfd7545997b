SPECIFICATION ListSpec
CONSTANTS
    Requests = {1, 2, 3, 4}
    Signals = {"s1"}
    NoSignal = "no signal"
    Undefined = 0
    Estimates <- MinimalMediumOversized
    MaximumConcurrentWeight = 3
    MaximumBatchSize = 2
INVARIANTS WithinBudget HeadCannotStart
PROPERTIES NoOvertaking ImplementsAdmission EveryWaiterLeaves
CHECK_DEADLOCK FALSE
