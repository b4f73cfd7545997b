SPECIFICATION PipelineSpec
CONSTANTS
    TypeDeclarations <- Types
    Programs <- MCPrograms
    Budgets <- MCBudgets
    HalfWord = 128
    MeaningFuel = 60
    SurfaceTypes <- MCSurfaceTypes
    MaximumCaptures = 2
    WasmFuel = 60
INVARIANTS
    WorkIsShared
    SnapshotsAreAccepted
PROPERTIES
    AnswersAreTheReference
    WellTypedProgramsDoNotGoWrong
    HostAndGpuAgree
    CertificatesAreSound
    WasmAnswersAreTheReference
    EveryEvaluationEnds
CHECK_DEADLOCK FALSE
