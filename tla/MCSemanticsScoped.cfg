SPECIFICATION PipelineSpec
CONSTANTS
    TypeDeclarations <- Types
    Programs <- MCKeptRefinements
    Budgets <- MCBudgets
    HalfWord = 128
    MeaningFuel = 60
    SurfaceTypes <- MCSurfaceTypes
    MaximumCaptures = 2
    WasmFuel = 60
PROPERTY HostRefinementsAreScoped
CHECK_DEADLOCK FALSE
