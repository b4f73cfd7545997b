SPECIFICATION FairSpec
CONSTANTS
    Calls = {"c1", "c2"}
    Units <- MCUnits
    Imports <- MCImports
    Types <- MCTypes
    Interfaces <- MCInterfaces
    Declares <- MCDeclares
    Exports <- MCExports
    Fault <- MCFault
    Projects <- MCProjects
    MaxCached = 2
    None = None
INVARIANTS LinkedIsUpToDate ReturnReleases
PROPERTY EveryCompileEnds
CHECK_DEADLOCK FALSE
