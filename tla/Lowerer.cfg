CONSTANTS
    Programs <- MCPrograms
    Exprs <- MCExprs
    Results <- MCResults
    Unsupported <- MCUnsupported
    Parts <- MCParts
    Depth <- MCDepth
    Failed = Failed
    MeaningOf <- MCMeaningOf
    EnvAfter <- MCEnvAfter
    PlacesOf <- MCPlacesOf
SPECIFICATION Spec
INVARIANTS
    StacksAgree
    CallsDoNotRecurse
    CachedScopesAreLive
    LoweringKeepsTheMeaning
    SharedWorkIsEmittedOnce
    ScopesAreRestored
