SPECIFICATION Spec
CONSTANTS
    Engines = {e1}
    Once = Once
    Artifacts <- MCArtifacts
    Typings <- MCTypings
    Exports <- MCExports
    Returns <- MCReturns
    Limit = 2
    Nothing = Nothing
INVARIANTS
    TypeOK
    ModelsRunTheirArtifact
    ModulesLoadOnce
    SuccessIsWhole
    RunOnceFindsItsVariant
PROPERTY OutputsAreCheckedFirst
CHECK_DEADLOCK FALSE
