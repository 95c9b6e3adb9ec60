SPECIFICATION Spec
CONSTANTS
    Scripts <- PlainScripts
    Items = {"f", "g", "m"}
    Libraries = {"3.12", "3.13"}
    OptLevel = "O3"
    Target = "x86_64"
    BackendOf <- Backends
    Limit <- Events2
    Nothing = Nothing
    Torn = Torn
INVARIANTS
    TypeOK
    ModulesEmbedTheirOwn
    VariantsRecordFlags
    CrateIsCurrent
    
CHECK_DEADLOCK FALSE
