SPECIFICATION Spec
CONSTANT Families <- AllFamilies
INVARIANTS
    TypeOK
    ElementsAgree
    RefusedExactlyWhenUnsupported
    TrapsExactlyOutOfRange
CHECK_DEADLOCK FALSE
