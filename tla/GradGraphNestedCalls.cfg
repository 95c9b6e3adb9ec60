SPECIFICATION Spec
CONSTANTS
    Traced <- NestedTraced
    Declared <- NestedDeclared
INVARIANT RefusedExactlyWhenUnsupported
CHECK_DEADLOCK FALSE
