SPECIFICATION Spec
CONSTANT Families <- ExtremeFamily
INVARIANT ElementsAgree
CHECK_DEADLOCK FALSE
