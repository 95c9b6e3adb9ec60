SPECIFICATION Spec
CONSTANTS
    Bits <- MCBits
    Mantissa <- MCMantissa
    Scale <- MCScale
    Increment <- MCIncrement
    Shifts <- MCShifts
    Factors <- MCFactors
    Programs <- MCPrograms
INVARIANTS
    TypeOK
    SamplesLieInRange
    StreamsContinue
    NoNumberTwice
    HostAgreesWithDevice
CHECK_DEADLOCK FALSE
