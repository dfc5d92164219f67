CONSTANTS
    Timeouts <- MCTimeouts
    Closers = {g1, g2}
    Free = Free
    NoErrors = NoErrors
SPECIFICATION FairSpec
INVARIANTS
    TypeOK
    GivesUpOnlyAfterTimeout
    NoLingerOnClosedKernel
PROPERTY FailureResolved
