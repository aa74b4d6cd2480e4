SPECIFICATION Spec
CONSTANTS
    NumFiles = 2
    Inputs <- Directories
    Old <- HandWritten
    Nil = Nil
CHECK_DEADLOCK FALSE
INVARIANTS
    TypeOK
    AcceptsAsDocumented
    GeneratesAsDocumented
    CleanRunLoads
