\* vsbmcd --foreground, started again by something outside of the repository
\* whenever it is gone; process ids are used again and strangers take them.
SPECIFICATION SupervisedSpec
CONSTANTS
    Inst = {d1, d2, d3}
    Number = {1, 2, 3}
    None = None
    Background = FALSE
    FaultKinds = {"kill", "sigterm", "error"}
    MaxFaults = 3
INVARIANTS
    TypeOK
    FileNamesServer
PROPERTIES
    RunningRefuses
    
