\* A VM with a disk and a network card; every call may fail, others use
\* vSphere as well.
SPECIFICATION FairSpec
CONSTANTS
    Has = {"disk", "ethernet"}
    None = None
    MaxTasks = 2
    FaultKinds = {"connect", "look", "call", "close", "user"}
    MaxFaults = 1
INVARIANTS
    TypeOK
    BootSticks
PROPERTIES
    PowerWins
