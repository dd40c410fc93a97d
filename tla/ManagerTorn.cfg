\* The daemon is killed while it stores a configuration.
SPECIFICATION SupervisedSpec
CONSTANTS
    VM = {v1, v2}
    Port = {u1, u2}
    Pid = {c1, c2, c3}
    None = None
    Initial <- Empty
    FaultKinds = {"kill"}
    MaxFaults = 1
PROPERTIES
    EnabledComesBack
CHECK_DEADLOCK FALSE
