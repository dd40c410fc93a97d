\* SIGTERM at any step, the boot of the daemon and the stores of commands
\* included.  Children of a daemon ended at its boot keep their handles: a
\* pass that waits for a free one is no deadlock of the system.
SPECIFICATION Spec
CONSTANTS
    VM = {v1, v2}
    Option = {o1}
    Pid = {c1, c2, c3}
    Ops = {"add", "delete", "start", "stop"}
    None = None
    FaultKinds = {"death", "edit", "term", "boot", "store"}
    MaxFaults = 2
PROPERTIES
    StopSilences
CHECK_DEADLOCK FALSE
