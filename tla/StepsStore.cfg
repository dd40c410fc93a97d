\* SIGTERM while a file is being rewritten.
SPECIFICATION Spec
CONSTANTS
    VM = {v1, v2}
    Option = {o1, o2}
    Pid = {c1, c2}
    Ops = {"add", "delete", "start", "stop"}
    None = None
    FaultKinds = {"store"}
    MaxFaults = 1
PROPERTY SigtermPropagates
