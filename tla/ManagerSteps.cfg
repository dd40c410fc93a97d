\* Two BMCs; SIGTERM at any step but a store, edits between commands, deaths.
SPECIFICATION Spec
CONSTANTS
    VM = {v1, v2}
    Option = {o1, o2}
    Pid = {c1, c2}
    Ops = {"add", "delete", "start", "stop"}
    None = None
    FaultKinds = {"death", "edit", "term"}
    MaxFaults = 2
INVARIANTS
    TypeOK
PROPERTIES
    SigtermPropagates
    ImplementsRegistry
    AgreesAsRegistry
