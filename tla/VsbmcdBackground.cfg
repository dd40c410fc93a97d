\* vsbmcd in the background: the pid file says 0.
SPECIFICATION Spec
CONSTANTS
    Inst = {d1, d2, d3}
    Number = {1, 2, 3, 4}
    None = None
    Background = TRUE
    FaultKinds = {"kill"}
    MaxFaults = 1
PROPERTIES
    RefusedByRival
