\* Every kind of fault, two of them in one behaviour.  Three handles can run
\* out (the daemon is ended early and its children stay): a start that waits for a
\* free one is no deadlock of the system, and four handles show none.
SPECIFICATION Spec
CONSTANTS
    VM = {v1, v2}
    Port = {u1, u2}
    Pid = {c1, c2, c3}
    None = None
    Initial <- Empty
    FaultKinds = {"boot", "death", "edit", "io", "kill", "sigterm"}
    MaxFaults = 2
SYMMETRY Symmetry
INVARIANTS
    TypeOK
    StatusIsTrue
PROPERTIES
    StopSilences
    StartRuns
    PassSettles
    OnlyEnabledFork
    ImplementsRegistry
CHECK_DEADLOCK FALSE
