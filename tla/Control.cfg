\* Every command of two clients, for one name or for two; a child dies or the
\* daemon is shut down in the middle of it.
SPECIFICATION CFairSpec
CONSTANTS
    VM = {v1, v2}
    Port = {u1}
    Pid = {c1, c2}
    None = None
    Initial <- OneOn
    FaultKinds = {"death", "sigterm"}
    MaxFaults = 1
    Client = {k1, k2}
    Ops = {"add", "delete", "start", "stop", "list", "show"}
INVARIANTS
    CTypeOK
PROPERTIES
    OkMeansDone
    Responds
    EnabledServed
    DisabledSilent
    DeleteSilences
