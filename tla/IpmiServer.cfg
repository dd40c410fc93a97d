\* Two clients, each in either version; the sequence numbers pass 63.  With
\* both of them done and nothing under way the instance has come to its end.
SPECIFICATION Spec
CONSTANTS
    Client = {k1, k2}
    Scripts <- RegisterAndAsk
    Strays <- Others
    FirstSeq = {61}
    Fakemac <- Mac
    None = None
    MaxNet = 2
    FaultKinds = {"lose", "duplicate", "restart"}
    MaxFaults = 1
INVARIANTS
    TypeOK
    AnswersFit
    RightMac
PROPERTIES
    Registers
CHECK_DEADLOCK FALSE
