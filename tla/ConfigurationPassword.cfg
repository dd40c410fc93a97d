\* A BMC added with a password that has a percent sign.
SPECIFICATION Spec
CONSTANTS
    VM = {v1}
    Port = {u1}
    None = None
    Requests <- PercentRequests
    Texts <- AllTexts
    Confs <- SomeConfs
    MaxEdits = 0
PROPERTIES
    OwnPassword
