\* Two BMCs with every kind of password, and an edit of a file, theirs or the
\* one of the settings.
SPECIFICATION Spec
CONSTANTS
    VM = {v1, v2}
    Port = {u1, u2}
    None = None
    Requests <- SomeRequests
    Texts <- AllTexts
    Confs <- SomeConfs
    MaxEdits = 1
SYMMETRY Symmetry
INVARIANTS
    TypeOK
    PlainKept
    ServesFile
    PasswordsHidden
PROPERTIES
    AddAllOrNothing
    PlainObeys
