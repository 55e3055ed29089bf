SPECIFICATION MCSpec
CONSTANTS
    Apps = {a1, a2}
    Emails = {e1}
    Items = {x1}
    MaxReqs = 4
    MaxGivenUp = 1
    MaxLost = 1
    None = none
SYMMETRY Symmetry
INVARIANTS
    TypeOK
    CommittedOnce
    ReadsWhatWasWritten
    ConflictIsReal
    RegisteredOnce
PROPERTIES
    RevocationSticks
    ImplementsVaultRegister
CHECK_DEADLOCK FALSE
