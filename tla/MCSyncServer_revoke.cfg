SPECIFICATION MCSpec
CONSTANTS
    Apps = {a1, a2}
    Emails = {e1}
    Items = {x1}
    MaxReqs = 4
    MaxGivenUp = 1
    MaxLost = 1
    None = none
PROPERTIES
    RevokedForEver
CHECK_DEADLOCK FALSE
