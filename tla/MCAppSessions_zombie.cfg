SPECIFICATION Spec
CONSTANTS
    MaxIds = 1
    MaxConns = 2
    MaxAttempts = 1
    Protocols = {"ssh"}
INVARIANTS
    ManualCloseIsFinal
CHECK_DEADLOCK FALSE
