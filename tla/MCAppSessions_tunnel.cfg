SPECIFICATION Spec
CONSTANTS
    MaxIds = 1
    MaxConns = 1
    MaxAttempts = 1
    Protocols = {"ssh"}
INVARIANTS
    TunnelsStopWithSession
CHECK_DEADLOCK FALSE
