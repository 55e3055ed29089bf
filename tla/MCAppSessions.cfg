SPECIFICATION LiveSpec
CONSTANTS
    MaxIds = 1
    MaxConns = 2
    MaxAttempts = 2
    Protocols = {"ssh", "telnet"}
INVARIANTS
    TypeOK
    SessionIsWatched
    OneWatcher
    ExitIsFinal
    NothingLeftBehind
PROPERTIES
    ConnsAreTermSessions
    EndIsHandled
    UserCloseIsCleanedUp
CHECK_DEADLOCK FALSE
