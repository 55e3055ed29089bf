SPECIFICATION LiveSpec
CONSTANTS
    Callers = {c1, c2}
    Waiter = waiter
    Pumps = {stdout, stderr}
    Cap = 1
    MaxInbox = 1
    NoOne = none
INVARIANTS
    TypeOK
    NoSendOnClosedOutput
    OneCloser
    NoCallDuringTeardown
    NoSftpAfterClose
PROPERTIES
    ImplementsTermSession
    EndIsCleanedUp
    CloseCompletes
