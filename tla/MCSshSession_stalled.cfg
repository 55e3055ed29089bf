SPECIFICATION FairSpec
CONSTANTS
    Callers = {c1, c2}
    Waiter = waiter
    Pumps = {stdout}
    Cap = 1
    MaxInbox = 1
    NoOne = none
PROPERTIES
    CloseCompletes
