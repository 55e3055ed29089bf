SPECIFICATION Spec
CONSTANTS
    Ids = {1}
    Modals = {}
    NoTab = NoTab
INVARIANT WindowSurvives
CHECK_DEADLOCK FALSE
