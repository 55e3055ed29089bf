SPECIFICATION MCSpec
CONSTANTS
    Ids = {1, 2, 3}
    Modals = {"monitor"}
    NoTab = NoTab
    MaxChunks = 4
    Limit = 2
    Keep = 1
    Macros = {m1, m2}
    Lines = 2
    Panels = {1, 2}
    Terminals = {3}
    MaxReqs = 2
    MaxDeltas = 2
    Paths = {f1}
    Texts = {x1}
    Calls = {c1, c2}
    Empty = Empty
    Panes = {"local", "remote"}
    Dirs = {"d1", "d2"}
    Slots = {s1, s2}
    MaxChanges = 1
    Hosts = {h1, h2}
    Places = {d1, d2}
    Uploads = {u1}
    Servers = {h1}
    Options = {"telnet", "strict"}
    Attempts = {1, 2}
    Saves = {b1}
    Machines = {"m1", "m2"}
    Tables = {"proc"}
    Ticks = {1, 2}
    MaxBytes = 2
    MaxDesks = 2
    MaxFrames = 1
    Flights = {w1}
    Records = {"r1", "r2"}
    Frames = 2
    ListKinds = {"snippets", "tunnels", "tasks", "credentials", "sessions", "audit"}
    Items = {i1}
    Sections = {"closed", "appearance", "ai", "alerts", "sync", "vault", "about"}
    Versions = 2
    Actions <- MCActions
    Defaults <- MCDefaults
    Keys = {"Ctrl+N", "Ctrl+T"}
    Tasks = {1, 2}
    Interval = 2
    Zones <- MCZones
    MaxAge = 3
    MaxEdits = 2
    Clients = {"c1", "c2"}
    Metrics = {"cpu"}
    RecordKeys = {1, 3, 5}
    ConfigKey = 4
    MaxRecords = 2
    Streams <- MCStreams
    Callers = {"user"}
    Watcher = "watcher"
    Pump = "pump"
    NoOne = "no one"
    Windows <- MCWindows
    QueueCap = 1
    MaxCalls = 1
    Typists = {"window", "tasks"}
    Inputs <- MCInputs
    BufferLimit = 2
    MaxSends = 3
INVARIANTS
    TypeOK
    TabsFollowSessions
    StreamsAreWhole
    PiecesAreJoined
    ShownIsNamed
    CleanMeansStored
    FormsAreStored
PROPERTIES
    BusyEnds
    ContractsAreKept
CHECK_DEADLOCK FALSE
