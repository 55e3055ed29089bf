--------------------------- MODULE FrontEndBounds ----------------------------
(***************************************************************************)
(* The parameters of the parts of the window, of the engines and of the log  *)
(* of commands: what each is for is told in the module that uses it.         *)
(***************************************************************************)
EXTENDS TaskBounds, TelnetBounds, FiniteSets, Sequences

CONSTANTS
    Ids, Modals, NoTab,                             \* WindowTabs
    MaxChunks, Limit, Keep, Macros, Lines,          \* TerminalView
    Panels, Terminals, MaxReqs, MaxDeltas,          \* AiPanel
    Paths, Texts, Empty,                            \* EditorPanel
    Calls,                                          \* EditorPanel, ListPanels, SettingsForms
    Machines, Tables, Ticks, MaxBytes,              \* Monitors
    MaxDesks, MaxFrames, Flights,                   \* VncPanel
    Records, Frames,                                \* ReplayPanels
    Panes, Dirs, Slots, MaxChanges,                 \* FilePanel
    Hosts, Places, Uploads,                         \* TransferList
    Servers, Options, Attempts, Saves,              \* ConnectForm
    ListKinds, Items,                               \* ListPanels
    Sections, Versions,                             \* SettingsForms
    Actions, Keys, Defaults,                        \* Shortcuts
    Clients, Metrics, RecordKeys, ConfigKey, MaxRecords,    \* AlertEngine
    Streams,                                        \* TelnetSession
    Typists, Inputs, BufferLimit, MaxSends          \* CommandLog

\* A terminal that is hidden keeps no more than it may hold.
ASSUME TermAssumption == MaxChunks \in Nat /\ Limit \in Nat /\ Keep \in 0..Limit /\ Lines \in Nat

\* A panel is not a terminal.
ASSUME AiAssumption == MaxReqs \in Nat /\ MaxDeltas \in Nat /\ Panels \cap Terminals = {}

\* "none" stands for no session.
ASSUME MonAssumption == MaxBytes \in Nat /\ "none" \notin Machines

ASSUME VncAssumption == MaxDesks \in Nat

ASSUME ReplayAssumption == Frames \in Nat

\* A session has a pane of local and one of remote files.
ASSUME FilesAssumption == MaxChanges \in Nat /\ {"local", "remote"} \subseteq Panes

\* A panel is at some place.
ASSUME TransfersAssumption == Places # {}

\* "form" stands for no saved session.
ASSUME ConnectAssumption == Servers # {} /\ "form" \notin Saves

ASSUME ListsAssumption ==
    /\ ListKinds \subseteq {"snippets", "tunnels", "tasks", "credentials", "sessions", "audit"}
    /\ Items # {}

\* The page opens at its first section.
ASSUME SettingsAssumption ==
    /\ {"closed", "appearance"} \subseteq Sections
    /\ Sections \subseteq {"closed", "appearance", "ai", "alerts", "sync", "vault", "about"}
    /\ Versions \in Nat \ {0}

ASSUME KeyboardAssumption == \A i \in DOMAIN Actions : Defaults[Actions[i]] \in Keys

\* Keys of the bucket are compared.
ASSUME AlarmAssumption ==
    /\ RecordKeys \subseteq Nat /\ IsFiniteSet(RecordKeys) /\ ConfigKey \in Nat
    /\ MaxRecords \in Nat \ {0}

\* The encodings that can be configured (enc.go New), and those of a text.
ASSUME StreamsAssumption ==
    \A s \in Streams :
      s.text \in Seq(STRING) /\ s.mode \in {"auto", "utf-8", "gbk"} /\ s.of \in {"utf-8", "gbk"}

ASSUME CommandsAssumption ==
    /\ MaxSends \in Nat /\ BufferLimit \in Nat
    /\ \A a \in Typists : Inputs[a] \subseteq Seq(STRING)
==============================================================================
