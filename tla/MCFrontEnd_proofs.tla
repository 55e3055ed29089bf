-------------------------- MODULE MCFrontEnd_proofs --------------------------
(***************************************************************************)
(* Theorems about the parts of the window and of the back end side by side:   *)
(* what holds of each of them alone, for any constants, holds of the whole.   *)
(* A step of the whole is a step of the part that runs, or leaves a part as    *)
(* it is.                                                                     *)
(***************************************************************************)
EXTENDS MCFrontEnd, Engines_proofs, Views_proofs, Forms_proofs

\* What runs moves, and is bounded.
Moves ==
    \/ which = "tabs" /\ Window!TabsNext
    \/ which = "dialogs" /\ Window!Next
    \/ which = "terminal" /\ Term!Next
    \/ which = "ai" /\ Ai!Next
    \/ which = "editor" /\ Editor!Next
    \/ which = "files" /\ Files!Next
    \/ which = "transfers" /\ Transfers!Next
    \/ which = "connect" /\ Connect!Next
    \/ which = "clicks" /\ Connect!Next
    \/ which = "monitor" /\ Mon!MonitorNext
    \/ which = "bar" /\ Mon!BarNext
    \/ which \in {"vnc", "pointer"} /\ Vnc!Next
    \/ which = "audit" /\ Replay!AuditNext
    \/ which = "log" /\ Replay!LogNext
    \/ which = "home" /\ Replay!HomeNext
    \/ which = "lists" /\ Lists!Next
    \/ which \in {"ai settings", "alerts", "sync", "about"} /\ Settings!Next
    \/ which = "keyboard" /\ Keyboard!Next
    \/ which = "tasks" /\ Timer!Next
    \/ which = "telnet" /\ Telnet!Next
    \/ which = "commands" /\ Commands!Next
    \/ which = "usage" /\ Alarm!Next

\* Steps of the whole are moves of a part.
LEMMA StepsMove == Step => Moves
BY Zenon DEF Step, Moves

-----------------------------------------------------------------------------

\* A step of the whole is one of the tabs and dialogs, or leaves them alone.
LEMMA WindowSteps == [MCNext]_MCVars => [Window!Next]_(Window!vars)
<1>1. CASE UNCHANGED MCVars
  BY <1>1 DEF MCVars, windowVars, Window!vars, Window!backEnd, Window!window, Window!screen
<1>2. CASE MCNext /\ which \in {"tabs", "dialogs"}
  <2>1. Moves
    BY <1>2, StepsMove DEF MCNext
  <2> QED
    BY <1>2, <2>1 DEF Moves, Window!Next
<1>3. CASE MCNext /\ which \notin {"tabs", "dialogs"}
  <2>1. UNCHANGED windowVars
    BY <1>3 DEF MCNext, OthersStay
  <2> QED
    BY <2>1 DEF windowVars, Window!vars, Window!backEnd, Window!window, Window!screen
<1> QED
  BY <1>1, <1>2, <1>3

\* A step of the whole is one of the terminal, or leaves it alone.
LEMMA TermSteps == [MCNext]_MCVars => [Term!Next]_(Term!vars)
<1>1. CASE UNCHANGED MCVars
  BY <1>1 DEF MCVars, termVars, Term!vars, Term!outputVars, Term!macroVars
<1>2. CASE MCNext /\ which \in {"terminal"}
  <2>1. Moves
    BY <1>2, StepsMove DEF MCNext
  <2> QED
    BY <1>2, <2>1 DEF Moves
<1>3. CASE MCNext /\ which \notin {"terminal"}
  <2>1. UNCHANGED termVars
    BY <1>3 DEF MCNext, OthersStay
  <2> QED
    BY <2>1 DEF termVars, Term!vars, Term!outputVars, Term!macroVars
<1> QED
  BY <1>1, <1>2, <1>3

\* A step of the whole is one of the AI panel, or leaves it alone.
LEMMA AiSteps == [MCNext]_MCVars => [Ai!Next]_(Ai!vars)
<1>1. CASE UNCHANGED MCVars
  BY <1>1 DEF MCVars, aiVars, Ai!vars, Ai!backEnd, Ai!view
<1>2. CASE MCNext /\ which \in {"ai"}
  <2>1. Moves
    BY <1>2, StepsMove DEF MCNext
  <2> QED
    BY <1>2, <2>1 DEF Moves
<1>3. CASE MCNext /\ which \notin {"ai"}
  <2>1. UNCHANGED aiVars
    BY <1>3 DEF MCNext, OthersStay
  <2> QED
    BY <2>1 DEF aiVars, Ai!vars, Ai!backEnd, Ai!view
<1> QED
  BY <1>1, <1>2, <1>3

\* A step of the whole is one of the editor, or leaves it alone.
LEMMA EditorSteps == [MCNext]_MCVars => [Editor!Next]_(Editor!vars)
<1>1. CASE UNCHANGED MCVars
  BY <1>1 DEF MCVars, editorVars, Editor!vars
<1>2. CASE MCNext /\ which \in {"editor"}
  <2>1. Moves
    BY <1>2, StepsMove DEF MCNext
  <2> QED
    BY <1>2, <2>1 DEF Moves
<1>3. CASE MCNext /\ which \notin {"editor"}
  <2>1. UNCHANGED editorVars
    BY <1>3 DEF MCNext, OthersStay
  <2> QED
    BY <2>1 DEF editorVars, Editor!vars
<1> QED
  BY <1>1, <1>2, <1>3

\* A step of the whole is one of the panes of files, or leaves them alone.
LEMMA FilesSteps == [MCNext]_MCVars => [Files!Next]_(Files!vars)
<1>1. CASE UNCHANGED MCVars
  BY <1>1 DEF MCVars, filesVars, Files!vars
<1>2. CASE MCNext /\ which \in {"files"}
  <2>1. Moves
    BY <1>2, StepsMove DEF MCNext
  <2> QED
    BY <1>2, <2>1 DEF Moves
<1>3. CASE MCNext /\ which \notin {"files"}
  <2>1. UNCHANGED filesVars
    BY <1>3 DEF MCNext, OthersStay
  <2> QED
    BY <2>1 DEF filesVars, Files!vars
<1> QED
  BY <1>1, <1>2, <1>3

\* A step of the whole is one of the list of transfers, or leaves it alone.
LEMMA TransfersSteps == [MCNext]_MCVars => [Transfers!Next]_(Transfers!vars)
<1>1. CASE UNCHANGED MCVars
  BY <1>1 DEF MCVars, transfersVars, Transfers!vars, Transfers!serverVars
<1>2. CASE MCNext /\ which \in {"transfers"}
  <2>1. Moves
    BY <1>2, StepsMove DEF MCNext
  <2> QED
    BY <1>2, <2>1 DEF Moves
<1>3. CASE MCNext /\ which \notin {"transfers"}
  <2>1. UNCHANGED transfersVars
    BY <1>3 DEF MCNext, OthersStay
  <2> QED
    BY <2>1 DEF transfersVars, Transfers!vars, Transfers!serverVars
<1> QED
  BY <1>1, <1>2, <1>3

\* A step of the whole is one of the connect form, or leaves it alone.
LEMMA ConnectSteps == [MCNext]_MCVars => [Connect!Next]_(Connect!vars)
<1>1. CASE UNCHANGED MCVars
  BY <1>1 DEF MCVars, connectVars, Connect!vars, Connect!backEnd, Connect!observed
<1>2. CASE MCNext /\ which \in {"connect", "clicks"}
  <2>1. Moves
    BY <1>2, StepsMove DEF MCNext
  <2> QED
    BY <1>2, <2>1 DEF Moves
<1>3. CASE MCNext /\ which \notin {"connect", "clicks"}
  <2>1. UNCHANGED connectVars
    BY <1>3 DEF MCNext, OthersStay
  <2> QED
    BY <2>1 DEF connectVars, Connect!vars, Connect!backEnd, Connect!observed
<1> QED
  BY <1>1, <1>2, <1>3

\* A step of the whole is one of the monitor panel and the status bar, or leaves them alone.
LEMMA MonSteps == [MCNext]_MCVars => [Mon!Next]_(Mon!vars)
<1>1. CASE UNCHANGED MCVars
  BY <1>1 DEF MCVars, monVars, Mon!vars, Mon!monitorVars, Mon!barVars
<1>2. CASE MCNext /\ which \in {"monitor", "bar"}
  <2>1. Moves
    BY <1>2, StepsMove DEF MCNext
  <2> QED
    BY <1>2, <2>1 DEF Moves, Mon!Next
<1>3. CASE MCNext /\ which \notin {"monitor", "bar"}
  <2>1. UNCHANGED monVars
    BY <1>3 DEF MCNext, OthersStay
  <2> QED
    BY <2>1 DEF monVars, Mon!vars, Mon!monitorVars, Mon!barVars
<1> QED
  BY <1>1, <1>2, <1>3

\* A step of the whole is one of the VNC panel, or leaves it alone.
LEMMA VncSteps == [MCNext]_MCVars => [Vnc!Next]_(Vnc!vars)
<1>1. CASE UNCHANGED MCVars
  BY <1>1 DEF MCVars, vncVars, Vnc!vars, Vnc!mouse, Vnc!hand, Vnc!calls
<1>2. CASE MCNext /\ which \in {"vnc", "pointer"}
  <2>1. Moves
    BY <1>2, StepsMove DEF MCNext
  <2> QED
    BY <1>2, <2>1 DEF Moves
<1>3. CASE MCNext /\ which \notin {"vnc", "pointer"}
  <2>1. UNCHANGED vncVars
    BY <1>3 DEF MCNext, OthersStay
  <2> QED
    BY <2>1 DEF vncVars, Vnc!vars, Vnc!mouse, Vnc!hand, Vnc!calls
<1> QED
  BY <1>1, <1>2, <1>3

\* A step of the whole is one of the panels of records, or leaves them alone.
LEMMA ReplaySteps == [MCNext]_MCVars => [Replay!Next]_(Replay!vars)
<1>1. CASE UNCHANGED MCVars
  BY <1>1 DEF MCVars, replayVars, Replay!vars
<1>2. CASE MCNext /\ which \in {"audit", "log", "home"}
  <2>1. Moves
    BY <1>2, StepsMove DEF MCNext
  <2> QED
    BY <1>2, <2>1 DEF Moves, Replay!Next
<1>3. CASE MCNext /\ which \notin {"audit", "log", "home"}
  <2>1. UNCHANGED replayVars
    BY <1>3 DEF MCNext, OthersStay
  <2> QED
    BY <2>1 DEF replayVars, Replay!vars
<1> QED
  BY <1>1, <1>2, <1>3

\* A step of the whole is one of the lists, or leaves them alone.
LEMMA ListsSteps == [MCNext]_MCVars => [Lists!Next]_(Lists!vars)
<1>1. CASE UNCHANGED MCVars
  BY <1>1 DEF MCVars, listsVars, Lists!vars
<1>2. CASE MCNext /\ which \in {"lists"}
  <2>1. Moves
    BY <1>2, StepsMove DEF MCNext
  <2> QED
    BY <1>2, <2>1 DEF Moves
<1>3. CASE MCNext /\ which \notin {"lists"}
  <2>1. UNCHANGED listsVars
    BY <1>3 DEF MCNext, OthersStay
  <2> QED
    BY <2>1 DEF listsVars, Lists!vars
<1> QED
  BY <1>1, <1>2, <1>3

\* A step of the whole is one of the settings, or leaves them alone.
LEMMA SettingsSteps == [MCNext]_MCVars => [Settings!Next]_(Settings!vars)
<1>1. CASE UNCHANGED MCVars
  BY <1>1 DEF MCVars, settingsVars, Settings!vars
<1>2. CASE MCNext /\ which \in {"ai settings", "alerts", "sync", "about"}
  <2>1. Moves
    BY <1>2, StepsMove DEF MCNext
  <2> QED
    BY <1>2, <2>1 DEF Moves
<1>3. CASE MCNext /\ which \notin {"ai settings", "alerts", "sync", "about"}
  <2>1. UNCHANGED settingsVars
    BY <1>3 DEF MCNext, OthersStay
  <2> QED
    BY <2>1 DEF settingsVars, Settings!vars
<1> QED
  BY <1>1, <1>2, <1>3

\* A step of the whole is one of the keys, or leaves them alone.
LEMMA KeyboardSteps == [MCNext]_MCVars => [Keyboard!Next]_(Keyboard!vars)
<1>1. CASE UNCHANGED MCVars
  BY <1>1 DEF MCVars, keyboardVars, Keyboard!vars
<1>2. CASE MCNext /\ which \in {"keyboard"}
  <2>1. Moves
    BY <1>2, StepsMove DEF MCNext
  <2> QED
    BY <1>2, <2>1 DEF Moves
<1>3. CASE MCNext /\ which \notin {"keyboard"}
  <2>1. UNCHANGED keyboardVars
    BY <1>3 DEF MCNext, OthersStay
  <2> QED
    BY <2>1 DEF keyboardVars, Keyboard!vars
<1> QED
  BY <1>1, <1>2, <1>3

\* A step of the whole is one of the engine of the tasks, or leaves it alone.
LEMMA TimerSteps == [MCNext]_MCVars => [Timer!Next]_(Timer!vars)
<1>1. CASE UNCHANGED MCVars
  BY <1>1 DEF MCVars, taskVars, Timer!vars
<1>2. CASE MCNext /\ which \in {"tasks"}
  <2>1. Moves
    BY <1>2, StepsMove DEF MCNext
  <2> QED
    BY <1>2, <2>1 DEF Moves
<1>3. CASE MCNext /\ which \notin {"tasks"}
  <2>1. UNCHANGED taskVars
    BY <1>3 DEF MCNext, OthersStay
  <2> QED
    BY <2>1 DEF taskVars, Timer!vars
<1> QED
  BY <1>1, <1>2, <1>3

\* A step of the whole is one of the engine of the alerts, or leaves it alone.
LEMMA AlarmSteps == [MCNext]_MCVars => [Alarm!Next]_(Alarm!vars)
<1>1. CASE UNCHANGED MCVars
  BY <1>1 DEF MCVars, alarmVars, Alarm!vars
<1>2. CASE MCNext /\ which \in {"usage"}
  <2>1. Moves
    BY <1>2, StepsMove DEF MCNext
  <2> QED
    BY <1>2, <2>1 DEF Moves
<1>3. CASE MCNext /\ which \notin {"usage"}
  <2>1. UNCHANGED alarmVars
    BY <1>3 DEF MCNext, OthersStay
  <2> QED
    BY <2>1 DEF alarmVars, Alarm!vars
<1> QED
  BY <1>1, <1>2, <1>3

\* A step of the whole is one of the Telnet session, or leaves it alone.
LEMMA TelnetSteps == [MCNext]_MCVars => [Telnet!Next]_(Telnet!vars)
<1>1. CASE UNCHANGED MCVars
  BY <1>1 DEF MCVars, telnetVars, Telnet!vars, Telnet!readVars, Telnet!sizeVars,
              Telnet!closeVars, Telnet!chanVars, Telnet!consumerVars
<1>2. CASE MCNext /\ which \in {"telnet"}
  <2>1. Moves
    BY <1>2, StepsMove DEF MCNext
  <2> QED
    BY <1>2, <2>1 DEF Moves
<1>3. CASE MCNext /\ which \notin {"telnet"}
  <2>1. UNCHANGED telnetVars
    BY <1>3 DEF MCNext, OthersStay
  <2> QED
    BY <2>1 DEF telnetVars, Telnet!vars, Telnet!readVars, Telnet!sizeVars, Telnet!closeVars,
                Telnet!chanVars, Telnet!consumerVars
<1> QED
  BY <1>1, <1>2, <1>3

\* A step of the whole is one of the log of commands, or leaves it alone.
LEMMA CommandsSteps == [MCNext]_MCVars => [Commands!Next]_(Commands!vars)
<1>1. CASE UNCHANGED MCVars
  BY <1>1 DEF MCVars, commandVars, Commands!vars
<1>2. CASE MCNext /\ which \in {"commands"}
  <2>1. Moves
    BY <1>2, StepsMove DEF MCNext
  <2> QED
    BY <1>2, <2>1 DEF Moves
<1>3. CASE MCNext /\ which \notin {"commands"}
  <2>1. UNCHANGED commandVars
    BY <1>3 DEF MCNext, OthersStay
  <2> QED
    BY <2>1 DEF commandVars, Commands!vars
<1> QED
  BY <1>1, <1>2, <1>3

-----------------------------------------------------------------------------

\* The tabs and dialogs of the whole behave as by themselves.
LEMMA WindowRuns == MCSpec => Window!Init /\ [][Window!Next]_(Window!vars)
<1>1. MCInit => Window!Init
  BY DEF MCInit
<1> QED
  BY <1>1, WindowSteps, PTL DEF MCSpec

\* The terminal of the whole behaves as by itself.
LEMMA TermRuns == MCSpec => Term!Init /\ [][Term!Next]_(Term!vars)
<1>1. MCInit => Term!Init
  BY DEF MCInit
<1> QED
  BY <1>1, TermSteps, PTL DEF MCSpec

\* The AI panel of the whole behaves as by itself.
LEMMA AiRuns == MCSpec => Ai!Init /\ [][Ai!Next]_(Ai!vars)
<1>1. MCInit => Ai!Init
  BY DEF MCInit
<1> QED
  BY <1>1, AiSteps, PTL DEF MCSpec

\* The editor of the whole behaves as by itself.
LEMMA EditorRuns == MCSpec => Editor!Init /\ [][Editor!Next]_(Editor!vars)
<1>1. MCInit => Editor!Init
  BY DEF MCInit
<1> QED
  BY <1>1, EditorSteps, PTL DEF MCSpec

\* The panes of files of the whole behave as by themselves.
LEMMA FilesRuns == MCSpec => Files!Init /\ [][Files!Next]_(Files!vars)
<1>1. MCInit => Files!Init
  BY DEF MCInit
<1> QED
  BY <1>1, FilesSteps, PTL DEF MCSpec

\* The list of transfers of the whole behaves as by itself.
LEMMA TransfersRuns == MCSpec => Transfers!Init /\ [][Transfers!Next]_(Transfers!vars)
<1>1. MCInit => Transfers!Init
  BY DEF MCInit
<1> QED
  BY <1>1, TransfersSteps, PTL DEF MCSpec

\* The connect form of the whole behaves as by itself.
LEMMA ConnectRuns == MCSpec => Connect!Init /\ [][Connect!Next]_(Connect!vars)
<1>1. MCInit => Connect!Init
  BY DEF MCInit
<1> QED
  BY <1>1, ConnectSteps, PTL DEF MCSpec

\* The monitor panel and the status bar of the whole behave as by themselves.
LEMMA MonRuns == MCSpec => Mon!Init /\ [][Mon!Next]_(Mon!vars)
<1>1. MCInit => Mon!Init
  BY DEF MCInit
<1> QED
  BY <1>1, MonSteps, PTL DEF MCSpec

\* The VNC panel of the whole behaves as by itself.
LEMMA VncRuns == MCSpec => Vnc!Init /\ [][Vnc!Next]_(Vnc!vars)
<1>1. MCInit => Vnc!Init
  BY DEF MCInit
<1> QED
  BY <1>1, VncSteps, PTL DEF MCSpec

\* The panels of records of the whole behave as by themselves.
LEMMA ReplayRuns == MCSpec => Replay!Init /\ [][Replay!Next]_(Replay!vars)
<1>1. MCInit => Replay!Init
  BY DEF MCInit
<1> QED
  BY <1>1, ReplaySteps, PTL DEF MCSpec

\* The lists of the whole behave as by themselves.
LEMMA ListsRuns == MCSpec => Lists!Init /\ [][Lists!Next]_(Lists!vars)
<1>1. MCInit => Lists!Init
  BY DEF MCInit
<1> QED
  BY <1>1, ListsSteps, PTL DEF MCSpec

\* The settings of the whole behave as by themselves.
LEMMA SettingsRuns == MCSpec => Settings!Init /\ [][Settings!Next]_(Settings!vars)
<1>1. MCInit => Settings!Init
  BY DEF MCInit
<1> QED
  BY <1>1, SettingsSteps, PTL DEF MCSpec

\* The keys of the whole behave as by themselves.
LEMMA KeyboardRuns == MCSpec => Keyboard!Init /\ [][Keyboard!Next]_(Keyboard!vars)
<1>1. MCInit => Keyboard!Init
  BY DEF MCInit
<1> QED
  BY <1>1, KeyboardSteps, PTL DEF MCSpec

\* The engine of the tasks of the whole behaves as by itself.
LEMMA TimerRuns == MCSpec => Timer!Spec
<1>1. MCInit => Timer!Init
  BY DEF MCInit
<1> QED
  BY <1>1, TimerSteps, PTL DEF MCSpec, Timer!Spec

\* The engine of the alerts of the whole behaves as by itself.
LEMMA AlarmRuns == MCSpec => Alarm!Spec
<1>1. MCInit => Alarm!Init
  BY DEF MCInit
<1> QED
  BY <1>1, AlarmSteps, PTL DEF MCSpec, Alarm!Spec

\* The Telnet session of the whole behaves as by itself.
LEMMA TelnetRuns == MCSpec => Telnet!Spec
<1>1. MCInit => Telnet!Init
  BY DEF MCInit
<1> QED
  BY <1>1, TelnetSteps, PTL DEF MCSpec, Telnet!Spec

\* The log of commands of the whole behaves as by itself.
LEMMA CommandsRuns == MCSpec => Commands!Spec
<1>1. MCInit => Commands!Init
  BY DEF MCInit
<1> QED
  BY <1>1, CommandsSteps, PTL DEF MCSpec, Commands!Spec

-----------------------------------------------------------------------------

\* What runs is a part, and stays the same.
LEMMA OnePartRuns == MCSpec => [](which \in Parts)
<1>1. MCInit => which \in Parts
  BY DEF MCInit
<1>2. which \in Parts /\ [MCNext]_MCVars => (which \in Parts)'
  BY DEF MCNext, OthersStay, MCVars
<1> QED
  BY <1>1, <1>2, PTL DEF MCSpec

\* Every panel, engine and log keeps its types, a queue or bucket its limit, and a rate
\* is never negative.
THEOREM FrontEndTypeCorrect == MCSpec => []TypeOK
<1> DEFINE All ==
      /\ Window!TypeOK
      /\ Term!TypeOK
      /\ Ai!TypeOK
      /\ Editor!TypeOK
      /\ Files!TypeOK
      /\ Transfers!TypeOK
      /\ Connect!TypeOK
      /\ Mon!TypeOK
      /\ Vnc!TypeOK
      /\ Replay!TypeOK
      /\ Lists!TypeOK
      /\ Settings!TypeOK
      /\ Keyboard!TypeOK
      /\ Timer!TypeOK
      /\ Alarm!TypeOK
      /\ Telnet!TypeOK
      /\ Commands!TypeOK
<1>1. which \in Parts /\ All => TypeOK
  BY DEF TypeOK
<1> QED
  BY <1>1, OnePartRuns, WindowRuns, WindowTypeCorrect, TermRuns, TermTypeCorrect, AiRuns,
     AiTypeCorrect, EditorRuns, EditorTypeCorrect, FilesRuns, FilesTypeCorrect, TransfersRuns,
     TransfersTypeCorrect, ConnectRuns, ConnectTypeCorrect, MonRuns, MonTypeCorrect, VncRuns,
     VncTypeCorrect, ReplayRuns, ReplayTypeCorrect, ListsRuns, ListsTypeCorrect, SettingsRuns,
     SettingsTypeCorrect, KeyboardRuns, KeyboardTypeCorrect, TimerRuns, TaskTypeCorrect,
     AlarmRuns, AlertTypeCorrect, TelnetRuns, TelnetTypeCorrect, CommandsRuns,
     CommandTypeCorrect, PTL

\* TerminalView.tsx flush, AiPanel.tsx, alert.go evalMetric: output, snippets and answers come
\* out whole, in order and where they belong, and alerts and recoveries in turn.
THEOREM StreamsStayWhole == MCSpec => []StreamsAreWhole
BY TermRuns, AiRuns, AlarmRuns, TermOutputIsWhole, TermSnippetsAreWhole, AiAnswersAreWhole,
   AlertsTakeTurns, PTL DEF StreamsAreWhole

\* App.tsx: the tabs are the sessions that run and were not closed, and one of them is active.
THEOREM TabsAreSessions == MCSpec => []TabsFollowSessions
BY WindowRuns, WindowActiveTabIsShown, WindowTabsAreSessions, PTL DEF TabsFollowSessions

\* FilePanel.tsx, MonitorPanel.tsx, VncPanel.tsx, AuditPanel.tsx, LogPanel.tsx: a panel
\* shows what it names, whatever answers come late.
THEOREM ShownStaysNamed == MCSpec => []ShownIsNamed
BY FilesRuns, TransfersRuns, MonRuns, VncRuns, ReplayRuns, FilesPanesAreCurrent,
   TransfersDropsAreForShown, TransfersQueuesAreCurrent, MonIsOfSession, VncCanvasIsOfDesk,
   ReplayTextIsOfRecord, PTL DEF ShownIsNamed

\* EditorPanel.tsx: a text without the mark "unsaved" is stored.
THEOREM CleanTextsAreStored == MCSpec => []CleanMeansStored
BY EditorRuns, EditorCleanTextIsStored, PTL DEF CleanMeansStored

\* ConnectForm.tsx, SettingsPage.tsx, SnippetPanel.tsx, TunnelPanel.tsx, shortcuts.ts, task.go:
\* what is shown is stored, what is stored is what the user saw, and what was deleted stays so.
THEOREM FormsStayStored == MCSpec => []FormsAreStored
BY ConnectRuns, SettingsRuns, ListsRuns, KeyboardRuns, TimerRuns, ConnectSavesAreConnected,
   ConnectFilledAreStored, ConnectTrustsAreGiven, SettingsFormsStored,
   SettingsInstallerOffered, SettingsOneRuns, ListsAreSettled, ListsNothingIsRevived,
   KeyboardShownKeysWork, TaskEditsAreKept, PTL DEF FormsAreStored

\* task.go checkTasks, telnetcore/session.go: two runs of a task are its interval apart, and
\* a Telnet session keeps the contract of model.TermSession and reports its last size.
THEOREM ContractsStayKept == MCSpec => ContractsAreKept
BY TimerRuns, TasksAreInTime, TelnetRuns, TelnetImplementsTerm, TelnetLastReport, PTL
   DEF ContractsAreKept, Telnet!ImplementsTermSession

\* telnetcore/session.go, enc.go, history.go recordInput: what the window receives is the beginning
\* of the text the peer wrote, wherever a read cuts its commands and characters, and the log has
\* the commands a session received, wherever a call cuts its lines.
THEOREM PiecesStayJoined == MCSpec => []PiecesAreJoined
BY TelnetRuns, CommandsRuns, TelnetTextIsWhole, CommandLogIsWhole, CommandLineIsOpen, PTL
   DEF PiecesAreJoined
==============================================================================
