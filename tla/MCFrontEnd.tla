------------------------------ MODULE MCFrontEnd ------------------------------
(***************************************************************************)
(* The panels of the window, the two engines that poll, a Telnet session and *)
(* the log of commands, side by side: one of them runs, chosen at the start,  *)
(* the others stay as they are at first.  What they share is the state of the *)
(* back end, of which each module has the part it needs.                      *)
(***************************************************************************)
EXTENDS Engines, Views, Forms

\* What runs: a panel or a part of one, or a part of the back end.
VARIABLE which

\* East and west of UTC.
MCZones == {-1, 1}

\* Two actions that start with a key each.
MCActions == <<"openConnect", "openTunnel">>
MCDefaults == [a \in {"openConnect", "openTunnel"} |-> IF a = "openConnect" THEN "Ctrl+N" ELSE "Ctrl+T"]

\* What a Telnet peer sends: commands between and within characters, in UTF-8 and GBK, guessed
\* or configured; the last one is misleading.
MCStreams == {
    [text |-> <<"L", "iac", "do", "naws", "C">>, mode |-> "auto", of |-> "utf-8"],
    [text |-> <<"C", "A", "iac", "sb", "x", "iac", "se">>, mode |-> "auto", of |-> "gbk"],
    [text |-> <<"L", "C", "A", "iac", "iac">>, mode |-> "gbk", of |-> "gbk"],
    [text |-> <<"T", "C", "C", "iac", "nop">>, mode |-> "utf-8", of |-> "utf-8"],
    [text |-> <<"L", "C", "C", "A">>, mode |-> "auto", of |-> "gbk"]}

\* The window of a Telnet session: as at first, smaller, and with a byte 255 in its size.
MCWindows == {FirstWindow, [rows |-> 24, cols |-> 80], [rows |-> 50, cols |-> 255]}

\* What is typed or sent by a task in one call.
MCInputs == [a \in Typists |->
    IF a = "tasks" THEN {<<"char", "enter">>}
    ELSE {<<"char">>, <<"esc", "enter">>, <<"char", "char", "char">>, <<"enter", "char">>}]

\* What runs: a panel or a part of one, or a part of the back end.
Parts == {"tabs", "dialogs", "terminal", "ai", "editor", "files", "transfers", "connect", "clicks", "monitor",
          "bar", "vnc", "pointer", "audit", "log", "home", "lists", "ai settings", "alerts", "sync", "about",
          "keyboard", "tasks", "usage", "telnet", "commands"}

MCInit ==
    /\ which \in Parts
    /\ Window!Init
    /\ Term!Init
    /\ Ai!Init
    /\ Editor!Init
    /\ Files!Init
    /\ Transfers!Init
    /\ Connect!Init
    /\ Mon!Init
    /\ Vnc!Init
    /\ Replay!Init
    /\ Lists!Init
    /\ Settings!Init
    /\ Keyboard!Init
    /\ Timer!Init
    /\ Alarm!Init
    /\ Telnet!Init
    /\ Commands!Init
    /\ which # "tasks" => zone = 1 /\ ~online
    /\ which # "telnet" => telnet.mode = "gbk"
    /\ which # "lists" => kind = "audit" /\ used = {}

\* The sections of the settings that are visited.
Visited == {"appearance"} \cup
    CASE which = "ai settings" -> {"ai", "closed"}
      [] which = "alerts" -> {"alerts"}
      [] which = "sync" -> {"sync", "vault"}
      [] OTHER -> {"about"}

\* A step of the panel that runs, with the bounds of its part: the tabs run with
\* three sessions and no dialogs (the third never reconnects), the dialogs with
\* two; the second chat is asked by the second panel and has one piece; local
\* directories do not change behind the pane; two configurations have connected
\* at most.  "connect" makes one attempt at a time, with every option; "clicks"
\* has a second one, of the home view, without Telnet.  Of two sessions that are
\* watched one does not answer at times, and the other ends.  "vnc" has frames and no
\* mouse, "pointer" no frames and a mouse of one button and a wheel.  "log" has one bookmark.
Step ==
    \/ which = "tabs" /\ Window!TabsNext /\ life'[3] # "down"
    \/ which = "dialogs" /\ Window!Next /\ \A i \in Ids : i > 2 => life'[i] = "none"
    \/ which = "terminal" /\ Term!Next
    \/ which = "ai" /\ Ai!Next /\ asker'[1] # 2 /\ produced'[2] <= 1
    \/ which = "editor" /\ Editor!Next
    \/ /\ which = "files" /\ Files!Next /\ disk'["local"] = disk["local"]
       /\ \A s \in Slots : work'[s].pane = "local" => work'[s].in # "d2"
    \/ which = "transfers" /\ Transfers!Next
    \/ which = "connect" /\ Connect!Next /\ Cardinality(reached') <= 2 /\ attempt'[2] = Connect!Idle
    \/ /\ which = "clicks" /\ Connect!Next /\ Cardinality(reached') <= 1 /\ "telnet" \notin form'.opts
       /\ attempt'[2] = Connect!Idle \/ attempt'[2].from \in Saves
    \/ which = "monitor" /\ Mon!MonitorNext
    \/ which = "bar" /\ Mon!BarNext
    \/ which = "vnc" /\ Vnc!Next /\ held' = {} /\ newest' = Vnc!NoCall
    \/ which = "pointer" /\ Vnc!Next /\ frames' = <<>> /\ "right" \notin held'
    \/ which = "audit" /\ Replay!AuditNext
    \/ which = "log" /\ Replay!LogNext /\ Cardinality(bookmarks') <= 1
    \/ which = "home" /\ Replay!HomeNext
    \/ which = "lists" /\ Lists!Next
    \/ which \in {"ai settings", "alerts", "sync", "about"} /\ Settings!Next /\ section' \in Visited
    \/ which = "keyboard" /\ Keyboard!Next
    \/ which = "tasks" /\ Timer!Next
    \/ which = "telnet" /\ Telnet!Next
    \/ which = "commands" /\ Commands!Next
    \/ which = "usage" /\ Alarm!Next /\ "c1" \in sessions' /\ "c2" \in reachable'

\* The others stay as they are.
OthersStay ==
    /\ UNCHANGED which
    /\ IF which \in {"tabs", "dialogs"} THEN TRUE ELSE UNCHANGED windowVars
    /\ IF which \in {"terminal"} THEN TRUE ELSE UNCHANGED termVars
    /\ IF which \in {"ai"} THEN TRUE ELSE UNCHANGED aiVars
    /\ IF which \in {"editor"} THEN TRUE ELSE UNCHANGED editorVars
    /\ IF which \in {"files"} THEN TRUE ELSE UNCHANGED filesVars
    /\ IF which \in {"transfers"} THEN TRUE ELSE UNCHANGED transfersVars
    /\ IF which \in {"connect", "clicks"} THEN TRUE ELSE UNCHANGED connectVars
    /\ IF which \in {"monitor", "bar"} THEN TRUE ELSE UNCHANGED monVars
    /\ IF which \in {"vnc", "pointer"} THEN TRUE ELSE UNCHANGED vncVars
    /\ IF which \in {"audit", "log", "home"} THEN TRUE ELSE UNCHANGED replayVars
    /\ IF which \in {"lists"} THEN TRUE ELSE UNCHANGED listsVars
    /\ IF which \in {"ai settings", "alerts", "sync", "about"} THEN TRUE ELSE UNCHANGED settingsVars
    /\ IF which \in {"keyboard"} THEN TRUE ELSE UNCHANGED keyboardVars
    /\ IF which \in {"tasks"} THEN TRUE ELSE UNCHANGED taskVars
    /\ IF which \in {"usage"} THEN TRUE ELSE UNCHANGED alarmVars
    /\ IF which \in {"telnet"} THEN TRUE ELSE UNCHANGED telnetVars
    /\ IF which \in {"commands"} THEN TRUE ELSE UNCHANGED commandVars

MCVars == <<which, windowVars, termVars, aiVars, editorVars, filesVars, transfersVars,
    connectVars, monVars, vncVars, replayVars, listsVars, settingsVars, keyboardVars, taskVars,
    alarmVars, telnetVars, commandVars>>

MCNext == Step /\ OthersStay

\* What goes on by itself in the panel that runs: frames are drawn, timers fire,
\* calls are carried out and answered, events are delivered.  The event loop and
\* the runtime serve each of them in the end; of a panel's calls it is enough that
\* some one goes on, but for connections: each attempt comes to an end.  Time passes, and an
\* engine goes on with its batch or round; a Telnet peer takes what is written to it.  Nothing the user does is fair.
Turn(k) ==
    \/ which = "terminal" /\ k = 1 /\ Term!Flush
    \/ /\ which = "ai" /\ k = 1
       /\ Ai!OnDelta \/ Ai!OnEnd \/ \E r \in 1..MaxReqs : Ai!Start(r) \/ Ai!Refuse(r) \/ Ai!End(r)
    \/ which = "editor" /\ k = 1 /\ \E c \in Calls : Editor!Execute(c) \/ Editor!Answer(c) \/ Editor!Fail(c)
    \/ /\ which = "transfers" /\ k = 1
       /\ Transfers!OnProgress \/ \E h \in Hosts, t \in Uploads : Transfers!AutoRemove(h, t)
    \/ /\ which \in {"connect", "clicks"}
       /\ \/ Connect!QuickLoaded(k) \/ Connect!Connected(k) \/ Connect!Unverified(k)
          \/ Connect!ConnectFails(k) \/ Connect!AcceptHostKey(k)
    \/ which = "monitor" /\ k = 1 /\ (Mon!TableFails \/ Mon!TableAnswers)
    \/ which \in {"vnc", "pointer"} /\ k = 1 /\ \E d \in 0..MaxDesks : Vnc!ConnectAnswers(d)
    \/ which = "audit" /\ k = 1 /\ Replay!Tick("audit")
    \/ which = "audit" /\ k = 2 /\ \E f \in Records : Replay!Reads("audit", f) \/ Replay!Fails("audit", f)
    \/ which = "log" /\ k = 1 /\ Replay!Tick("log")
    \/ which = "log" /\ k = 2 /\ Replay!SearchAnswers
    \/ /\ which \in {"ai settings", "alerts", "sync", "about"} /\ k = 1
       /\ \E c \in Calls : Settings!Execute(c) \/ Settings!Answers(c)
    \/ which = "tasks" /\ k = 1 /\ Timer!Pass
    \/ which = "tasks" /\ k = 2 /\ Timer!Engine
    \/ which = "usage" /\ k = 1 /\ Alarm!Engine
    \/ which = "telnet" /\ k = 1 /\ Telnet!Turn

MCSpec == MCInit /\ [][MCNext]_MCVars /\ \A k \in 1..2 : WF_MCVars(Turn(k) /\ OthersStay)

-----------------------------------------------------------------------------

\* Every variable of every panel keeps its type; a rate in the status bar is
\* never negative, whichever answer comes first (Workspace.tsx).
TypeOK ==
    /\ which \in Parts
    /\ which \in {"tabs", "dialogs"} => Window!TypeOK
    /\ which = "terminal" => Term!TypeOK
    /\ which = "ai" => Ai!TypeOK
    /\ which = "editor" => Editor!TypeOK
    /\ which = "files" => Files!TypeOK
    /\ which = "transfers" => Transfers!TypeOK
    /\ which \in {"connect", "clicks"} => Connect!TypeOK
    /\ which \in {"monitor", "bar"} => Mon!TypeOK
    /\ which \in {"vnc", "pointer"} => Vnc!TypeOK
    /\ which \in {"audit", "log", "home"} => Replay!TypeOK
    /\ which = "lists" => Lists!TypeOK
    /\ which \in {"ai settings", "alerts", "sync", "about"} => Settings!TypeOK
    /\ which = "keyboard" => Keyboard!TypeOK
    /\ which = "tasks" => Timer!TypeOK
    /\ which = "usage" => Alarm!TypeOK
    /\ which = "telnet" => Telnet!TypeOK
    /\ which = "commands" => Commands!TypeOK

\* The tabs are the sessions that run and were not closed, the active tab is one of
\* them, and the dialogs for a session have one, however sessions end, are closed and
\* are opened (App.tsx).
TabsFollowSessions == Window!ActiveIsShown /\ Window!TabsFollowSessions

\* Output, the lines of a snippet and the answers of the AI come out whole and
\* in order, in the view they are for (TerminalView.tsx, AiPanel.tsx); alerts and
\* recoveries of a metric come in turn (alert.go evalMetric).
StreamsAreWhole ==
    /\ Term!OutputIsWhole /\ Term!SnippetsAreWhole
    /\ Ai!AnswersAreWhole
    /\ Alarm!AlertsAlternate

\* The output of a Telnet session comes out whole, however the network splits it
\* (telnetcore/session.go process, enc.go Decode), and the commands of a session are
\* recorded, however they are split into calls (history.go recordInput).
PiecesAreJoined ==
    /\ which = "telnet" => Telnet!TextIsWhole
    /\ which = "commands" => Commands!CommandsAreRecorded /\ Commands!LineIsOpen

\* What a panel shows is of the directory, record, desktop or session it names,
\* whatever answers arrive late, and so is the target of dropped files
\* (FilePanel.tsx, AuditPanel.tsx, LogPanel.tsx, VncPanel.tsx, MonitorPanel.tsx).
ShownIsNamed ==
    /\ Files!PaneIsCurrent
    /\ Transfers!DropIsForShown /\ Transfers!QueueIsCurrent
    /\ Mon!MonitorIsOfSession
    /\ Vnc!CanvasIsOfDesk
    /\ Replay!TextIsOfRecord

\* A text without the mark "unsaved" is stored (EditorPanel.tsx).
CleanMeansStored == Editor!CleanMeansStored

\* What the forms, lists and key bindings show is what is stored, what is stored
\* is what the user saw, and what was deleted stays deleted (ConnectForm.tsx,
\* SettingsPage.tsx, SnippetPanel.tsx, TunnelPanel.tsx, shortcuts.ts), also while the
\* engine of the tasks writes them (task.go runTask).
FormsAreStored ==
    /\ Connect!SavedIsConnected /\ Connect!FilledIsStored /\ Connect!TrustIsGiven
    /\ Settings!FormsAreStored /\ Settings!InstallerIsOffered /\ Settings!OneRunAtATime
    /\ Lists!ListsSettle /\ Lists!DeletedStaysDeleted
    /\ Keyboard!KeysShownWork
    /\ Timer!EditsStay

\* A panel that waits, and whose buttons are off meanwhile; output that is not on
\* the screen; a task that is due; a usage that is not told; a Telnet session that ends.  The AI settings, the
\* lists and the panes of files wait for nothing.
Waiting(k) ==
    CASE which = "ai" -> k = 1 /\ \E v \in Panels \cup Terminals : busy[v]
      [] which = "editor" -> k = 1 /\ editing
      [] which = "transfers" -> k = 1 /\ \E h \in Hosts, t \in Uploads : queue[h][t] = "ended"
      [] which \in {"connect", "clicks"} -> (k = 1 /\ connecting) \/ (k = 2 /\ quick # Connect!NoSave)
      [] which = "monitor" -> k = 1 /\ fetching # {}
      [] which \in {"vnc", "pointer"} -> k = 1 /\ linking
      [] which \in {"audit", "log"} -> (k = 1 /\ playing[which]) \/ (k = 2 /\ (waiting \/ searching))
      [] which = "terminal" -> k = 1 /\ Term!Unwritten
      [] which = "tasks" -> Timer!Overdue(k)
      [] which = "telnet" -> Telnet!Unended(k)
      [] which = "usage" -> Alarm!Untold(<<"c1", "c2">>[k], "cpu")
      [] which \in {"sync", "about"} -> (k = 1 /\ (running \/ checking)) \/ (k = 2 /\ downloading)
      [] OTHER -> FALSE

\* Every panel that is busy is free again in the end, whatever is refused,
\* cancelled, stopped or answered late; replays end, finished transfers leave
\* the list, and what waits in the terminal on the screen is written to it.  A task
\* that is due is run (task.go checkTasks), and a usage that stays above or below
\* its threshold is told (alert.go evalMetric); a Telnet session that ends or is closed
\* comes to its end (telnetcore/session.go Close).
BusyEnds == \A k \in 1..2 : []<>~Waiting(k)

\* Two runs of a task are its interval apart, whatever fails, waits or is changed
\* meanwhile (task.go checkTasks, runTask).  A Telnet session keeps the contract of
\* model.TermSession, and the last report of the window's size that it sends is of the
\* last size (telnetcore/session.go Close, pump, Resize, negotiate).
ContractsAreKept ==
    /\ Timer!TasksKeepInterval
    /\ Telnet!ImplementsTermSession
    /\ []Telnet!LastReportIsOfSize
=============================================================================
