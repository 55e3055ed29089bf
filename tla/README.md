# Formal models of ssh-terminal

ssh-terminal is a desktop SSH client: a Go back end (package `main` and
`internal/`) with a React front end in one Wails process, and a separate sync
server (`server/`).  This directory holds TLA+ models of its concurrent and
stateful parts, the TLC runs that check them and TLAPS proofs.
`PROJECT.json` lists components, runs, the source lines of each definition, the
findings, and the hazards of the code with the properties that cover them.

## 1. Inventory

| Component | State | Operations | Hard behaviour |
|---|---|---|---|
| SSH session (`internal/sshcore/session.go`) | `mu`, `sftpMu`, `closeOnce`, `stop`, `closed`, output channel (64), done channel (1), wait group | Send, Resize, KeepAlive, Dial, ListenRemote, Exec, SFTP, Close; goroutines: 2 pumps, ticker, waiter | Close against calls in the network, pumps blocked on a full channel, two closers, double close |
| Telnet session (`internal/telnetcore`) | one pump, `mu`, `stop`, channels | the same interface | does not close itself; its end signal may be lost |
| Session table (`app.go` 57-489) | maps `sessions`, `connConfigs`, `manualClose`, `history`, `auditIDs`, `tunnels`, counter `nextID` | Connect, attachSession, tryReconnect, SshClose, startAudit/finishAudit, StartTunnel/StopTunnel | id outlives its connection; user close against reconnection, end against attach |
| Window (`App.tsx`, `main.tsx`) | open tabs, active tab, dialogs and pages, split view | onConnected, onExit, closeSession, key handler, broadcast, error page | events before the answer of Connect, several updates in one render, rejections nobody catches |
| Terminal (`TerminalView.tsx`) | pending output, frame, context menu | onOutput, scheduleFlush, sendSnippet, askExplain | output while hidden or while a frame is asked for, overlapping macros |
| AI panel (`AiPanel.tsx`) | answer, busy | send, stop, newSession, listeners | events that name no request |
| Editor (`EditorPanel.tsx`) | path, text, dirty, busy | load, save, save local, new | text changed during a call |
| File panel (`FilePanel.tsx`) | directory, listing and selection of two panes, queue, drop handler | listing, changes, upload, download, cancel, remove | closures of old directories, listeners shared by all panels |
| Connect form, home view (`ConnectForm.tsx`, `HomeView.tsx`) | fields, stored session, busy | connect, question about a host key, save, load, quickConnect | fields changed during an attempt, two attempts |
| Monitor, status bar (`MonitorPanel.tsx`, `Workspace.tsx`) | last sample, tables, byte counters | ticks, tables, polls | answers for another session or in another order |
| VNC panel (`VncPanel.tsx`) | desktop, canvas, mask of buttons | connect, disconnect, frames, mouse | frames of a desktop that was left |
| Audit, logs, history (`AuditPanel.tsx`, `LogPanel.tsx`, `HomeView.tsx`) | record, text, position, bookmarks | open, play, search, bookmark | texts that come late |
| Lists (`SnippetPanel.tsx`, `TunnelPanel.tsx`, `SettingsPage.tsx`, `ConnectForm.tsx`, `AuditPanel.tsx`) | list on the screen, entry being edited | save, delete, toggle, import, refresh | refreshes out of order, copies that bring back what was deleted |
| Settings (`SettingsPage.tsx`, `shortcuts.ts`) | forms, busy flags, key bindings | load, save, sync, vault, update, record a key | sections left during a call |
| Transfer engine (`internal/transfer/engine.go`) | task table, cancel flags, `lastEmit`, semaphore of 3, files | Upload, Download, Cancel, Remove, RemoveFinished | throttled events, cancel races, resumption, conflict policies |
| Sync server (`server/`) | bbolt buckets users, devices, vault; one transaction per store call | register, login, vault GET/PUT, devices, revoke | handlers interleave between transactions, crash, database errors |
| Sync client (`app.go` 1170-1388) | token, local sessions | SyncRegister, SyncLogin, SyncPush, SyncPull, SyncRevokeDevice | lost answers, version fetched at push |
| Task engine (`task.go`) | tasks in the store | checkTasks, runTask, SaveTask | stale copy saved; session ids start again |
| Alert engine (`alert.go`) | `firing` map, 200 records in the store | checkAlerts, evalMetric, fireAlert | failed sample counts as 0; trimming by random id |
| History (`history.go`) | file, command buffer | write, recordInput, cleanup, search | buffer over 4096 bytes |
| Output decoding (`internal/enc`) | mode, leftover bytes | Decode | characters split over chunks |
| AI assistant (`app.go` 1739-2001) | cancel function, monthly use | AiChat, AiExplain, AiCancel | check-then-act on the limit, cancelled predecessor |
| Host keys (`knownhosts.go`, `app.go` 182) | known_hosts file, pending keys | callback, AcceptHostKey | stale snapshot |
| VNC (`internal/vnccore`) | frame buffer, session table | Start, readRawRect, KeyEvent, Close | clipping arithmetic |
| Store, vault, localfs, proxy | bbolt, keyring, files | save, load | thin I/O |

How they meet: `Connect` registers a session and `attachSession` starts two
goroutines for it, one ranging over `Output()` (terminal events and history
file), one waiting on `Done()` (reconnection or cleanup, `ssh-exit` event).
Transfers and tunnels take the SSH session from the table.  The engines poll
the table and the store.  The front end calls bound methods, each in a goroutine
of its own, and listens to events.

What makes each part correct: teardown happens once, in order and completely;
each session is watched by exactly one goroutine until nothing of it is left;
slots, cancels and last events of transfers are never lost and files arrive
whole; a vault is a register with versions; a revoked device stays revoked.
In the window: the tabs are the sessions that run, streams come out whole, what
a panel shows is of what it names and is what is stored, and a panel that is
busy is free again.

## 2. Modules

| Module | Models | Notes |
|---|---|---|
| `TermSession` | the contract of `model.TermSession` | abstract: output channel, end signal, Close |
| `SshSession` | `internal/sshcore/session.go` after connectOnce | implements `TermSession` (`ImplementsTermSession`) |
| `SshSession_proofs` | - | theorems about `SshSession` |
| `AppSessions`, `AppSessions_proofs` | session table, reconnection, audit, history file, tunnels, tabs | its connections follow `TermSession` |
| `VaultRegister` | what the service promises of one vault | abstract versioned register |
| `SyncServer`, `SyncServer_proofs` | server, database and client of cloud sync | implements `VaultRegister` for each account |
| `TransferEngine`, `TransferEngine_proofs` | `internal/transfer/engine.go` | uploads and downloads are the same steps with the sides exchanged |
| `WindowTabs` | `App.tsx`, `main.tsx` | tabs, dialogs, rendering, error page |
| `TerminalView` | `TerminalView.tsx` | output, snippets |
| `AiPanel` | `AiPanel.tsx`, askExplain, `App.AiChat`/`AiExplain`/`AiCancel` | |
| `EditorPanel` | `EditorPanel.tsx`, `App.Editor*` | |
| `FilePanel`, `TransferList` | `FilePanel.tsx` | the panes; queue and drop target |
| `ConnectForm` | `ConnectForm.tsx`, quickConnect, `App.Connect`, `AcceptHostKey` | |
| `Monitors` | `MonitorPanel.tsx`, `Workspace.tsx` | |
| `VncPanel` | `VncPanel.tsx`, `App.Vnc*` | |
| `ReplayPanels` | `AuditPanel.tsx`, `LogPanel.tsx`, history of `HomeView.tsx` | |
| `ListPanels` | the panels with a list the back end keeps | |
| `SettingsForms`, `Shortcuts` | `SettingsPage.tsx`, `shortcuts.ts` | |
| `TaskEngine`, `TaskBounds` | `task.go` | the engine and its parameters |
| `AlertEngine` | `alert.go`, the alerts of `internal/store/store.go` | |
| `TelnetSession`, `TelnetBounds` | `internal/telnetcore/session.go` | the session and its parameters; implements `TermSession` |
| `Encoding` | `internal/enc/enc.go` | functions that `TelnetSession` uses |
| `CommandLog` | `recordInput` of `history.go`, `SshSend` of `app.go` | |
| `FrontEndBounds` | - | the parameters of the parts of the window and of the engines, with their assumptions |
| `Engines`, `Engines_proofs` | - | variables and instances of the two engines, the Telnet session and the log of commands, and theorems about them |
| `Views`, `Views_proofs` | - | the same for what shows something: tabs, terminal, AI, editor, monitors, VNC, records |
| `Forms`, `Forms_proofs` | - | the same for what is filled in: files, transfers, connect form, lists, settings, keys |
| `MCFrontEnd`, `MCFrontEnd_proofs` | - | puts the parts of `Engines`, `Views` and `Forms` side by side, and theorems about the whole |
| `MC*` | - | constants, bounds and symmetry for TLC |

Operators named in a comment "Mutant:" are the same step with a plausible bug in
it.  They are not part of any specification: they show that the properties
notice the bug (`PROJECT.json`, "mutants").

### SshSession

One action per section of code between two blocking points or lock operations.
`pc` says where each caller and the waiter of `sess.Wait()` are; `pump`,
`ticker` and `consumer` are the other goroutines.  `mu`/`sftpMu` hold their
owner.  `Send` holds `mu` in the place "write", KeepAlive/Dial/ListenRemote in
"request".  `Close` is `CloseBegin` (closeOnce, close of `stop`), `CloseMark`
(`closed` under `mu`), `CloseSftp`, `CloseConn`, `CloseOutput`; a second caller
waits in "close_wait" as `sync.Once` makes it.  `SFTP` reads `closed` under the wrong lock
(a data race): `SeenClosed` lets it see either value until Close itself
has taken `sftpMu`.  Chunks of output are counted, not represented.

### AppSessions

Connections are numbered; `owner` is the session id.  A connection is a
`TermSession` plus how its protocol ends one: `PostSignal`, `SelfClose` (SSH
only), `SignalLost` (Telnet pump that returns without a signal), `CloseDone`.
`connect`, `watcher` and `closer` are the program counters of Connect, of the
Done goroutine of each connection and of SshClose; each step is what the code
does between two lock sections.  The audit record is two booleans (start data,
end data), the history file "open" or "closed".  A tunnel is "opening" while
StartTunnel is between its look into the session table and the registration, which
may fail (`OpenTunnelFails`) and does not look again (`RegisterTunnel`).

### SyncServer

Each request has a handler with a program counter; a step is a database
transaction.  `TouchDevice` is `TouchRead` and `TouchUpdate` with the copy it
carries.  Database errors are modelled where the code ignores them (the write
may not happen; a conflict names version 0) and where it answers 500.  `Crash` loses all handlers and keeps
the database.  A client gives up at any time (`TimeOut`) and its handler goes on.
The content of a vault is the set of sessions it holds.

### TransferEngine

A file is a sequence of chunks, each of which knows where it came from, so that
a mixture of two files differs from either.  `disk` is the side written to.
`Open` truncates or keeps what is there as the flags say, `Copy` appends or writes at its
position.  `Ask` is what a task does with the help of the server, `Finish` what it does alone.  Everything that is a file access may fail (`Fails`), a failing `stat`
is ignored where the code ignores it.  `crossed`, `blind` and `kept` are history
variables: another task writes the same file, the conflict policy could not
look, and what an interrupted transfer left.

### The window

A handler of the front end runs without interruption up to an `await`, so each
action is the code between two of them: the click with everything up to the
first call, the back end that carries the call out (`Execute`, or an action with
the name of the bound method), the answer with everything up to the next call.
A call in progress is a record with what its closure holds (the directory, the
path, the configuration): the code uses that, and not what is on the screen when
the answer comes.  Calls are answered in any order and may fail.  Events of the
back end are sequences, as the runtime delivers them in order.  A prompt or a
confirmation blocks the window, so it is part of the action that shows it.

In `WindowTabs` updates of state wait for a render, as React batches them: `coming`
is the state with the `queued` updates, which `Render` shows.  An updater function sees
the list of its time, but `neighborAfterClose` is called with the list of the last render.  In
`TerminalView` a chunk of output is a number, and the limit of what a hidden
terminal holds (512K, cut to 256K) is 2 chunks, cut to 1.  `TransferList` has one panel for
every open session: `EventsOff` takes the listeners of all of them away, and the
drop handler belongs to the window.  In `ReplayPanels` the Enter key starts a search while
one is under way, and the first answer turns the button on again.

Pointer calls of `VncPanel` are not awaited: the panel makes the `newest`, those before it
that are not carried out are `older`, and `CarryOut` takes any of them.  A turn of the
wheel is two calls, the first with mask 4, the right button, or 8, a button the model has as "wheel".
`server` is what each desktop was told last, which stays when the panel goes.

Variables such as `upset`, `crossed`, `overlapped`, `unsure`, `moved`,
`outdated`, `clashed`, `missed`, `overtaken`, `ghosts` and `batched` observe: they say that the user or
the answers did something for which the code does not keep the promise, and the
properties name these cases as exceptions.  Each is a disagreement of the panel
with what it shows that the code really has:

- two updates of the list of tabs in one render can leave no tab shown (`batched`);
- a tab whose `ssh-exit` came before the answer of Connect stays (`ghosts`);
- two chats at once mix their answers (`crossed`), two snippets their lines
  (`overlapped`);
- the answer to a save marks a text typed meanwhile as stored (`upset`);
- a list or directory read by two overlapping calls may show the older answer
  (`outdated`, `unsure`);
- a monitor shows tables of the session it was for before (`moved`);
- a log opened during a read shows the text of the other record (`doubtful`);
- a mouse button let go where the panel does not see it, or a pointer call carried out after a
  newer one, leaves a button pressed on the desktop (`missed`, `overtaken`);
- a threshold stored as 0 is shown as the default.

### The engines

`TaskEngine` keeps times as ages, the ticks that have passed since, so that time
needs no bound but the age above which ticks are not told apart.  `runTask`
writes `LastRun` in local time and `checkTasks` reads it as UTC: `zone` is the
difference.  The channel of the ticker holds one tick (`ticked`).  A batch is what
one call of `checkTasks` works through: the copies it read, the tasks of it that
are due, the time it took; `runTask` is `RunTask` (the command) and `Record` (the copy
is saved) with the user between them.  `raced` and `lastRun` observe which tasks the
user changed during their batch, and when a task ran last.

`AlertEngine` reads the configuration and the sessions once per round
(`CheckAlerts`) and samples one session after the other (`SampleUsage`); a sample
that fails counts as 0, as in the code.  The bucket of alerts holds the
configuration among the records, and `AddAlert` deletes the smallest keys above
the limit, whichever they are.  `excess` observes the alerts told less the
recoveries.

### Telnet, encodings and the log of commands

In `Encoding` a byte is one of four classes that UTF-8 and GBK read differently ("A" ASCII, "L"
and "T" first bytes of two and of three, "C" later bytes), and a character is its bytes,
tagged with the encoding they were read in, so that a character that is misread differs
from the right one.  Bytes that are valid in neither are data as `iac` is; those of
four-byte characters, and 80 and FF, are left out.  `Utf8Chars` and `GbkChars` read one character
after the other, and `GbkTail` is the loop of `splitGBKTail`.  What loops or recurs over
bytes or keys here, in `TelnetSession` and in `CommandLog` is a recursive function of a sequence, which
the proofs can unfold.

`TelnetSession` reads the stream of its peer in chunks of any size.  A step of the pump is a
read with `process` (`PumpRead`), an answer (`PumpAnswers` takes `s.mu`, `PumpWritten` is the
moment the peer takes the bytes), the decoding (`PumpDecodes`) or the send with the two
branches of its select (`PumpSend`, `PumpStop`).  `place` says where each caller
and the goroutine of `attachSession` are.  `Report` is what a peer reads in the message about the
window: the rows as the width, the columns as the height, or nothing it understands when a byte
of them is 255.  `LastReportIsOfSize` is about the order of the reports.  `Process` takes one byte or command (`Unit`) after the other,
and keeps a beginning.  `Written` and `Text` are the reference: `Run` reads
the whole stream byte by byte with the place it is at (`Step`), and `Text` decodes it in the encoding the peer
uses.  `TextIsWhole` is about the streams a peer sends that keeps to its encoding (`Readable`).
Excepted are two that the code misreads, depending on how they are split: a text in GBK that is valid UTF-8 up
to some byte, or ends like an unfinished character of it (`Misleading`), and an IAC that is
sent twice within a subnegotiation (`Escaped`).

In `CommandLog` an input is a few keys; `SshSend` finds session and log, `RecordInput` is
`recordInput` under its mutex, `Submit` the call of the session.  `odd` observes the
cases in which log and session disagree: two calls at once, input that was refused after it was
recorded, a panic, a log not open yet or closed already.

## 3. Runs

| Run | Bounds | States | Shows |
|---|---|---|---|
| `ssh_session` | 2 callers, 2 pumps, channel of 1, 1 chunk in flight per stream | 226k | type, four teardown properties, refinement of TermSession, two liveness properties |
| `ssh_close_stalled` (violation) | 2 callers, 1 pump | - | Close hangs when the peer stops answering |
| `app_sessions` | 1 id, 2 connections, 2 attempts, both protocols | 149k | watching, one watcher, exit once, nothing left, contract of connections, two liveness properties |
| `close_while_reconnecting` (violation) | SSH, 1 attempt | - | a session the user closed comes back |
| `tunnel_after_close` (violation) | SSH, 1 connection | - | a tunnel opened while SshClose runs listens on |
| `sync_server` | 2 applications, 1 account, 1 session to save, 4 or 3 requests, 1 handler given up, 1 lost in a crash | 835k | upload once per version, reads, conflicts, registration, revocation, refinement of VaultRegister |
| `revocation` (violation) | the same | - | a request undoes a revocation |
| `sync_overwrite` (violation) | the same | - | push replaces what another device uploaded |
| `transfer_engine` | 2 tasks and one name, file of 2 chunks (overwrite) or 1 chunk (skip, rename); or 3 tasks for 2 slots | 356k | slots, removal, last event, content of files, conflict policies, termination if the server answers |
| `transfer_overwrite` (violation) | the same | - | "overwrite" continues a shorter file |
| `front_end` | 26 parts, below | 509k | types, tabs, streams, what is joined from pieces, what is shown, texts of the editor, forms and lists; the contracts of the engine of tasks and of Telnet; a liveness property |
| `window_lost` (violation) | 1 session | - | a key typed during a reconnection replaces the window by the error page |

Why the bounds are enough.  In `SshSession` one place in the channel and one
chunk in flight let a pump block on its second chunk, two callers and the waiter
make three closers and a call in progress against them.  In `AppSessions` the
interactions are between the two connections of one id (old and new) and the
user's close; ids share nothing but `nextID`, so one id is enough; a second
reconnection meets the same states as the first with the old connection gone.
In `SyncServer` a conflict needs two uploads, a lost update the two version
fetches before them: four requests; revocation needs a login, a revoke and a
request between.  Each behaviour has one mix of requests (`use` in
`MCSyncServer`), because mixes multiply and the missing ones share no state
but the device status.  In `TransferEngine` two tasks meet at a name, three
compete for two slots; two chunks give a resumable prefix.

`front_end` chooses one part of the window, an engine, the Telnet session or the log of commands at the start (`which`) and runs it; the
others stay as they are, because they share no state but that of the back end,
of which each module has its part.  The bounds of a part are those of what meets
there: three sessions in "tabs" (one that ends, one that is closed, and a
neighbour; the third never reconnects), two in "dialogs"; four chunks for a backlog of two; two snippets of
two lines; two requests to the AI from two panels and a terminal; two calls at once in the editor,
the lists, the files and the settings (more wait in no other way, as a call
meets another by overtaking it); two directories and one change; two file panels, one transfer;
in "connect" one host, both options and one attempt, in "clicks" a second
attempt from the home view without Telnet; two machines, two ticks and two bytes; two
desktops and one frame on its way, and in "pointer" no frame, but one button, the wheel and two calls in flight;
two records of two frames, two searches at once, one bookmark; one entry in a list, created,
edited, deleted and created again; two releases; two actions with a key each;
two tasks with an interval of two ticks, a zone east and one west of UTC, two changes or restarts; two
sessions with one metric, of which one stops answering and the other ends, and a bucket
of two of three records and the configuration.
A Telnet peer sends one of five streams of four to seven bytes, with commands between and within
characters, split in every way; the window has one of three sizes, one with a byte 255; the channel holds one
message, and one call and two closers meet the pump.  Two callers type, three calls in all, with a buffer of two
keys, so that a call alone, or two together, exceed it.
An entry or a file meets only itself, so one of each is enough.

Deadlock is checked in `SshSession` (an idle caller may always call a method).  In the other
modules the bounded ids, requests and tasks run out and the system rests
(`CHECK_DEADLOCK FALSE`).

### Fairness

Goroutines that can go on do so: weak fairness on every step of the program,
for the whole goroutine where its steps exclude each other.  Steps of Close need a
mutex that others take again and again, and a queued transfer a slot: strong
fairness, as Go mutexes hand over to a starving waiter and channel senders queue.
In the window what goes on by itself is fair (`Turn` in `MCFrontEnd`): frames are
drawn, timers fire, events are delivered, calls are carried out and answered or
refused; of several calls it is enough that some one goes on, but each attempt to
connect comes to an end, because the dialler has a timeout.  Time passes, and an engine goes on with its batch or
round; that supposes that `SshSend` returns, which `ssh_close_stalled` shows is not sure
(a task to a peer that does not answer holds up all others).  A Telnet peer takes what is written
to it: otherwise Close waits for `s.mu` as it does in SSH.
The user, the peer and the network are under no obligation, with two more
exceptions that are named: `PeerResponds` in `SshSession` (a peer answers every
request, or the connection goes down), with which `EndIsCleanedUp` and `CloseCompletes`
are checked, and which the violation run drops; and `PeerAnswers` in `TransferEngine` (every request
to the SFTP server is answered or fails), with which `EveryTaskEnds` is checked.  The code does
not see to either: it sets no timeout on a read or write.

## 4. Findings

1. **Close hangs** (`session.go:461`).  Send, KeepAlive, Dial and ListenRemote
   hold `s.mu` over a network call, and Close takes `s.mu` before it closes the
   connection.  The comment of Exec (`session.go:412`) names the problem.
2. **A closed session comes back** (`app.go:366`).  The mark "do not reconnect" is
   read once before up to three attempts.
3. **A tunnel outlives its session** (`app.go:466`).  StartTunnel looks the session up, opens the
   listener and registers it, and SshClose in between finds nothing to stop, though its comment
   says that tunnels are stopped with the session (`app.go:428`).
4. **Revocation is undone** (`sync.go:68`), by a read and a write in two transactions.
5. **Push overwrites** (`app.go:1329`): it names the version it has just fetched,
   so the conflict check of the server never protects another device's data.
6. **"overwrite" appends** (`engine.go:273`): a shorter target is taken for an
   interrupted transfer, and the size check passes the mixture.
7. **The window is lost** (`main.tsx:22`).  `SshSend` and `SshResize` are called without
   a catch; while a session reconnects the back end refuses them
   (`session.go:435`), and the handler of unhandled rejections replaces the
   whole page, though `README.md:22` of the source says that tabs stay.

Seen while modelling, without a run:

- east of UTC a task waits the zone's offset longer than its interval, and west of it the
  task runs at every tick (`task.go:49`: `TasksKeepInterval` is stated with `zone`);
- what the user saves or deletes while a batch holds the task is undone by the record
  (`task.go:64`: `EditsStay` excepts `raced`);
- tasks keep session ids, which a restart gives to other sessions (`task.go:61`);
- a sample that cannot be taken is a recovery (`alert.go:77`), so a session that
  stops answering is told as "recovered";
- more than 4096 bytes without Enter (a large paste) make `recordInput` slice behind the end
  of its buffer (`history.go:151`): the call panics after it recorded the text, the input is
  not sent, and each later one fails the same way, until one has an Enter;
- a line that begins with an escape sequence is not recorded, though the comment speaks of "pure"
  control sequences (`history.go:148`): a command that was recalled with an arrow key and edited is missing;
- a command is recorded before it is sent, so the log has commands that a session refused;
- GBK text that begins like UTF-8 is misread or not, depending on how it is split (`enc.go:60`), and
  what may become a character of UTF-8 at its end is not shown until more comes (`enc.go:84`);
- IAC IAC SE within a subnegotiation, an escaped byte and data, ends it (`telnetcore/session.go:139`);
- the records of alerts are trimmed by their random keys, so the newest may be deleted, though
  the comment says the newest 200 stay (`store.go:461`), and in the end the
  configuration, which turns alerts off (`Untold` asks for `Config.on`);
- the end of a session erases the start data of its audit record: `finishAudit` saves an entry with
  the end alone and `SaveAudit` replaces the record (`app.go:295`, `store.go:316`);
- the tunnels of a session that ends by itself are not stopped: only SshClose looks for them (`app.go:428`, not
  `app.go:337`);
- an upload that is repeated because its answer was lost is refused, though `sync.go:6`, `sync.go:37` and
  `docs/05-云同步后端业务设计.md:47` and `:91` promise success: get version 0, put (given up), get version 0,
  put; the first handler commits and the second upload is answered 409.  SyncPush asks for the version before each upload, so
  it meets this only if both tries ask before the first commits;
- the version in a 409 is 0 if it could not be read (`sync.go:46`);
- a transfer to a server that falls silent keeps its slot for ever, and Cancel is only looked at between two chunks;
  three of them stop all transfers (`engine.go:177`);
- Telnet reports rows before columns, where RFC 1073 has the width first, and does not double a byte
  255 (`telnetcore/session.go:193`), so the peer never knows the size;
- a wheel turn upwards is a press of the right button on the desktop (`VncPanel.tsx:144`: 4 is right in
  `app.go:1544`, the comment wants the middle one), and its second call lets a held button go;
- pointer calls that overtake each other leave a button pressed, and so does a panel that goes while one is
  held: the desktop stays open.  A call for a desktop that ended is refused and nobody catches it
  (`VncPanel.tsx:119`), so a motion of the mouse replaces the window as in finding 7.

Of the sessions: a Telnet
connection replaced by a reconnection is never closed, and its consumer goroutine stays
(`app.go:368`); the end signal of Telnet may be lost (`telnetcore/session.go:95`); a
crash between CreateUser and AddDevice leaves an account that can neither log in
nor register (`main.go:147`).  The liveness properties of `AppSessions` are for
that reason stated for SSH where they speak of the consumer and of the user's close.

## 5. Proofs

`SshSession_proofs` proves, for every number of callers and pumps and every
capacity: `TypeCorrect`, `CloseRunsOnce`, `OutputClosedLast`, `CallsLeaveFirst`,
`SftpIsClosed`, and that `SshSession` implements `TermSession`
(`ImplementsTerm`).  The assumption is `SshAssumption`: the waiter is not a
caller, "no one" is not a caller, capacity and bound are positive.

The four safety properties are not inductive.  `IInv` adds
- `LocksHeld`: a goroutine in a network call owns the mutex that belongs to it, so two
  calls exclude each other and `CloseMark`, which needs `mu`, finds no one inside;
- `OnceInv`: a goroutine is in the body of Close only while `once = "running"`, `stop`
  is closed from the beginning of Close on and the output from its end on;
- `ClosedInv`: the flag `closed` is set in every state after `CloseMark`;
- `SignalInv`: the signal is posted only by the waiter, and after it waited.

`InitIInv` and `NextIInv` show that `IInv` is inductive, one step per action;
`SpecIInv` follows with temporal logic; each theorem takes its conjunct from
`IInv`.  `StepImplements` maps each action under `IInv` to a step of `TermSession` or a
stutter: the interesting ones are `Wait` (posts once, by `SignalInv`),
`CloseOutput` (closes once, after `stop`, by `OnceInv`) and `PumpSend` (sends on
an open channel, because a pump that has not returned means `open`).

`SyncServer_proofs` proves for any applications, accounts, sessions and number of
requests, with crashes and lost answers at any point: `SyncTypeCorrect`,
`OneUploadPerVersion`, `PullsAreUploads`, `ConflictsAreReal`, `AccountsAreUnique`,
`RevokedStays`, and that the service implements `VaultRegister` for each account
(`ImplementsRegister`).  `IInv` has three parts.  `Types` says what a request may be at
each place of its handler (`Asked`: it names a version its vault had; `Handlers`, `Calls`,
`Answers`).  `Vaults` adds `Versions` to the three properties of uploads: a version is never
larger than the number of requests sent, a vault holds the data of the upload that
made its version, and who is refused named a version the vault has left behind (it is told a later one, or 0).  `Accounts` says of a
registration between CreateUser and AddDevice that it has the account alone.  The
commit of an upload disturbs all of it and has a lemma of its own.
`SyncAssumption`: the bounds are numbers, and requests, emails and `None` differ.

`TransferEngine_proofs` proves `TransferTypeCorrect`, `SlotsMatchWork`, `FilesArrive`,
`ExistingFilesAreKept`, `RunningTasksStay` and `EndIsTheLastEvent` for any number of tasks,
slots, files and sizes.  `Control` says what a task may be at each place of `run`
(`Phases`, `AtFile`) and `DiskOK` what a file is; the slots are counted with the theorems about
cardinality.  The content needs three more parts: `Crossing` (two tasks at one file
know of each other), `Growing` (a file written by one task continues at its end,
and is a prefix of the source when what was kept is one) and `Free` (the other policies
start from a free path).  `FilesArrive` follows because at the check that prefix has the size of
the source.  `TransferAssumption`: jobs name files that exist, there is a slot.

`AppSessions_proofs` proves, for any number of ids, connections and attempts:
`AppTypeCorrect`, `SessionsAreWatched`, `OneWatcherEach`, `ExitIsTheEnd`,
`SessionsLeaveNothing` and `ConnsImplementTerm`.  The parts of `IInv` that are
no property by themselves: `Made` and `Fresh` (what is not numbered or attached yet has
nothing), `Chain` (a connection that no one watches is the next one of a watcher, and
that watcher will hand over to it), `Exits` (after ssh-exit every connection of the session
is past its watcher) and `Histories` (the watcher knows whether the history file may be open).
`StepKinds` sorts the steps by what they may change, so that each part has one
lemma for each kind.  `ConnsImplementTerm` maps `PostSignal`, the request to close and the end of
Close to the steps of `TermSession`; all others stutter.  `AppAssumption`: the bounds are
numbers and an attempt is made.

The next four modules are about `front_end`.  Each part is a group of variables and an instance
(`Timer`, `Window`, `Files`, ...) with an inductive invariant named after it, and theorems
of the form "the steps of the part keep it".  `FrontEndBounds` names what
they suppose of the parameters, for example that the interval of a task fits in
the bound of ages in every zone, or that a panel is not a terminal.

`Engines_proofs`, for any tasks, zones, sessions, metrics, streams and callers:
- `TaskTypeCorrect`, `TaskEditsAreKept`, `TasksAreInTime`.  `TaskIInv` adds `TaskAgesAgree`
  (without a save of the user the time in the store is that of the last run, and while a task is in
  hand the last run is as old as the batch) and `TaskCopiesAgree` (the copies of the
  batch are what the user wants).  `TasksAreInTime` then follows because only
  `CheckTasks` puts a task in a batch, and what it reads is the age of the last run.
- `AlertsTakeTurns`: the map `firing` is what was told last, which every
  round, change of the configuration and failed sample keeps.  `AlertTypeCorrect` has the limit of the
  bucket: it holds one key more than the limit when `AddAlert` trims it, and the keys that
  stay are those above the smallest (`Smallest`, `AlertTrimmed`).
- `TelnetImplementsTerm`, `TelnetLastReport`, `TelnetTypeCorrect`.  `TelnetIInv` adds `TelnetLockHeld` (who writes
  owns `s.mu`), `TelnetOneClose` (one goroutine is in the body of Close, after `stop` and before the
  output is closed), `TelnetPumpOwns` (the output is open while the pump runs, which posts the signal as
  it ends) and `TelnetTold` (a size of which no report was sent is about to be reported by the owner of the mutex).
  `PumpSend`, `PumpEnds`, `CloseBegin`, `CloseOutput` and `Consume` map to the steps of the
  contract, and all others stutter.
- `TelnetTextIsWhole`: for any stream, cut into reads in any way.  See below.
- `CommandTypeCorrect`: types and the number of calls of the log of commands.  `CommandLogIsWhole` and
  `CommandLineIsOpen`: what the log and its buffer have, for any input in any pieces.

The last three are about functions that are recursive over bytes or keys.  The library's induction takes an
operator as a parameter, which the provers cannot instantiate, so the module begins with its own: `LengthInduction` and
`AppendInduction` (a *set* of sequences that is closed under one more step is all of them, from the
least length of one outside) and `SeqRecursion` (a function with given steps on shorter sequences exists, as
the union of those on bounded lengths).  From it follows that each recursive function is what its definition says
(`Utf8Reads`, `GbkReads`, `TailReads`, `RunReads`, `ProcessReads`, `TypedReads`, `RecordedReads`).
`Cat`, `Upto` and `From` are `\o` and `SubSeq` as operators that stay closed, so that
a leaf has lemmas about them (`CatSeq`, `SplitSeq`, `SplitCat`) and not the theory of sequences.  The argument has four layers:
- decoding: a text cut between two characters decodes to the two texts (`ReadingOn`, `ValidOn`, `GbkOn`),
  the longest valid prefix and `splitGBKTail` find such a cut (`HoldTail`, `GbkCut`), and a converter that took
  the whole characters of a text keeps the beginning of one (`Converts`); `DecodeConverts` is one chunk;
- commands: a stream run from the place where another ended goes on as it (`RunOn`), a unit leaves the
  place "data" and its data (`UnitRuns`), and so `process` of what was kept and
  the next chunk gives the text of that chunk, and what it keeps stands for where the stream is (`ProcessRuns`, `ChunkRuns`, `GoesOn`);
- the session: `TelnetFollows` says that what was received, queued and is in hand is the text of what
  was read, without the bytes the converter keeps and those of the chunk still to decode (`Receives`).  `PumpRead` and `PumpDecodes`
  keep it by the two lemmas above, `PumpSend` and `Consume` by those about the queue (`FlattenFacts`, `FlattenTail`).
  At the end of the stream, with nothing in hand, nothing is kept, because the text is whole (`HoldsEnd`);
- commands of a user: `Typed` of two inputs is that of the first, and of its open line with the second
  (`TypedOn`), and `recordInput` gives the same lines from its buffer (`RecordedTyped`).  `CommandIInv` says, unless `odd`:
  the log has what was submitted, or is about to be by the *one* caller that has recorded its input.

`StreamsAssumption` and `CommandsAssumption`: bytes and keys are strings, an encoding is one of those the
code has, the limit of the buffer is a number.

`Views_proofs`, for any sessions, chunks, requests, files, desktops and records:
- `WindowIInv` says where a session is by what has become of it (`WindowPlaces`: in the
  answer of Connect or in a tab until its exit, in neither once the user closed it), that no list
  holds it twice (`WindowLists`), and that one update leaves a tab active (`WindowActive`).
- `TermIInv`: what was written, what waits and what was cut off are what was heard, in this order;
  the lines of a snippet that runs alone are the last ones sent.
- `AiIInv`: the events on their way are the rest of the answers, in order (`AiQueue`, `AiAnswers`),
  a view shows a request it made (`AiOwn`), and a terminal has one at a time (`AiAlone`).
- `EditorIInv`: without an upset there is one call at most (`EditorOneCall`), its text is the one on display,
  and once it is carried out that text is in the file it names (`EditorCallKnows`).  `Execute` gives the text to
  the file, `Answer` clears the mark.
- `MonIInv`, `VncIInv`, `ReplayIInv`: answers on their way are of the session, desktop or record
  that is shown, unless the user went on to another.  `VncTold`: the newest pointer call, or what the desktop was
  told if there is none, presses no button that is not held, unless an older call was carried out last; it
  needs `VncCalls`, that nobody points at a desktop before it is shown (`VncFresh`).

`Forms_proofs`, for any directories, uploads, servers, entries and bounds:
- `FilesIInv`: what is shown and what a listing read is as the directory is, unless a change that
  will list it again is under way (`FilesRead`, `FilesFresh`).
- `TransfersIInv`: a transfer that is shown as running runs, or its end is among the events to come, after
  which a timer takes it away.
- `ConnectIInv`: what an attempt saves has connected, and the key it accepts is the one the user
  confirmed (`ConnectKept`); the form is what it was filled from (`ConnectFilling`).
- `ListsIInv`: what is shown is stored or will be read again (`ListsSettles`); a form is open for an
  entry that is stored, and a save begun in peace finds its entry, so that it revives nothing.
- `SettingsIInv`: a call made in peace is the only one of its form (`SettingsPeaceful`), the busy flag is that
  of the one call that runs (`SettingsBusy`), and what is downloaded is what is offered (`SettingsAbout`).
- `KeyboardIInv`: there is one table on the page, which has the keys the window obeys, and one key recorded at a time.

`MCFrontEnd_proofs` proves the safety invariants of `front_end` and its contracts from these:
`FrontEndTypeCorrect`, `StreamsStayWhole`, `TabsAreSessions`, `ShownStaysNamed`, `CleanTextsAreStored`,
`FormsStayStored`, `PiecesStayJoined`, `ContractsStayKept`.  For each part a lemma (`WindowSteps`, ...) says that a step of the
whole is a step of the part or leaves it as it is, because a step is one of the part that runs
(`StepsMove`), and with it the whole implements the part (`WindowRuns`, ...), whose theorems then hold of it.

Only model-checked: liveness and what rests on ENABLED, which the prover cannot treat: `EndIsCleanedUp` and
`CloseCompletes` of `SshSession`, `EndIsHandled` and `UserCloseIsCleanedUp` of `AppSessions`,
`EveryTaskEnds` of `TransferEngine`, `BusyEnds` of `MCFrontEnd`.  Every other property of the passing runs is a theorem.

## 6. Not modelled

Dialling, authentication and proxies (sequential I/O with an error at each
step); `Exec`, file operations on the SFTP client, localfs, vault encryption (no
state of their own); parsing of `/proc` text.  Data of terminals, the content of vaults beyond
a set of sessions, times other than their order.
`SyncListDevices`/`handleDevices` only read (and touch the device, as a pull does).

Of the alerts: notifications, the webhook, `TestAlert` and a restart, which
forgets `firing`.  Engines without a model: the cleanup and the search of the history, the monthly count of the AI, the RFB protocol, the
known_hosts file.  Hazards of these parts, without a property: a connection that fails after its
jump host was dialled leaks it (`sshcore/session.go:238`), and the monthly limit of the AI is
checked and counted in two steps.

Of the window: themes, fonts, backgrounds and layout; drawing of curves and
highlighting; search, selection and clipboard in the terminal; `changeModel` and
`refreshStatus` of the AI panel; the list of alerts and its test button, the
list of devices; RDP and the launch of VNC from the form; keys of the VNC panel;
exports.  `SettingsPanel.tsx` repeats forms of `SettingsPage.tsx` and is never
shown, because nothing sets `showSettings`.  `wailsjs/` is generated.

## 7. What is left

The connection set-up: dialling through proxies and jump hosts, `known_hosts`.
