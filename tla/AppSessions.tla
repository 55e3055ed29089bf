---------------------------- MODULE AppSessions ----------------------------
(***************************************************************************)
(* The session table of the application, app.go: Connect, the goroutines    *)
(* attachSession starts for every connection, automatic reconnection,       *)
(* SshClose, tunnels, the history file and the audit record of a session,   *)
(* and the tab the front end keeps for it (App.tsx).                        *)
(*                                                                          *)
(* A session id outlives its connection: tryReconnect installs a new        *)
(* connection under the same id.  A connection is what TermSession says,    *)
(* plus how each protocol ends one: an SSH session posts its end signal and *)
(* closes itself; a Telnet session posts it and waits to be closed, and the *)
(* signal may get lost when Close overtakes the pump.                       *)
(***************************************************************************)
EXTENDS Naturals, FiniteSets

CONSTANTS
    MaxIds,                 \* bound: calls of Connect that succeed
    MaxConns,               \* bound: connections made, reconnections included
    MaxAttempts,            \* attempts of tryReconnect (3 in the code)
    Protocols               \* subset of {"ssh", "telnet"}

ASSUME AppAssumption == /\ MaxIds \in Nat /\ MaxConns \in Nat
                        /\ MaxAttempts \in Nat \ {0}
                        /\ Protocols \subseteq {"ssh", "telnet"}

Ids == 1..MaxIds
Conns == 1..MaxConns
None == 0                   \* no connection

VARIABLES
    \* connections
    made,                   \* connections made so far; they are numbered
    owner, proto,           \* session id and protocol of each
    life,                   \* "unused", "live", or how it ended: "clean", "error"
    signal,                 \* on Done(): "none", "clean", "error", or "lost" for ever
    close,                  \* Close(): "no", "asked", "closed" (output closed too)
    \* the App structure, guarded by a.mu (tunnels: a.tunnelMu)
    nextID, sessions, connConfigs, manualClose, history, auditIDs,
    tunnels,                \* "none", "opening", "running", "stopped"; one for each id
    \* stores outside the process
    file,                   \* the history file: "none", "open", "closed"
    audit,                  \* the audit record: has it start data, has it end data
    \* goroutines
    connect,                \* Connect of each id
    watcher, attempt, next, \* Done goroutine of a connection, its attempt, the new connection
    hf,                     \* the history file was there when attachSession looked
    consumer,               \* Output goroutine of a connection
    closer, target,         \* SshClose of each id, and the session it took
    \* front end
    exits, exitMsg, tab     \* ssh-exit events emitted, in flight; the tab

connVars  == <<made, owner, proto, life, signal, close>>
mapVars   == <<nextID, sessions, connConfigs, manualClose, history, auditIDs>>
storeVars == <<file, audit>>
goVars    == <<attempt, next, hf, consumer>>
closeVars == <<closer, target>>
uiVars    == <<exits, exitMsg, tab>>
others    == <<connect, tunnels, closeVars, uiVars>>
appVars   == <<mapVars, storeVars, watcher, goVars, others>>
vars == <<connVars, appVars>>

NoAudit == [start |-> FALSE, end |-> FALSE]

TypeOK ==
    /\ made \in 0..MaxConns
    /\ owner \in [Conns -> Ids \cup {None}] /\ proto \in [Conns -> {"none", "ssh", "telnet"}]
    /\ life \in [Conns -> {"unused", "live", "clean", "error"}]
    /\ signal \in [Conns -> {"none", "clean", "error", "lost"}]
    /\ close \in [Conns -> {"no", "asked", "closed"}]
    /\ nextID \in 0..MaxIds /\ sessions \in [Ids -> Conns \cup {None}]
    /\ connConfigs \subseteq Ids /\ manualClose \subseteq Ids
    /\ history \subseteq Ids /\ auditIDs \subseteq Ids
    /\ tunnels \in [Ids -> {"none", "opening", "running", "stopped"}]
    /\ file \in [Ids -> {"none", "open", "closed"}]
    /\ audit \in [Ids -> [start : BOOLEAN, end : BOOLEAN]]
    /\ connect \in [Ids -> {"none", "history", "audit", "auditID", "attach", "returned", "shown"}]
    /\ watcher \in [Conns -> {"none", "wait", "check", "retry", "install", "attach", "exit",
                              "closing", "audit", "save", "cleanup", "gone"}]
    /\ attempt \in [Conns -> 0..MaxAttempts]
    /\ next \in [Conns -> Conns \cup {None}]
    /\ hf \in [Conns -> BOOLEAN]
    /\ consumer \in [Conns -> {"none", "range", "exit"}]
    /\ closer \in [Ids -> {"idle", "tunnels", "close", "closing", "done"}]
    /\ target \in [Ids -> Conns \cup {None}]
    /\ exits \in [Ids -> 0..MaxConns] /\ exitMsg \subseteq Ids
    /\ tab \in [Ids -> {"none", "open", "gone"}]

Init ==
    /\ made = 0
    /\ owner = [k \in Conns |-> None] /\ proto = [k \in Conns |-> "none"]
    /\ life = [k \in Conns |-> "unused"] /\ signal = [k \in Conns |-> "none"]
    /\ close = [k \in Conns |-> "no"]
    /\ nextID = 0 /\ sessions = [i \in Ids |-> None]
    /\ connConfigs = {} /\ manualClose = {} /\ history = {} /\ auditIDs = {}
    /\ tunnels = [i \in Ids |-> "none"]
    /\ file = [i \in Ids |-> "none"] /\ audit = [i \in Ids |-> NoAudit]
    /\ connect = [i \in Ids |-> "none"]
    /\ watcher = [k \in Conns |-> "none"] /\ attempt = [k \in Conns |-> 0]
    /\ next = [k \in Conns |-> None] /\ hf = [k \in Conns |-> FALSE]
    /\ consumer = [k \in Conns |-> "none"]
    /\ closer = [i \in Ids |-> "idle"] /\ target = [i \in Ids |-> None]
    /\ exits = [i \in Ids |-> 0] /\ exitMsg = {} /\ tab = [i \in Ids |-> "none"]

-----------------------------------------------------------------------------
(* Connections (SshSession has the detail of one) *)

\* A dial that succeeds: the next connection, live, for session id i.
Dialled(i, p) ==
    /\ made < MaxConns
    /\ made' = made + 1
    /\ owner' = [owner EXCEPT ![made + 1] = i]
    /\ proto' = [proto EXCEPT ![made + 1] = p]
    /\ life' = [life EXCEPT ![made + 1] = "live"]
    /\ UNCHANGED <<signal, close>>

\* The peer ends it: only an SSH shell that exits with status 0 is a clean end,
\* for Telnet even a regular logout is an error (io.EOF).
RemoteEnds(k, how) ==
    /\ life[k] = "live"
    /\ how = "clean" => proto[k] = "ssh"
    /\ life' = [life EXCEPT ![k] = how]
    /\ UNCHANGED <<made, owner, proto, signal, close, appVars>>

PostSignal(k) ==
    /\ life[k] \in {"clean", "error"} /\ signal[k] = "none"
    /\ signal' = [signal EXCEPT ![k] = life[k]]
    /\ UNCHANGED <<made, owner, proto, life, close, appVars>>

\* The goroutine of an SSH session that posted the signal then closes it.
SelfClose(k) ==
    /\ proto[k] = "ssh" /\ signal[k] # "none" /\ close[k] = "no"
    /\ close' = [close EXCEPT ![k] = "asked"]
    /\ UNCHANGED <<made, owner, proto, life, signal, appVars>>

\* Close tears down a connection that is still live.
Teardown(k) ==
    /\ close[k] = "asked" /\ life[k] = "live"
    /\ life' = [life EXCEPT ![k] = "error"]
    /\ UNCHANGED <<made, owner, proto, signal, close, appVars>>

\* A Telnet pump that was sending when the session stopped returns without a
\* word on Done().
SignalLost(k) ==
    /\ proto[k] = "telnet" /\ close[k] = "asked" /\ signal[k] = "none"
    /\ signal' = [signal EXCEPT ![k] = "lost"]
    /\ UNCHANGED <<made, owner, proto, life, close, appVars>>

\* Mutant: a connection that ended counts as closed without Close.
CloseDoneUnasked(k) ==
    /\ close[k] # "closed" /\ life[k] \in {"clean", "error"}
    /\ close' = [close EXCEPT ![k] = "closed"]
    /\ UNCHANGED <<made, owner, proto, life, signal, appVars>>

\* Close has waited for the pumps and closed the output channel.
CloseDone(k) ==
    /\ close[k] = "asked" /\ life[k] # "live"
    /\ proto[k] = "telnet" => signal[k] # "none"
    /\ close' = [close EXCEPT ![k] = "closed"]
    /\ UNCHANGED <<made, owner, proto, life, signal, appVars>>

\* A call of sess.Close(): idempotent.
AskClose(k) == close' = [close EXCEPT ![k] = IF @ = "no" THEN "asked" ELSE @]

-----------------------------------------------------------------------------
(* Connect *)

Connect(p) ==
    /\ nextID < MaxIds
    /\ LET i == nextID + 1
           k == made + 1
       IN  /\ Dialled(i, p)
           /\ nextID' = i
           /\ sessions' = [sessions EXCEPT ![i] = k]
           /\ connConfigs' = connConfigs \cup {i}
           /\ connect' = [connect EXCEPT ![i] = "history"]
    /\ UNCHANGED <<manualClose, history, auditIDs, tunnels, storeVars, watcher, goVars, closeVars, uiVars>>

\* openHistory, which may fail, and the entry in a.history.
OpenHistory(i) ==
    /\ connect[i] = "history"
    /\ connect' = [connect EXCEPT ![i] = "audit"]
    /\ \/ file' = [file EXCEPT ![i] = "open"] /\ history' = history \cup {i}
       \/ UNCHANGED <<file, history>>
    /\ UNCHANGED <<connVars, nextID, sessions, connConfigs, manualClose, auditIDs, tunnels, audit,
                   watcher, goVars, closeVars, uiVars>>

\* startAudit: the record is written first; if that fails the id is not kept.
StartAudit(i) ==
    /\ connect[i] = "audit"
    /\ \/ /\ audit' = [audit EXCEPT ![i] = [start |-> TRUE, end |-> FALSE]]
          /\ connect' = [connect EXCEPT ![i] = "auditID"]
       \/ UNCHANGED audit /\ connect' = [connect EXCEPT ![i] = "attach"]
    /\ UNCHANGED <<connVars, mapVars, tunnels, file, watcher, goVars, closeVars, uiVars>>

KeepAuditID(i) ==
    /\ connect[i] = "auditID"
    /\ auditIDs' = auditIDs \cup {i}
    /\ connect' = [connect EXCEPT ![i] = "attach"]
    /\ UNCHANGED <<connVars, nextID, sessions, connConfigs, manualClose, history, tunnels, storeVars,
                   watcher, goVars, closeVars, uiVars>>

\* attachSession looks the history file up and starts the two goroutines.
Attached(i, k) ==
    /\ hf' = [hf EXCEPT ![k] = i \in history]
    /\ consumer' = [consumer EXCEPT ![k] = "range"]

AttachFirst(i) ==
    /\ connect[i] = "attach"
    /\ \E k \in Conns :
         /\ owner[k] = i
         /\ Attached(i, k)
         /\ watcher' = [watcher EXCEPT ![k] = "wait"]
    /\ connect' = [connect EXCEPT ![i] = "returned"]
    /\ UNCHANGED <<connVars, mapVars, tunnels, storeVars, attempt, next, closeVars, uiVars>>

-----------------------------------------------------------------------------
(* The Done goroutine of connection k *)

\* A goroutine on its own: everything but the variables a step names.
AtWatcher(k, from, to) ==
    /\ watcher[k] = from
    /\ watcher' = [watcher EXCEPT ![k] = to]

TakeSignal(k) ==
    /\ signal[k] \in {"clean", "error"}
    /\ AtWatcher(k, "wait", IF signal[k] = "error" THEN "check" ELSE "exit")
    /\ UNCHANGED <<connVars, mapVars, storeVars, goVars, others>>

\* isManualClose decides once, before the first attempt.
CheckManual(k) ==
    /\ AtWatcher(k, "check", IF owner[k] \in manualClose THEN "exit" ELSE "retry")
    /\ UNCHANGED <<connVars, mapVars, storeVars, goVars, others>>

\* Mutant: tryReconnect does not count its attempts.
RetryFailsForever(k) ==
    /\ attempt' = [attempt EXCEPT ![k] = @ + 1]
    /\ AtWatcher(k, "retry", "retry")
    /\ UNCHANGED <<connVars, mapVars, storeVars, next, hf, consumer, others>>

\* tryReconnect: the back-off and one attempt, which fails or makes a connection.
RetryFails(k) ==
    /\ attempt' = [attempt EXCEPT ![k] = @ + 1]
    /\ AtWatcher(k, "retry", IF attempt[k] + 1 = MaxAttempts THEN "exit" ELSE "retry")
    /\ UNCHANGED <<connVars, mapVars, storeVars, next, hf, consumer, others>>

\* Mutant: the connection is made and tryReconnect returns false.
RetryConnectsDropped(k) ==
    /\ AtWatcher(k, "retry", "exit")
    /\ Dialled(owner[k], proto[k])
    /\ next' = [next EXCEPT ![k] = made + 1]
    /\ UNCHANGED <<mapVars, storeVars, attempt, hf, consumer, others>>

RetryConnects(k) ==
    /\ AtWatcher(k, "retry", "install")
    /\ Dialled(owner[k], proto[k])
    /\ next' = [next EXCEPT ![k] = made + 1]
    /\ UNCHANGED <<mapVars, storeVars, attempt, hf, consumer, others>>

Install(k) ==
    /\ AtWatcher(k, "install", "attach")
    /\ sessions' = [sessions EXCEPT ![owner[k]] = next[k]]
    /\ UNCHANGED <<connVars, nextID, connConfigs, manualClose, history, auditIDs, storeVars, goVars, others>>

\* Mutant: reconnection does not attach the new connection.
AttachNextForgotten(k) ==
    /\ watcher[k] = "attach"
    /\ watcher' = [watcher EXCEPT ![k] = "gone"]
    /\ UNCHANGED <<connVars, mapVars, storeVars, goVars, others>>

\* Mutant: the goroutine goes on to clean up after a successful reconnection.
AttachNextContinues(k) ==
    /\ watcher[k] = "attach"
    /\ Attached(owner[k], next[k])
    /\ watcher' = [watcher EXCEPT ![k] = "exit", ![next[k]] = "wait"]
    /\ UNCHANGED <<connVars, mapVars, storeVars, attempt, next, others>>

\* The new connection gets its own goroutines and this one ends: it does not
\* close the connection it replaces.
AttachNext(k) ==
    /\ watcher[k] = "attach"
    /\ Attached(owner[k], next[k])
    /\ watcher' = [watcher EXCEPT ![k] = "gone", ![next[k]] = "wait"]
    /\ UNCHANGED <<connVars, mapVars, storeVars, attempt, next, others>>

\* Mutant: the session is left to close itself.
EmitExitOnly(k) ==
    /\ AtWatcher(k, "exit", "closing")
    /\ exits' = [exits EXCEPT ![owner[k]] = @ + 1]
    /\ exitMsg' = exitMsg \cup {owner[k]}
    /\ UNCHANGED <<connVars, mapVars, tunnels, storeVars, connect, goVars,
                   closeVars, tab>>

\* No reconnection: ssh-exit is emitted and the session closed.
EmitExit(k) ==
    /\ AtWatcher(k, "exit", "closing")
    /\ exits' = [exits EXCEPT ![owner[k]] = @ + 1]
    /\ exitMsg' = exitMsg \cup {owner[k]}
    /\ AskClose(k)
    /\ UNCHANGED <<made, owner, proto, life, signal, mapVars, tunnels, storeVars, connect, goVars, closeVars, tab>>

ExitClosed(k) ==
    /\ close[k] = "closed"
    /\ AtWatcher(k, "closing", "audit")
    /\ UNCHANGED <<connVars, mapVars, storeVars, goVars, others>>

\* finishAudit: take the id out of the maps under a.mu ...
TakeAuditID(k) ==
    /\ AtWatcher(k, "audit", IF owner[k] \in auditIDs THEN "save" ELSE "cleanup")
    /\ auditIDs' = auditIDs \ {owner[k]}
    /\ UNCHANGED <<connVars, nextID, sessions, connConfigs, manualClose, history, storeVars, goVars, others>>

\* ... and write an entry that has only the end data: SaveAudit overwrites the
\* record with that id.  An error of the store is ignored.
SaveAuditEnd(k) ==
    /\ AtWatcher(k, "save", "cleanup")
    /\ \/ audit' = [audit EXCEPT ![owner[k]] = [start |-> FALSE, end |-> TRUE]]
       \/ UNCHANGED audit
    /\ UNCHANGED <<connVars, mapVars, tunnels, file, goVars, others>>

\* Mutant: the history file is left to SshClose.
CleanupWithoutHistory(k) ==
    /\ AtWatcher(k, "cleanup", "gone")
    /\ sessions' = [sessions EXCEPT ![owner[k]] = None]
    /\ connConfigs' = connConfigs \ {owner[k]}
    /\ manualClose' = manualClose \ {owner[k]}
    /\ auditIDs' = auditIDs \ {owner[k]}
    /\ UNCHANGED <<connVars, nextID, history, storeVars, goVars, others>>

Cleanup(k) ==
    /\ AtWatcher(k, "cleanup", "gone")
    /\ LET i == owner[k]
       IN  /\ sessions' = [sessions EXCEPT ![i] = None]
           /\ connConfigs' = connConfigs \ {i}
           /\ manualClose' = manualClose \ {i}
           /\ auditIDs' = auditIDs \ {i}
           /\ IF hf[k] THEN /\ file' = [file EXCEPT ![i] = "closed"]
                            /\ history' = history \ {i}
              ELSE UNCHANGED <<file, history>>
    /\ UNCHANGED <<connVars, nextID, tunnels, audit, goVars, others>>

\* The Output goroutine ends when the channel is closed.
ConsumerEnds(k) ==
    /\ consumer[k] = "range" /\ close[k] = "closed"
    /\ consumer' = [consumer EXCEPT ![k] = "exit"]
    /\ UNCHANGED <<connVars, mapVars, tunnels, storeVars, connect, watcher, attempt, next, hf,
                   closeVars, uiVars>>

-----------------------------------------------------------------------------
(* The front end, SshClose and tunnels *)

OnConnected(i) ==
    /\ connect[i] = "returned"
    /\ connect' = [connect EXCEPT ![i] = "shown"]
    /\ tab' = [tab EXCEPT ![i] = "open"]
    /\ UNCHANGED <<connVars, mapVars, tunnels, storeVars, watcher, goVars, closeVars, exits, exitMsg>>

\* ssh-exit removes the tab, if there is one yet.
OnExit(i) ==
    /\ i \in exitMsg
    /\ exitMsg' = exitMsg \ {i}
    /\ tab' = [tab EXCEPT ![i] = IF @ = "open" THEN "gone" ELSE @]
    /\ UNCHANGED <<connVars, mapVars, tunnels, storeVars, connect, watcher, goVars, closeVars, exits>>

\* Mutant: SshClose leaves no mark against reconnection.
SshCloseUnmarked(i) ==
    /\ tab[i] = "open"
    /\ tab' = [tab EXCEPT ![i] = "gone"]
    /\ target' = [target EXCEPT ![i] = sessions[i]]
    /\ sessions' = [sessions EXCEPT ![i] = None]
    /\ file' = [file EXCEPT ![i] = IF i \in history THEN "closed" ELSE @]
    /\ history' = history \ {i}
    /\ closer' = [closer EXCEPT ![i] = "tunnels"]
    /\ UNCHANGED <<connVars, nextID, connConfigs, manualClose, auditIDs, tunnels, audit, connect,
                   watcher, goVars, exits, exitMsg>>

\* closeSession removes the tab and calls SshClose, whose first part runs
\* under a.mu.
SshClose(i) ==
    /\ tab[i] = "open"
    /\ tab' = [tab EXCEPT ![i] = "gone"]
    /\ target' = [target EXCEPT ![i] = sessions[i]]
    /\ sessions' = [sessions EXCEPT ![i] = None]
    /\ file' = [file EXCEPT ![i] = IF i \in history THEN "closed" ELSE @]
    /\ history' = history \ {i}
    /\ manualClose' = manualClose \cup {i}
    /\ closer' = [closer EXCEPT ![i] = "tunnels"]
    /\ UNCHANGED <<connVars, nextID, connConfigs, auditIDs, tunnels, audit, connect, watcher, goVars,
                   exits, exitMsg>>



\* The second part, under a.tunnelMu, stops the tunnels of the session.
CloseTunnels(i) ==
    /\ closer[i] = "tunnels"
    /\ closer' = [closer EXCEPT ![i] = "close"]
    /\ tunnels' = [tunnels EXCEPT ![i] = IF @ = "running" THEN "stopped" ELSE @]
    /\ UNCHANGED <<connVars, mapVars, storeVars, connect, watcher, goVars, target, uiVars>>

\* The third closes the session that was registered, if there was one.
CloseSession(i) ==
    /\ closer[i] = "close"
    /\ closer' = [closer EXCEPT ![i] = IF target[i] = None THEN "done" ELSE "closing"]
    /\ IF target[i] = None THEN UNCHANGED close ELSE AskClose(target[i])
    /\ UNCHANGED <<made, owner, proto, life, signal, mapVars, tunnels, storeVars, connect,
                   watcher, goVars, target, uiVars>>

CloseReturns(i) ==
    /\ closer[i] = "closing" /\ close[target[i]] = "closed"
    /\ closer' = [closer EXCEPT ![i] = "done"]
    /\ UNCHANGED <<connVars, mapVars, tunnels, storeVars, connect, watcher, goVars, target, uiVars>>

\* StartTunnel: the session is looked up under a.mu and the listener opened ...
OpenTunnel(i) ==
    /\ tab[i] = "open" /\ tunnels[i] \in {"none", "stopped"}
    /\ sessions[i] # None /\ proto[sessions[i]] = "ssh"
    /\ tunnels' = [tunnels EXCEPT ![i] = "opening"]
    /\ UNCHANGED <<connVars, mapVars, storeVars, connect, watcher, goVars, closeVars, uiVars>>

\* ... which may fail (the port is taken, the server refuses to forward) ...
OpenTunnelFails(i) ==
    /\ tunnels[i] = "opening"
    /\ tunnels' = [tunnels EXCEPT ![i] = "none"]
    /\ UNCHANGED <<connVars, mapVars, storeVars, connect, watcher, goVars, closeVars, uiVars>>

\* ... and registered under a.tunnelMu, whatever became of the session.
RegisterTunnel(i) ==
    /\ tunnels[i] = "opening"
    /\ tunnels' = [tunnels EXCEPT ![i] = "running"]
    /\ UNCHANGED <<connVars, mapVars, storeVars, connect, watcher, goVars, closeVars, uiVars>>

StopTunnel(i) ==
    /\ tunnels[i] = "running"
    /\ tunnels' = [tunnels EXCEPT ![i] = "stopped"]
    /\ UNCHANGED <<connVars, mapVars, storeVars, connect, watcher, goVars, closeVars, uiVars>>

-----------------------------------------------------------------------------
Session(k) == \/ PostSignal(k) \/ SelfClose(k) \/ Teardown(k) \/ SignalLost(k)
              \/ CloseDone(k)

Connecting(i) == OpenHistory(i) \/ StartAudit(i) \/ KeepAuditID(i) \/ AttachFirst(i)

Retry(k) == RetryFails(k) \/ RetryConnects(k)

Watch(k) == \/ TakeSignal(k) \/ CheckManual(k) \/ Retry(k) \/ Install(k) \/ AttachNext(k)
            \/ EmitExit(k) \/ ExitClosed(k) \/ TakeAuditID(k) \/ SaveAuditEnd(k) \/ Cleanup(k)

Closing(i) == CloseTunnels(i) \/ CloseSession(i) \/ CloseReturns(i)

Next == \/ \E p \in Protocols : Connect(p)
        \/ \E k \in Conns : \/ \E how \in {"clean", "error"} : RemoteEnds(k, how)
                            \/ Session(k) \/ Watch(k) \/ ConsumerEnds(k)
        \/ \E i \in Ids : \/ Connecting(i) \/ OnConnected(i) \/ OnExit(i)
                          \/ SshClose(i) \/ Closing(i)
                          \/ OpenTunnel(i) \/ OpenTunnelFails(i) \/ RegisterTunnel(i)
                          \/ StopTunnel(i)

Spec == Init /\ [][Next]_vars

\* Every goroutine that can go on does, the session's own included; the peer
\* and the user are under no obligation.
Fairness == /\ \A k \in Conns : /\ WF_vars(Session(k)) /\ WF_vars(Watch(k))
                                /\ WF_vars(ConsumerEnds(k))
            /\ \A i \in Ids : /\ WF_vars(Connecting(i)) /\ WF_vars(Closing(i))
                              /\ WF_vars(OnConnected(i)) /\ WF_vars(OnExit(i))
                              /\ WF_vars(OpenTunnelFails(i) \/ RegisterTunnel(i))

LiveSpec == Spec /\ Fairness

-----------------------------------------------------------------------------
(* Properties *)

\* Every registered session has a goroutine that waits for its end, or one is
\* about to be started: a dead session cannot stay in the table unnoticed.
SessionIsWatched ==
    \A i \in Ids : sessions[i] # None =>
        LET k == sessions[i]
        IN  /\ owner[k] = i /\ watcher[k] # "gone"
            /\ watcher[k] = "none" =>
                 \/ connect[i] \notin {"returned", "shown"}
                 \/ \E w \in Conns : watcher[w] = "attach" /\ next[w] = k

Watching(i) == {k \in Conns : owner[k] = i /\ watcher[k] \notin {"none", "gone"}}

\* Two goroutines never reconnect, audit or clean up the same session at once.
OneWatcher == \A i \in Ids : \A k, l \in Watching(i) : k = l

\* The front end hears of the end of a session once, and only when no
\* connection of that session is left that nobody has asked to close.
ExitIsFinal ==
    \A i \in Ids :
        /\ exits[i] <= 1
        /\ exits[i] = 1 => \A k \in Conns : owner[k] = i /\ life[k] = "live" => close[k] # "no"

\* When the last goroutine of a session has returned, the session has left the
\* tables, its history file is closed and no audit record waits for its end.
NothingLeftBehind ==
    \A i \in Ids :
        (connect[i] \in {"returned", "shown"} /\ Watching(i) = {}) =>
            /\ sessions[i] = None /\ i \notin connConfigs
            /\ i \notin history /\ file[i] # "open" /\ i \notin auditIDs

\* Each connection follows the contract of TermSession that SshSession
\* implements (its output is not counted here).
Term(k) == INSTANCE TermSession
           WITH Cap <- 1, queued <- 0,
                stopped <- close[k] # "no", open <- close[k] # "closed",
                signal <- IF signal[k] = "lost" THEN "none" ELSE signal[k]
ConnsAreTermSessions == /\ \A k \in Conns : Term(k)!Init
                        /\ [][\A k \in Conns : [Term(k)!Next]_(Term(k)!vars)]_connVars

\* A connection whose end was signalled is dealt with (replaced, or cleaned up
\* after); of an SSH connection nothing stays behind, the goroutine that
\* consumes its output included.
EndIsHandled ==
    \A k \in Conns :
        signal[k] \in {"clean", "error"} ~>
            /\ watcher[k] = "gone"
            /\ proto[k] = "ssh" => close[k] = "closed" /\ consumer[k] = "exit"

\* An SSH session that the user closes while its connection is up is cleaned
\* up after, and not reconnected.
UserCloseIsCleanedUp ==
    \A i \in Ids : \A k \in Conns :
        (closer[i] # "idle" /\ target[i] = k /\ proto[k] = "ssh" /\ watcher[k] = "wait")
            ~> (closer[i] = "done" /\ watcher[k] = "gone" /\ next[k] = None)

-----------------------------------------------------------------------------
(* What comments of the code say and the code does not do; each is violated. *)

\* app.go:66, manualClose is the user's mark "do not reconnect": a session the
\* user closed does not come back.
ManualCloseIsFinal ==
    \A i \in Ids : closer[i] = "done" => sessions[i] = None

\* app.go:428, the tunnels of a session are stopped along with it: once SshClose
\* is through with them, none of them listens.  (StartTunnel looks the session
\* up under a.mu and registers the tunnel under a.tunnelMu, with the network in
\* between.)
TunnelsStopWithSession ==
    \A i \in Ids : closer[i] \in {"close", "closing", "done"} => tunnels[i] # "running"
=============================================================================
