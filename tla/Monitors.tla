------------------------------- MODULE Monitors -------------------------------
(***************************************************************************)
(* What is polled: the monitor of a host (MonitorPanel.tsx), in a dialog or *)
(* on its page, and the status bar of a session (Workspace.tsx).            *)
(*                                                                          *)
(* The monitor is for the session App.tsx hands it, which changes while it  *)
(* is shown when the tabs do.  A tick goes on with the session it was       *)
(* started for; tables are loaded once, when their tab is opened, and one   *)
(* at a time.                                                               *)
(***************************************************************************)
EXTENDS Integers, FiniteSets

CONSTANTS
    Machines,               \* sessions and their hosts
    Tables,                 \* proc, disk, port
    Ticks,                  \* bound: ticks under way at once
    MaxBytes                \* bound: bytes a session has moved

NoHost == "none"

VARIABLES
    \* monitor
    watched,                \* sessionId of the panel, NoHost while it is closed
    tick,                   \* ticks: the session, and the call it waits for
    sample, history,        \* whose metrics (m) and curve (hist) are shown
    tab,                    \* "res" or one of the tables
    table,                  \* whose table was loaded, or NoHost
    fetching,               \* loading.current: the table and session, or {}
    moved, skipped,         \* observation: watched was changed; tables not loaded,
                            \* or without an entry, when their tab was opened
    \* status bar
    bytes,                  \* bytes the session has moved
    poll,                   \* answers on their way, as read
    base, rate              \* prev.current and the rate shown

monitorVars == <<watched, tick, sample, history, tab, table, fetching, moved, skipped>>
barVars == <<bytes, poll, base, rate>>
vars == <<monitorVars, barVars>>

Owners == Machines \cup {NoHost}
Loads == [of : Tables, for : Machines]
NoTick == [for |-> NoHost, call |-> "none"]

TypeOK ==
    /\ watched \in Owners /\ sample \in Owners /\ history \in Owners
    /\ tick \in [Ticks -> [for : Owners, call : {"none", "metrics", "history"}]]
    /\ tab \in Tables \cup {"res"} /\ table \in [Tables -> Owners]
    /\ fetching \subseteq Loads /\ moved \in BOOLEAN /\ skipped \subseteq Tables
    /\ bytes \in 0..MaxBytes /\ poll \in [Ticks -> -1..MaxBytes] /\ base \in 0..MaxBytes
    /\ rate \in 0..MaxBytes

Closed ==
    /\ watched' = NoHost /\ tick' = [i \in Ticks |-> NoTick]
    /\ sample' = NoHost /\ history' = NoHost /\ tab' = "res"
    /\ table' = [t \in Tables |-> NoHost] /\ fetching' = {} /\ moved' = FALSE /\ skipped' = {}

Init ==
    /\ watched = NoHost /\ tick = [i \in Ticks |-> NoTick]
    /\ sample = NoHost /\ history = NoHost /\ tab = "res"
    /\ table = [t \in Tables |-> NoHost] /\ fetching = {}
    /\ moved = FALSE /\ skipped = {}
    /\ bytes = 0 /\ poll = [i \in Ticks |-> -1] /\ base = 0 /\ rate = 0

-----------------------------------------------------------------------------
(* Monitor *)

Show(h) ==
    /\ watched = NoHost /\ watched' = h
    /\ UNCHANGED <<tick, sample, history, tab, table, fetching, moved, skipped, barVars>>

\* Mutant: the tables are kept for the next time.
CloseKeepingTables ==
    /\ watched # NoHost /\ watched' = NoHost /\ tick' = [i \in Ticks |-> NoTick]
    /\ sample' = NoHost /\ history' = NoHost /\ tab' = "res"
    /\ moved' = FALSE /\ skipped' = {} /\ fetching' = {}
    /\ UNCHANGED <<table, barVars>>

\* Its state goes with it; calls under way set nothing any more.
Close ==
    /\ watched # NoHost /\ Closed
    /\ UNCHANGED barVars

\* The session it was for is closed, and it is handed another.
Rewatch(h) ==
    /\ watched \notin {NoHost, h} /\ watched' = h /\ moved' = TRUE
    /\ UNCHANGED <<tick, sample, history, tab, table, fetching, skipped, barVars>>

\* tick, at once and then every two or three seconds: metrics, then the curve.
StartTick(i) ==
    /\ watched # NoHost /\ tick[i] = NoTick
    /\ tick' = [tick EXCEPT ![i] = [for |-> watched, call |-> "metrics"]]
    /\ UNCHANGED <<watched, sample, history, tab, table, fetching, moved, skipped, barVars>>

TickAnswers(i) ==
    /\ \/ /\ tick[i].call = "metrics"
          /\ sample' = tick[i].for /\ tick' = [tick EXCEPT ![i].call = "history"]
          /\ UNCHANGED history
       \/ /\ tick[i].call = "history"
          /\ history' = tick[i].for /\ tick' = [tick EXCEPT ![i] = NoTick]
          /\ UNCHANGED sample
    /\ UNCHANGED <<watched, tab, table, fetching, moved, skipped, barVars>>

\* An error is shown beside what is there.
TickFails(i) ==
    /\ tick[i] # NoTick /\ tick' = [tick EXCEPT ![i] = NoTick]
    /\ UNCHANGED <<watched, sample, history, tab, table, fetching, moved, skipped, barVars>>

\* A tab is opened: its table is loaded if it is empty and no other is on its
\* way; the tabs are there once there are metrics.
OpenTab(t) ==
    /\ sample # NoHost /\ t # tab /\ tab' = t
    /\ LET loads == t # "res" /\ table[t] = NoHost /\ fetching = {}
       IN  /\ fetching' = IF loads THEN {[of |-> t, for |-> watched]} ELSE fetching
           /\ skipped' = IF loads THEN skipped \ {t}
                         ELSE IF t # "res" /\ table[t] = NoHost THEN skipped \cup {t} ELSE skipped
    /\ UNCHANGED <<watched, tick, sample, history, table, moved, barVars>>

\* The call fails, or has no entry.
TableFails ==
    \E l \in fetching :
        /\ fetching' = {} /\ skipped' = skipped \cup {l.of}
        /\ UNCHANGED <<watched, tick, sample, history, tab, table, moved, barVars>>

TableAnswers ==
    \E l \in fetching :
        /\ fetching' = {} /\ table' = [table EXCEPT ![l.of] = l.for]
        /\ skipped' = skipped \ {l.of}
        /\ UNCHANGED <<watched, tick, sample, history, tab, moved, barVars>>

-----------------------------------------------------------------------------
(* Status bar: a tick every two seconds while the session is active *)

Moves ==
    /\ bytes < MaxBytes /\ bytes' = bytes + 1
    /\ UNCHANGED <<monitorVars, poll, base, rate>>

Poll(i) ==
    /\ poll[i] = -1 /\ poll' = [poll EXCEPT ![i] = bytes]
    /\ UNCHANGED <<monitorVars, bytes, base, rate>>

\* Mutant: the difference is shown as it is.
PollAnswersSigned(i) ==
    /\ poll[i] >= 0
    /\ rate' = poll[i] - base /\ base' = poll[i] /\ poll' = [poll EXCEPT ![i] = -1]
    /\ UNCHANGED <<monitorVars, bytes>>

\* Answers may overtake each other: a difference below zero counts as none.
PollAnswers(i) ==
    /\ poll[i] >= 0
    /\ rate' = IF poll[i] > base THEN poll[i] - base ELSE 0
    /\ base' = poll[i] /\ poll' = [poll EXCEPT ![i] = -1]
    /\ UNCHANGED <<monitorVars, bytes>>

MonitorNext ==
    \/ \E h \in Machines : Show(h) \/ Rewatch(h)
    \/ Close \/ TableFails \/ TableAnswers
    \/ \E i \in Ticks : StartTick(i) \/ TickAnswers(i) \/ TickFails(i)
    \/ \E t \in Tables \cup {"res"} : OpenTab(t)

BarNext == Moves \/ \E i \in Ticks : Poll(i) \/ PollAnswers(i)

Next == MonitorNext \/ BarNext

-----------------------------------------------------------------------------

\* The table on the screen.
Displayed == IF tab = "res" THEN sample ELSE table[tab]

\* What is shown is of the session the monitor is for, as long as that did not
\* change under it, whatever calls of an earlier monitor are still under way; a
\* table that is not there is being loaded, or was passed over or refused; and
\* no rate is more than what was moved.
MonitorIsOfSession ==
    /\ ~moved => {Displayed, sample, history} \subseteq {NoHost, watched}
    /\ tab # "res" /\ table[tab] = NoHost => tab \in skipped \cup {l.of : l \in fetching}
    /\ rate \in 0..bytes
=============================================================================
