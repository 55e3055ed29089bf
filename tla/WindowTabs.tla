----------------------------- MODULE WindowTabs -----------------------------
(***************************************************************************)
(* The window of the application, App.tsx and main.tsx: the tabs of the     *)
(* sessions, the modal dialogs and pages above them, and the error screen   *)
(* that replaces everything when a promise is rejected and nobody catches.  *)
(*                                                                          *)
(* React collects the state updates of event handlers and renders them      *)
(* later, all that are waiting at once and in order.  An update a click     *)
(* made is rendered before the next event (with whatever waits already); an *)
(* update made by an event of the back end, or by the answer to a call,     *)
(* waits for the next render.  The updates that wait are kept as what they  *)
(* will make of the tabs: "coming", and how many they are: "queued".        *)
(***************************************************************************)
EXTENDS Naturals, FiniteSets, SequencesExt

CONSTANTS
    Ids,                    \* bound: session ids Connect may return
    Modals,                 \* the dialogs: connect, history, tunnel, monitor, snippets, audit
    NoTab                   \* null

VARIABLES
    \* back end (app.go, as AppSessions has it in detail)
    life,                   \* of each session: "none", "up", "down" (reconnecting), "ended"
    userClosed,             \* SshClose was called for it
    answers, exits,         \* answers of Connect and ssh-exit events on their way
    \* front end
    tabs,                   \* what was rendered last: openSessions and activeId
    coming, queued,         \* the tabs with the updates not rendered yet; 0, 1 or 2 (several)
    modals, pages, split,   \* dialogs and pages shown, split mode
    fatal,                  \* showFatalError has replaced the window
    \* observation
    ghosts,                 \* ids whose ssh-exit was handled before Connect's answer
    batched                 \* several updates were rendered at once, no tab chosen since

backEnd == <<life, userClosed, answers, exits>>
screen == <<modals, pages, split>>
window == <<tabs, coming, queued, batched>>
vars == <<backEnd, window, screen, fatal, ghosts>>

TypeOK ==
    /\ life \in [Ids -> {"none", "up", "down", "ended"}]
    /\ userClosed \subseteq Ids /\ answers \subseteq Ids /\ exits \subseteq Ids
    /\ ghosts \subseteq Ids
    /\ tabs \in [open : Seq(Ids), active : Ids \cup {NoTab}]
    /\ coming \in [open : Seq(Ids), active : Ids \cup {NoTab}] /\ queued \in 0..2
    /\ modals \subseteq Modals /\ pages \subseteq {"settings", "monitor"}
    /\ split \in BOOLEAN /\ fatal \in BOOLEAN /\ batched \in BOOLEAN

Init ==
    /\ life = [i \in Ids |-> "none"] /\ userClosed = {} /\ answers = {} /\ exits = {}
    /\ tabs = [open |-> <<>>, active |-> NoTab] /\ coming = tabs /\ queued = 0
    /\ modals = {} /\ pages = {} /\ split = FALSE
    /\ fatal = FALSE /\ ghosts = {} /\ batched = FALSE

Open == Range(tabs.open)

-----------------------------------------------------------------------------
(* The back end *)

\* Ids are given out in order (a.nextID).
Dials(i) ==
    /\ life[i] = "none" /\ \A j \in Ids : life[j] = "none" => i <= j
    /\ life' = [life EXCEPT ![i] = "up"]
    /\ answers' = answers \cup {i}
    /\ UNCHANGED <<userClosed, exits, window, screen, fatal, ghosts>>

Breaks(i) ==
    /\ life[i] = "up"
    /\ life' = [life EXCEPT ![i] = "down"]
    /\ UNCHANGED <<userClosed, answers, exits, window, screen, fatal, ghosts>>

Reconnects(i) ==
    /\ life[i] = "down"
    /\ life' = [life EXCEPT ![i] = "up"]
    /\ UNCHANGED <<userClosed, answers, exits, window, screen, fatal, ghosts>>

\* A clean end, or the last attempt to reconnect has failed.
Ends(i) ==
    /\ life[i] \in {"up", "down"}
    /\ life' = [life EXCEPT ![i] = "ended"]
    /\ exits' = exits \cup {i}
    /\ UNCHANGED <<userClosed, answers, window, screen, fatal, ghosts>>

-----------------------------------------------------------------------------
(* Rendering *)

\* Mutant: only the tab on the right is considered.
RightNeighborOnly(list, id) ==
    LET after == {i \in 2..Len(list) : list[i - 1] = id}
    IN  IF after = {} THEN NoTab ELSE list[CHOOSE i \in after : TRUE]

\* The tab on the right, else on the left, else none.
NeighborAfterClose(list, id) ==
    LET at == {i \in 1..Len(list) : list[i] = id}
        next == {i + 1 : i \in at} \cap DOMAIN list
        before == {i - 1 : i \in at} \cap DOMAIN list
    IN  CASE next # {}   -> list[CHOOSE i \in next : TRUE]
          [] next = {} /\ before # {} -> list[CHOOSE i \in before : TRUE]
          [] OTHER       -> NoTab

\* The list without id, which is in it once at most.
Without(list, id) ==
    LET at == {i \in DOMAIN list : list[i] = id}
    IN  IF at = {} THEN list ELSE RemoveAt(list, CHOOSE i \in at : TRUE)

\* One update on a state that may hold earlier ones.  The neighbour is looked
\* up in the list of the last render: the closure of a click, openSessionsRef
\* for ssh-exit.
Added(i, t) == [open |-> Append(t.open, i), active |-> i]
Chosen(i, t) == [t EXCEPT !.active = i]
Removed(i, t) == [open |-> Without(t.open, i),
                  active |-> IF t.active = i THEN NeighborAfterClose(tabs.open, i) ELSE t.active]

\* The terminals on the screen.
Visible == IF split THEN Open ELSE Open \cap {tabs.active}

\* A render of t, which is the end of n updates.
Render(t, n) ==
    /\ tabs' = t /\ coming' = t /\ queued' = 0
    /\ batched' = IF t.open = <<>> \/ t.active \in Range(t.open) THEN FALSE ELSE batched \/ n > 1

\* One more update that waits.
Wait(t) == coming' = t /\ queued' = (IF queued = 0 THEN 1 ELSE 2) /\ UNCHANGED <<tabs, batched>>

Renders ==
    /\ queued > 0
    /\ Render(coming, queued)
    /\ UNCHANGED <<backEnd, screen, fatal, ghosts>>

\* onConnected, when Connect's answer arrives.
OnConnected(i) ==
    /\ i \in answers
    /\ answers' = answers \ {i}
    /\ Wait(Added(i, coming))
    /\ modals' = modals \ {"connect"}
    /\ UNCHANGED <<life, userClosed, exits, pages, split, fatal, ghosts>>

\* Mutant: the event is ignored unless the session is the active one.
OnExitActiveOnly(i) ==
    /\ i \in exits
    /\ exits' = exits \ {i}
    /\ IF i = tabs.active THEN Wait(Removed(i, coming)) ELSE UNCHANGED window
    /\ ghosts' = IF i \in answers THEN ghosts \cup {i} ELSE ghosts
    /\ UNCHANGED <<life, userClosed, answers, screen, fatal>>

\* The listener of ssh-exit.
OnExit(i) ==
    /\ i \in exits
    /\ exits' = exits \ {i}
    /\ Wait(Removed(i, coming))
    /\ ghosts' = IF i \in answers THEN ghosts \cup {i} ELSE ghosts
    /\ UNCHANGED <<life, userClosed, answers, screen, fatal>>

-----------------------------------------------------------------------------
(* The user; nothing is left to click once the error screen is there *)

SelectTab(i) ==
    /\ ~fatal /\ i \in Open
    /\ Render(Chosen(i, coming), queued + 1)
    /\ UNCHANGED <<backEnd, screen, fatal, ghosts>>

\* SshClose, which ends a session that is up; one that reconnects goes on (its
\* attempts are not stopped).
CloseSession(i) ==
    /\ ~fatal /\ i \in Open
    /\ userClosed' = userClosed \cup {i}
    /\ life' = [life EXCEPT ![i] = IF @ = "up" THEN "ended" ELSE @]
    /\ exits' = IF life[i] = "up" THEN exits \cup {i} ELSE exits
    /\ Render(Removed(i, coming), queued + 1)
    /\ UNCHANGED <<answers, screen, fatal, ghosts>>

\* A call for session i that nobody catches: a rejection ends in showFatalError.
Unhandled(ids) == fatal' = (fatal \/ \E i \in ids : life[i] # "up")

\* A key in a terminal, or a broadcast to all tabs in split mode.
Type(i) ==
    /\ ~fatal /\ i \in Visible
    /\ Unhandled({i})
    /\ UNCHANGED <<backEnd, window, screen, ghosts>>

Broadcast ==
    /\ ~fatal /\ split /\ Open # {}
    /\ Unhandled(Open)
    /\ UNCHANGED <<backEnd, window, screen, ghosts>>

\* A terminal that is mounted, shown or changes with the window reports its size.
Resized(i) ==
    /\ i \in Visible
    /\ Unhandled({i})
    /\ UNCHANGED <<backEnd, window, screen, ghosts>>

\* Dialogs and pages: the tab bar and the shortcuts open them, Escape closes
\* the pages first and all dialogs at once.
OpenModal(m) ==
    /\ ~fatal /\ m \in Modals \ modals
    /\ modals' = modals \cup {m}
    /\ Render(coming, queued)
    /\ UNCHANGED <<backEnd, pages, split, fatal, ghosts>>

CloseModal(m) ==
    /\ ~fatal /\ m \in modals
    /\ modals' = modals \ {m}
    /\ Render(coming, queued)
    /\ UNCHANGED <<backEnd, pages, split, fatal, ghosts>>

OpenSettings ==
    /\ ~fatal /\ pages' = pages \cup {"settings"}
    /\ Render(coming, queued)
    /\ UNCHANGED <<backEnd, modals, split, fatal, ghosts>>

\* From the monitor dialog, which has a session to show only if a tab is open.
OpenMonitorPage ==
    /\ ~fatal /\ "monitor" \in modals /\ tabs.open # <<>>
    /\ modals' = modals \ {"monitor"}
    /\ pages' = pages \cup {"monitor"}
    /\ Render(coming, queued)
    /\ UNCHANGED <<backEnd, split, fatal, ghosts>>

Escape ==
    /\ ~fatal /\ (pages # {} \/ modals # {})
    /\ pages' = {}
    /\ modals' = IF pages # {} THEN modals ELSE {}
    /\ Render(coming, queued)
    /\ UNCHANGED <<backEnd, split, fatal, ghosts>>

ToggleSplit ==
    /\ ~fatal /\ Len(tabs.open) > 1
    /\ split' = ~split
    /\ Render(coming, queued)
    /\ UNCHANGED <<backEnd, modals, pages, fatal, ghosts>>

TabsNext ==
    \/ \E i \in Ids : Dials(i) \/ Breaks(i) \/ Reconnects(i) \/ Ends(i)
    \/ \E i \in Ids : OnConnected(i) \/ OnExit(i) \/ Resized(i)
    \/ Renders
    \/ \E i \in Ids : SelectTab(i) \/ CloseSession(i) \/ Type(i)
    \/ Broadcast \/ ToggleSplit

DialogsNext ==
    \/ \E m \in Modals : OpenModal(m) \/ CloseModal(m)
    \/ OpenSettings \/ OpenMonitorPage \/ Escape

Next == TabsNext \/ DialogsNext

Spec == Init /\ [][Next]_vars

-----------------------------------------------------------------------------

\* The session the tunnel and monitor dialogs are for.
PanelSession == IF tabs.active # NoTab THEN tabs.active
                ELSE IF tabs.open # <<>> THEN Head(tabs.open) ELSE NoTab

\* The active tab is one of the open ones, whatever was closed from either
\* side; the exception is a render of several updates at once: two sessions that
\* end together, or a click on a tab that is just going, leave no tab shown.
ActiveIsShown ==
    (tabs.open # <<>> /\ ~batched) => tabs.active \in Open /\ PanelSession \in Open

\* When nothing is on its way, the tabs are the sessions that run and that the
\* user has not closed; and no others, except those whose ssh-exit overtook the
\* answer of Connect: their tab stays for good.
TabsFollowSessions ==
    (queued = 0 /\ answers = {} /\ exits = {}) =>
        Open \ (ghosts \ userClosed) = {i \in Ids : life[i] \in {"up", "down"}} \ userClosed

\* Automatic reconnection keeps the tabs: as long as no session has ended, what
\* is typed into one that is lost for the moment does not take the window away.
WindowSurvives == (\A i \in Ids : life[i] # "ended") => ~fatal
=============================================================================
