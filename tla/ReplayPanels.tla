----------------------------- MODULE ReplayPanels -----------------------------
(***************************************************************************)
(* Reading and replaying recorded output: the audit (AuditPanel.tsx), the   *)
(* logs (LogPanel.tsx) and the history of the home view (HomeView.tsx).     *)
(*                                                                          *)
(* Each shows the text of one record under its name.  The audit and the     *)
(* home view change both when the text has come, and the audit's buttons    *)
(* are off until then; the logs change the name at the click, so that an    *)
(* earlier text, or one that comes late, is under another name.             *)
(***************************************************************************)
EXTENDS Naturals, FiniteSets

CONSTANTS
    Records,                \* bound: recorded sessions
    Frames                  \* bound: frames of a replay

NoRecord == "none"
MaxSearches == 2            \* bound: searches under way at once
Readers == {"audit", "log", "home"}
Players == {"audit", "log"}

VARIABLES
    reads,                  \* calls under way: reader and record
    title, body,            \* whose name is shown, and whose text
    waiting,                \* loading of the audit
    searches, searching,    \* calls of SearchHistory under way; the button is off
    matches,                \* the records the last search found
    playing, timer, pos,    \* a replay runs, its interval exists, frames shown
    bookmarks,              \* records with a bookmark
    jump,                   \* the bookmark to go to when its record is open
    doubtful                \* observation: a read of the logs failed, or was not alone

vars == <<reads, title, body, waiting, searches, matches, searching, playing, timer, pos, bookmarks, jump,
    doubtful>>
reading == <<reads, title, body, waiting, doubtful>>
replay == <<playing, timer, pos>>
search == <<searches, matches, searching, bookmarks, jump>>

Maybe == Records \cup {NoRecord}

TypeOK ==
    /\ reads \subseteq Readers \X Records /\ title \in [Readers -> Maybe] /\ body \in [Readers -> Maybe]
    /\ waiting \in BOOLEAN /\ doubtful \in BOOLEAN
    /\ searches \in 0..MaxSearches /\ searching \in BOOLEAN
    /\ matches \subseteq Records /\ bookmarks \subseteq Records /\ jump \in Maybe
    /\ playing \in [Players -> BOOLEAN] /\ timer \in [Players -> BOOLEAN] /\ pos \in [Players -> 0..Frames]

Init ==
    /\ reads = {} /\ title = [r \in Readers |-> NoRecord] /\ body = [r \in Readers |-> NoRecord]
    /\ waiting = FALSE /\ searches = 0 /\ searching = FALSE /\ doubtful = FALSE
    /\ matches = {} /\ bookmarks = {} /\ jump = NoRecord
    /\ playing = [p \in Players |-> FALSE] /\ timer = [p \in Players |-> FALSE]
    /\ pos = [p \in Players |-> 0]

Stopped(p) == playing' = [playing EXCEPT ![p] = FALSE] /\ timer' = [timer EXCEPT ![p] = FALSE]
OfLog == {r \in reads : r[1] = "log"}

-----------------------------------------------------------------------------
(* Reading *)

\* The buttons of the list, which is there while no record is.
ReplayButtons == ~waiting /\ title["audit"] = NoRecord

\* openReplay and openCmdLog; a log of commands is taken for one more recording.
OpenAudit(f) ==
    /\ ReplayButtons
    /\ waiting' = TRUE /\ reads' = reads \cup {<<"audit", f>>}
    /\ Stopped("audit")
    /\ UNCHANGED <<title, body, doubtful, pos, search>>

\* viewHistory: several clicks, several reads.
ViewHistory(f) ==
    /\ title["home"] = NoRecord /\ reads' = reads \cup {<<"home", f>>}
    /\ UNCHANGED <<title, body, waiting, doubtful, replay, search>>

\* open of the logs: the name changes at once.
Open(f, then) ==
    /\ title' = [title EXCEPT !["log"] = f]
    /\ reads' = reads \cup {<<"log", f>>}
    /\ doubtful' = (OfLog # {})
    /\ jump' = then
    /\ Stopped("log")
    /\ UNCHANGED <<body, waiting, pos, searches, matches, searching, bookmarks>>

OpenMatch(f) == title["log"] = NoRecord /\ f \in matches /\ Open(f, NoRecord)

\* gotoBookmark: only if the last search found the record.
GotoBookmark(f) == title["log"] # NoRecord /\ f \in bookmarks \cap matches /\ Open(f, f)

\* The end of a read, whatever it was of, when p is what waited for it.
Arrives(p, f) ==
    /\ <<p, f>> \in reads /\ reads' = reads \ {<<p, f>>}
    /\ waiting' = (waiting /\ p # "audit")
    /\ jump' = IF jump = f /\ p = "log" THEN NoRecord ELSE jump
    /\ UNCHANGED <<searches, matches, searching, bookmarks>>

\* gotoBookmark goes on, read or not: a replay that was started meanwhile stops
\* at the line of the bookmark, any line of the record.
Jumps(p, f) == p = "log" /\ jump = f
ToBookmark == Stopped("log") /\ \E line \in 0..Frames : pos' = [pos EXCEPT !["log"] = line]

\* The text has come.
Reads(p, f) ==
    /\ Arrives(p, f)
    /\ body' = [body EXCEPT ![p] = f]
    /\ title' = IF p = "log" THEN title ELSE [title EXCEPT ![p] = f]
    /\ \/ ~Jumps(p, f) /\ UNCHANGED <<playing, timer>>
          /\ pos' = IF p = "home" THEN pos ELSE [pos EXCEPT ![p] = IF p = "audit" THEN Frames ELSE 0]
       \/ Jumps(p, f) /\ ToBookmark
    /\ doubtful' = IF p = "log" THEN doubtful \/ OfLog # {<<p, f>>} ELSE doubtful

\* An error is shown; what was there stays.
Fails(p, f) ==
    /\ Arrives(p, f)
    /\ doubtful' = IF p = "log" THEN TRUE ELSE doubtful
    /\ \/ ~Jumps(p, f) /\ UNCHANGED replay
       \/ Jumps(p, f) /\ ToBookmark
    /\ UNCHANGED <<title, body>>

\* Back to the list: the audit stops its replay, the logs do not.
Back(p) ==
    /\ title[p] # NoRecord /\ title' = [title EXCEPT ![p] = NoRecord]
    /\ IF p = "audit" THEN Stopped(p) ELSE UNCHANGED <<playing, timer>>
    /\ UNCHANGED <<reads, body, waiting, doubtful, pos, search>>

\* doSearch closes the record, and leaves a replay running.  The button is off
\* while a search is under way, Enter in the field is not.
DoSearch ==
    /\ searches < MaxSearches /\ searches' = searches + 1 /\ searching' = TRUE
    /\ title' = [title EXCEPT !["log"] = NoRecord]
    /\ UNCHANGED <<reads, body, waiting, doubtful, replay, matches, bookmarks, jump>>

\* Any of the searches is through, or failed and what was found before stays: the
\* button is on again, and what came last is shown.
SearchAnswers ==
    /\ searches > 0 /\ searches' = searches - 1 /\ searching' = FALSE
    /\ \E found \in SUBSET Records : matches' = found
    /\ UNCHANGED <<reading, replay, bookmarks, jump>>

\* addBookmark, removeBookmark.
Bookmark ==
    /\ title["log"] # NoRecord /\ bookmarks' = bookmarks \cup {title["log"]}
    /\ UNCHANGED <<reading, replay, searches, matches, searching, jump>>

RemoveBookmark(f) ==
    /\ f \in bookmarks /\ bookmarks' = bookmarks \ {f}
    /\ UNCHANGED <<reading, replay, searches, matches, searching, jump>>

-----------------------------------------------------------------------------
(* Replays *)

\* startReplay begins again at the end, toggleReplay goes on where it is.
Play(p) ==
    /\ title[p] # NoRecord /\ ~playing[p]
    /\ playing' = [playing EXCEPT ![p] = TRUE] /\ timer' = [timer EXCEPT ![p] = TRUE]
    /\ pos' = IF p = "audit" /\ pos[p] = Frames THEN [pos EXCEPT ![p] = 0] ELSE pos
    /\ UNCHANGED <<reading, search>>

\* Pause, and the buttons to the start and the end, which the audit always has.
Pause(p, at) ==
    /\ title[p] # NoRecord /\ (playing[p] \/ p = "audit") /\ at \in {pos[p], Frames} \cup (IF p = "audit" THEN {0} ELSE {})
    /\ Stopped(p) /\ pos' = [pos EXCEPT ![p] = at]
    /\ UNCHANGED <<reading, search>>

\* The interval: a frame more, or the end.
Tick(p) ==
    /\ timer[p]
    /\ pos' = [pos EXCEPT ![p] = IF @ < Frames THEN @ + 1 ELSE @]
    /\ IF pos[p] = Frames \/ (p = "audit" /\ pos'[p] = Frames) THEN Stopped(p)
       ELSE UNCHANGED <<playing, timer>>
    /\ UNCHANGED <<reading, search>>

Answers(p) == Back(p) \/ \E f \in Records : Reads(p, f) \/ Fails(p, f)
Replay(p) == Play(p) \/ Tick(p) \/ \E at \in 0..Frames : Pause(p, at)

AuditNext == Answers("audit") \/ Replay("audit") \/ \E f \in Records : OpenAudit(f)
HomeNext == Answers("home") \/ \E f \in Records : ViewHistory(f)
LogNext ==
    \/ Answers("log") \/ Replay("log")
    \/ DoSearch \/ SearchAnswers \/ Bookmark
    \/ \E f \in Records : OpenMatch(f) \/ GotoBookmark(f) \/ RemoveBookmark(f)

Next == AuditNext \/ HomeNext \/ LogNext

-----------------------------------------------------------------------------

\* The text is that of the record whose name is above it, whatever else is read
\* meanwhile; in the logs only if the read was alone and is through.  A replay
\* that is shown has its interval, and only then.
TextIsOfRecord ==
    /\ \A r \in {"audit", "home"} : title[r] # NoRecord => body[r] = title[r]
    /\ title["log"] # NoRecord /\ OfLog = {} /\ ~doubtful => body["log"] = title["log"]
    /\ \A p \in Players : playing[p] <=> timer[p]
=============================================================================
