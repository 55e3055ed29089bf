-------------------------------- MODULE Views --------------------------------
(***************************************************************************)
(* What shows something: the tabs, the terminal, the AI panel, the editor, the *)
(* monitors, the VNC panel, and the panels of records.                        *)
(***************************************************************************)
EXTENDS FrontEndBounds

VARIABLES
    life, userClosed, answers, exits, tabs, coming, queued, modals, pages, split,
    fatal, ghosts, batched,
    emitted, mounted, shown, frame, pending, written, heard, dropped, menu,
    macro, sentLines, sent, overlapped,
    asker, stage, produced, aiCancel, cancels, events, busy, stream, answer,
    mine, crossed,
    file, local, path, text, dirty, editing, call, upset,
    watched, tick, sample, history, tab, table, fetching, moved, skipped,
    bytes, poll, base, rate,
    desk, frames, replies, placed, shownDesk, linked, linking, canvas, mask,
    newest, older, server, held, missed, overtaken,
    reads, title, body, waiting, searches, matches, searching, playing, timer, pos,
    bookmarks, jump, doubtful

Window == INSTANCE WindowTabs
Term == INSTANCE TerminalView
Ai == INSTANCE AiPanel
Editor == INSTANCE EditorPanel
Mon == INSTANCE Monitors
Vnc == INSTANCE VncPanel
Replay == INSTANCE ReplayPanels

\* The variables of each.
windowVars == <<life, userClosed, answers, exits, tabs, coming, queued, modals, pages, split,
    fatal, ghosts, batched>>
termVars == <<emitted, mounted, shown, frame, pending, written, heard, dropped, menu,
    macro, sentLines, sent, overlapped>>
aiVars == <<asker, stage, produced, aiCancel, cancels, events, busy, stream, answer, mine,
    crossed>>
editorVars == <<file, local, path, text, dirty, editing, call, upset>>
monVars == <<watched, tick, sample, history, tab, table, fetching, moved, skipped, bytes,
    poll, base, rate>>
vncVars == <<desk, frames, replies, placed, shownDesk, linked, linking, canvas, mask,
    newest, older, server, held, missed, overtaken>>
replayVars == <<reads, title, body, waiting, searches, matches, searching, playing, timer, pos,
    bookmarks, jump, doubtful>>
==============================================================================
