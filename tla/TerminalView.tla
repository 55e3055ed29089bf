---------------------------- MODULE TerminalView ----------------------------
(***************************************************************************)
(* The terminal of one session, TerminalView.tsx: output is collected and   *)
(* written to xterm once a frame, and only while the session is the active  *)
(* one; snippets of several lines are sent line by line.                    *)
(*                                                                          *)
(* A chunk of output is its number.  Colours, fonts, searching and copying  *)
(* change no state that a property here looks at.                           *)
(***************************************************************************)
EXTENDS Naturals, FiniteSets, SequencesExt

CONSTANTS
    MaxChunks,              \* bound: chunks of output
    Limit, Keep,            \* chunks a hidden terminal may hold, and keeps (512K, 256K)
    Macros, Lines           \* bound: snippets sent, lines of each

VARIABLES
    emitted,                \* chunks the back end has emitted
    mounted,                \* the effect that subscribes has run
    shown,                  \* the session is active (activeRef)
    frame,                  \* a frame is requested (rafRef)
    pending, written,       \* pendingRef, and what xterm was given
    heard,                  \* observation: chunks that were received
    dropped,                \* observation: chunks cut off while hidden
    menu,                   \* the context menu is open
    macro,                  \* of each snippet: "idle", "meta", "sending", "done"
    sentLines,              \* of each snippet: the lines that were sent (the loop)
    sent,                   \* observation: what was sent, <<snippet, line>>
    overlapped              \* observation: snippets that ran beside another

outputVars == <<emitted, mounted, shown, frame, pending, written, heard, dropped>>
macroVars == <<menu, macro, sentLines, sent, overlapped>>
vars == <<outputVars, macroVars>>

TypeOK ==
    /\ emitted \in 0..MaxChunks /\ mounted \in BOOLEAN /\ shown \in BOOLEAN /\ frame \in BOOLEAN
    /\ pending \in Seq(1..MaxChunks) /\ written \in Seq(1..MaxChunks)
    /\ heard \subseteq 1..MaxChunks /\ dropped \subseteq heard /\ menu \in BOOLEAN
    /\ macro \in [Macros -> {"idle", "meta", "sending", "done"}]
    /\ sentLines \in [Macros -> 0..Lines] /\ sent \in Seq(Macros \X (1..Lines)) /\ overlapped \subseteq Macros

Init ==
    /\ emitted = 0 /\ mounted = FALSE /\ shown = TRUE /\ frame = FALSE
    /\ pending = <<>> /\ written = <<>> /\ heard = {} /\ dropped = {}
    /\ menu = FALSE /\ macro = [m \in Macros |-> "idle"] /\ sentLines = [m \in Macros |-> 0]
    /\ sent = <<>> /\ overlapped = {}

-----------------------------------------------------------------------------
(* Output *)

Mount ==
    /\ ~mounted /\ mounted' = TRUE
    /\ UNCHANGED <<emitted, shown, frame, pending, written, heard, dropped, macroVars>>

\* ssh-output: without a listener it is gone; otherwise collected, and a frame
\* requested (scheduleFlush: one at a time).
OnOutput ==
    /\ emitted < MaxChunks
    /\ emitted' = emitted + 1
    /\ IF mounted
       THEN /\ pending' = Append(pending, emitted')
            /\ heard' = heard \cup {emitted'}
            /\ frame' = TRUE
       ELSE UNCHANGED <<pending, heard, frame>>
    /\ UNCHANGED <<mounted, shown, written, dropped, macroVars>>

\* Mutant: the limit holds for the terminal on the screen too.
FlushTrimsAll ==
    /\ frame /\ frame' = FALSE
    /\ IF Len(pending) > Limit
       THEN /\ pending' = SubSeq(pending, Len(pending) - Keep + 1, Len(pending))
            /\ UNCHANGED <<written, dropped>>
       ELSE /\ shown
            /\ written' = written \o pending /\ pending' = <<>> /\ UNCHANGED dropped
    /\ UNCHANGED <<emitted, mounted, shown, heard, macroVars>>

\* The frame: the active terminal writes all; a hidden one keeps what it has,
\* or the end of it when that is too much.
Flush ==
    /\ frame /\ frame' = FALSE
    /\ \/ /\ shown
          /\ written' = written \o pending /\ pending' = <<>>
          /\ UNCHANGED dropped
       \/ /\ ~shown /\ Len(pending) > Limit
          /\ pending' = SubSeq(pending, Len(pending) - Keep + 1, Len(pending))
          /\ dropped' = dropped \cup (Range(pending) \ Range(pending'))
          /\ UNCHANGED written
       \/ /\ ~shown /\ Len(pending) <= Limit
          /\ UNCHANGED <<pending, written, dropped>>
    /\ UNCHANGED <<emitted, mounted, shown, heard, macroVars>>

\* The effect on [active]: a terminal that is shown again asks for a frame if
\* there is something to write.
Activate ==
    /\ mounted
    /\ shown' = ~shown
    /\ frame' = (frame \/ (~shown /\ pending # <<>>))
    /\ UNCHANGED <<emitted, mounted, pending, written, heard, dropped, macroVars>>

-----------------------------------------------------------------------------
(* The context menu and its snippets *)

ToggleMenu ==
    /\ mounted /\ menu' = ~menu
    /\ UNCHANGED <<outputVars, macro, sentLines, sent, overlapped>>

Running == {m \in Macros : macro[m] \in {"meta", "sending"}}

\* sendSnippet asks for the values of the variables; the menu stays open, so
\* another snippet can be chosen before the first one is done.
ChooseSnippet(m) ==
    /\ menu /\ macro[m] = "idle"
    /\ macro' = [macro EXCEPT ![m] = "meta"]
    /\ overlapped' = IF Running = {} THEN overlapped ELSE overlapped \cup Running \cup {m}
    /\ UNCHANGED <<outputVars, menu, sentLines, sent>>

\* SessionMeta answers or fails: the snippet is sent either way.
MetaAnswers(m) ==
    /\ macro[m] = "meta"
    /\ macro' = [macro EXCEPT ![m] = "sending"]
    /\ UNCHANGED <<outputVars, menu, sentLines, sent, overlapped>>

\* One line, then 60 ms; after the last the menu is closed.
SendLine(m) ==
    /\ macro[m] = "sending"
    /\ \/ /\ sentLines[m] < Lines
          /\ sentLines' = [sentLines EXCEPT ![m] = @ + 1]
          /\ sent' = Append(sent, <<m, sentLines[m] + 1>>)
          /\ UNCHANGED <<macro, menu>>
       \/ /\ sentLines[m] = Lines
          /\ macro' = [macro EXCEPT ![m] = "done"] /\ menu' = FALSE
          /\ UNCHANGED <<sentLines, sent>>
    /\ UNCHANGED <<outputVars, overlapped>>

Next ==
    \/ Mount \/ OnOutput \/ Flush \/ Activate
    \/ ToggleMenu
    \/ \E m \in Macros : ChooseSnippet(m) \/ MetaAnswers(m) \/ SendLine(m)

-----------------------------------------------------------------------------

\* Nothing that was received is lost, doubled or out of order, whatever frames,
\* output and changes of the tab come between: what xterm has and what waits are
\* together what was heard, but for chunks a hidden terminal had to cut off; and
\* those are older than everything that still waits.
OutputIsWhole ==
    LET out == written \o pending
    IN  /\ Range(out) = heard \ dropped
        /\ \A i, j \in DOMAIN out : i < j => out[i] < out[j]
        /\ \A c \in dropped, i \in DOMAIN pending : c < pending[i]
        /\ ~frame /\ ~shown => Len(pending) <= Limit

\* The lines of a snippet are sent each once and in order, and next to each other
\* unless two snippets were sent at once.
SnippetsAreWhole ==
    \A m \in Macros :
        LET at == {i \in DOMAIN sent : sent[i][1] = m}
        IN  /\ {sent[i][2] : i \in at} = 1..sentLines[m]
            /\ \A i, j \in at : i < j => sent[i][2] < sent[j][2]
            /\ macro[m] = "done" => sentLines[m] = Lines
            /\ m \notin overlapped => \A i, j \in at : \A k \in i..j : k \in at

\* What waits in the terminal on the screen, to be written.
Unwritten == shown /\ pending # <<>>
=============================================================================
