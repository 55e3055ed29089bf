---------------------------- MODULE EditorPanel -----------------------------
(***************************************************************************)
(* The built-in editor, EditorPanel.tsx, with the calls it waits for        *)
(* (app.go EditorLoadRemote, EditorSaveRemote, EditorSaveLocal, PickFile).  *)
(* While a call is under way the text can be changed, and Enter in the path *)
(* opens a file although the buttons are off.                               *)
(***************************************************************************)
EXTENDS FiniteSets

CONSTANTS
    Paths,                  \* remote files
    Texts,                  \* bound: what the user may have typed
    Calls,                  \* bound: calls under way at once
    Empty                   \* the text of a new file, and its path

VARIABLES
    file,                   \* text of each remote file
    local,                  \* text of the local file saved last
    path, text, dirty,      \* remotePath, content, dirty
    editing,                \* busy
    call,                   \* of each call: kind, stage, path and text it was made with
    upset                   \* observation: the text was changed during a call, or two
                            \* calls ran at once, and no change came in peace since

vars == <<file, local, path, text, dirty, editing, call, upset>>

Kinds == {"load", "save", "saveLocal"}
Stages == {"free", "called", "done", "failed"}
NoCall == [kind |-> "saveLocal", stage |-> "free", path |-> Empty, text |-> Empty]
AllPaths == Paths \cup {Empty}

\* The text a file holds first is the file itself; the user can type any other.
AllTexts == Paths \cup Texts \cup {Empty}

TypeOK ==
    /\ file \in [Paths -> AllTexts] /\ local \in AllTexts
    /\ path \in AllPaths /\ text \in AllTexts
    /\ dirty \in BOOLEAN /\ editing \in BOOLEAN /\ upset \in BOOLEAN
    /\ call \in [Calls -> [kind : Kinds, stage : Stages, path : AllPaths, text : AllTexts]]
    /\ \A c \in Calls : call[c].kind # "saveLocal" => call[c].path \in Paths

Init ==
    /\ file = [p \in Paths |-> p] /\ local = Empty
    /\ path = Empty /\ text = Empty /\ dirty = FALSE /\ editing = FALSE
    /\ call = [c \in Calls |-> NoCall] /\ upset = FALSE

Pending == {c \in Calls : call[c].stage # "free"}

-----------------------------------------------------------------------------
(* The user *)

\* updateContent.
Edit(t) ==
    /\ t # text
    /\ text' = t /\ dirty' = TRUE
    /\ upset' = (Pending # {})
    /\ UNCHANGED <<file, local, path, editing, call>>

EditPath(p) ==
    /\ path' = p
    /\ UNCHANGED <<file, local, text, dirty, editing, call, upset>>

\* newFile; the button is off while busy.  With unsaved text it asks first.
NewFile ==
    /\ ~editing
    /\ text' = Empty /\ path' = Empty /\ dirty' = FALSE
    /\ upset' = (Pending # {})
    /\ UNCHANGED <<file, local, editing, call>>

Begin(c, kind) ==
    /\ call[c].stage = "free"
    /\ call' = [call EXCEPT ![c] = [kind |-> kind, stage |-> "called", path |-> path, text |-> text]]
    /\ editing' = TRUE
    /\ upset' = (upset \/ Pending # {})
    /\ UNCHANGED <<file, local, path, text, dirty>>

\* The button, or Enter in the path: that one works while busy, too.  Without a
\* path nothing is asked for.
LoadRemote(c) == path # Empty /\ Begin(c, "load")

\* The buttons are off while busy, and "save" without a path or a change.
SaveRemote(c) == ~editing /\ path # Empty /\ dirty /\ Begin(c, "save")
SaveLocal(c) == ~editing /\ text # Empty /\ Begin(c, "saveLocal")

-----------------------------------------------------------------------------
(* The back end *)

Execute(c) ==
    /\ call[c].stage = "called"
    /\ \/ /\ call[c].kind = "load"
          /\ call' = [call EXCEPT ![c].stage = "done", ![c].text = file[call[c].path]]
          /\ UNCHANGED <<file, local>>
       \/ /\ call[c].kind = "save"
          /\ call' = [call EXCEPT ![c].stage = "done"]
          /\ file' = [file EXCEPT ![call[c].path] = call[c].text]
          /\ UNCHANGED local
       \/ /\ call[c].kind = "saveLocal"
          /\ call' = [call EXCEPT ![c].stage = "done"]
          /\ local' = call[c].text
          /\ UNCHANGED file
       \/ /\ call' = [call EXCEPT ![c].stage = "failed"]
          /\ UNCHANGED <<file, local>>
    /\ UNCHANGED <<path, text, dirty, editing, upset>>

\* The answer to a call, its "finally" included.  Whatever the text is by now,
\* it counts as saved or loaded.
Answer(c) ==
    /\ call[c].stage = "done"
    /\ call' = [call EXCEPT ![c] = NoCall]
    /\ text' = IF call[c].kind = "load" THEN call[c].text ELSE text
    /\ dirty' = FALSE
    /\ editing' = FALSE
    /\ UNCHANGED <<file, local, path, upset>>

\* Mutant: the flag is cleared in "finally".
FailClean(c) ==
    /\ call[c].stage = "failed"
    /\ call' = [call EXCEPT ![c] = NoCall]
    /\ dirty' = FALSE /\ editing' = FALSE
    /\ UNCHANGED <<file, local, path, text, upset>>

\* An error, or a dialog that was cancelled.
Fail(c) ==
    /\ call[c].stage = "failed"
    /\ call' = [call EXCEPT ![c] = NoCall]
    /\ editing' = FALSE
    /\ UNCHANGED <<file, local, path, text, dirty, upset>>

Next ==
    \/ \E t \in Texts \cup {Empty} : Edit(t)
    \/ \E p \in AllPaths : EditPath(p)
    \/ NewFile
    \/ \E c \in Calls :
         LoadRemote(c) \/ SaveRemote(c) \/ SaveLocal(c) \/ Execute(c) \/ Answer(c) \/ Fail(c)

Spec == Init /\ [][Next]_vars

-----------------------------------------------------------------------------

\* What the editor shows without the mark "unsaved" is stored: in a remote file,
\* or in a local one.  The exceptions are a text that was changed while a call
\* was under way (its answer clears the mark) and two calls at once.
CleanMeansStored ==
    (~dirty /\ ~upset) => text = Empty \/ text = local \/ \E p \in Paths : file[p] = text
=============================================================================
