------------------------------ MODULE ListPanels ------------------------------
(***************************************************************************)
(* The panels that show a list the back end keeps and change it one entry   *)
(* at a time: SnippetPanel.tsx, TunnelPanel.tsx, the tasks and credentials   *)
(* of SettingsPage.tsx, the saved sessions of ConnectForm.tsx and the list   *)
(* of AuditPanel.tsx.  None of them is off while a call is under way: calls  *)
(* overlap, and after every change the whole list is read again.             *)
(***************************************************************************)
EXTENDS Naturals, FiniteSets

CONSTANTS
    ListKinds,                  \* the panels: a subset of AllKinds
    Items,                  \* bound: ids ever used
    Calls                   \* bound: calls under way at once

VARIABLES
    kind,                   \* the panel that is open
    content, used,          \* back end: content of each id (0: none), ids ever given
    rows,                   \* the list shown
    chosen,                 \* ids being edited or selected: the form's id (none or one)
    clashed,                \* observation: it was taken from a row that was being deleted
    calls,                  \* calls under way
    outdated,               \* observation: the list shown is from an answer that was
                            \* overtaken, or could not be read
    revived                 \* observation: a save brought back what had been deleted before

vars == <<kind, content, used, rows, chosen, clashed, calls, outdated, revived>>

AllKinds == {"snippets", "tunnels", "tasks", "credentials", "sessions", "audit"}
Ops == {"none", "put", "remove", "clear", "list"}
Content == 0..2
Nothing == [i \in Items |-> 0]

\* late: the list was changed, or read once more, after this answer was made.
\* own: for "remove", the id was in the form.  peace: for "put", the id was not
\* being deleted when the user chose it.
Call == [op : Ops, stage : {"called", "done", "failed"}, item : Items, value : Content,
         list : [Items -> Content], late : BOOLEAN, own : BOOLEAN, peace : BOOLEAN]

Blank == [op |-> "none", stage |-> "called", item |-> CHOOSE i \in Items : TRUE, value |-> 0,
          list |-> Nothing, late |-> FALSE, own |-> FALSE, peace |-> FALSE]
Reading == [Blank EXCEPT !.op = "list"]

TypeOK ==
    /\ kind \in ListKinds /\ ListKinds \subseteq AllKinds
    /\ content \in [Items -> Content] /\ used \subseteq Items /\ rows \in [Items -> Content]
    /\ chosen \subseteq Items /\ Cardinality(chosen) <= 1 /\ clashed \in BOOLEAN
    /\ calls \in [Calls -> Call]
    /\ outdated \in BOOLEAN /\ revived \in BOOLEAN

\* The panel is mounted, which asks for the list.
Init ==
    /\ kind \in ListKinds
    /\ \E S \in SUBSET Items : used = S /\ content = [i \in Items |-> IF i \in S THEN 1 ELSE 0]
    /\ rows = Nothing /\ chosen = {} /\ clashed = FALSE
    /\ calls = [k \in Calls |-> IF k = CHOOSE c \in Calls : TRUE THEN Reading ELSE Blank]
    /\ outdated = TRUE /\ revived = FALSE

Pending == {c \in Calls : calls[c].op # "none"}
Rows == {i \in Items : rows[i] # 0}

\* Its deletion is under way, or the list that shows it may be an old one.
Contested(i) ==
    \/ outdated
    \/ \E c \in Pending : calls[c].op = "list" \/ (calls[c].op = "remove" /\ calls[c].item = i)

-----------------------------------------------------------------------------
(* What can be clicked *)

SnippetRow(i) == kind = "snippets" /\ i \in Rows
TunnelRow(i) == kind = "tunnels" /\ rows[i] = 1           \* the button is off when it is stopped
TaskRow(i) == kind = "tasks" /\ i \in Rows
CredentialRow(i) == kind = "credentials" /\ i \in Rows
SessionOption(i) == kind = "sessions" /\ i \in Rows
AuditRows == kind = "audit" /\ Rows # {}

-----------------------------------------------------------------------------
(* The user *)

Begin(c, call) ==
    /\ calls[c].op = "none"
    /\ calls' = [calls EXCEPT ![c] = call]
    /\ UNCHANGED <<kind, content, rows, outdated, revived>>

Put(i, v, p) == [Blank EXCEPT !.op = "put", !.item = i, !.value = v, !.peace = p]

\* A save without an id: the back end gives it one.
Create(c, i) ==
    /\ i \notin used /\ used' = used \cup {i}
    /\ Begin(c, Put(i, 1, TRUE))
    /\ UNCHANGED <<chosen, clashed>>

StartTunnel(c, i) == kind = "tunnels" /\ Create(c, i)
SaveTask(c, i) == kind = "tasks" /\ Create(c, i)
SaveCredential(c, i) == kind = "credentials" /\ Create(c, i)

\* doSave of a snippet: a new one, or the one in the form.
SaveSnippet(c, i) ==
    /\ kind = "snippets"
    /\ \/ chosen = {} /\ Create(c, i)
       \/ /\ i \in chosen
          /\ \E v \in 1..2 : Begin(c, Put(i, v, ~clashed /\ ~Contested(i)))
          /\ UNCHANGED <<used, chosen, clashed>>

\* startEdit, or the choice in the list of sessions.
Choose(i) ==
    /\ chosen' = {i} /\ clashed' = Contested(i)
    /\ UNCHANGED <<kind, content, used, rows, calls, outdated, revived>>

StartEdit(i) == SnippetRow(i) /\ Choose(i)
SelectSession(i) == SessionOption(i) /\ Choose(i)

CancelEdit ==
    /\ kind = "snippets" /\ chosen # {}
    /\ chosen' = {} /\ clashed' = FALSE
    /\ UNCHANGED <<kind, content, used, rows, calls, outdated, revived>>

\* toggle saves the whole row as it is shown, switched on or off.
ToggleTask(c, i) ==
    /\ TaskRow(i)
    /\ Begin(c, Put(i, 3 - rows[i], ~Contested(i)))
    /\ UNCHANGED <<used, chosen, clashed>>

\* doStop: a stopped tunnel stays in the list.
StopTunnel(c, i) ==
    /\ TunnelRow(i)
    /\ Begin(c, Put(i, 2, TRUE))
    /\ UNCHANGED <<used, chosen, clashed>>

\* moveSelected: it fails for a session that is no longer there.
MoveSelected(c) ==
    /\ kind = "sessions"
    /\ \E i \in chosen : Begin(c, Put(i, 2, FALSE))
    /\ UNCHANGED <<used, chosen, clashed>>

\* A save of the same id that is still under way may come after the deletion.
Delete(c, i) ==
    /\ calls[c].op = "none"
    /\ calls' = [k \in Calls |->
                   IF k = c THEN [Blank EXCEPT !.op = "remove", !.item = i, !.own = (i \in chosen)]
                   ELSE IF calls[k].op = "put" /\ calls[k].item = i THEN [calls[k] EXCEPT !.peace = FALSE]
                   ELSE calls[k]]
    /\ UNCHANGED <<kind, content, used, rows, chosen, clashed, outdated, revived>>

DeleteSnippet(c, i) == SnippetRow(i) /\ Delete(c, i)
DeleteTask(c, i) == TaskRow(i) /\ Delete(c, i)
DeleteCredential(c, i) == CredentialRow(i) /\ Delete(c, i)
DeleteSelected(c) == kind = "sessions" /\ \E i \in chosen : Delete(c, i)

\* doImport: the file keeps the ids it was written with.
ImportSnippets(c, i) ==
    /\ kind = "snippets"
    /\ used' = used \cup {i}
    /\ Begin(c, Put(i, 1, FALSE))
    /\ UNCHANGED <<chosen, clashed>>

\* The buttons of AuditPanel.
RefreshAudit(c) == kind = "audit" /\ Begin(c, Reading) /\ UNCHANGED <<used, chosen, clashed>>
ClearAudit(c) ==
    /\ AuditRows
    /\ Begin(c, [Blank EXCEPT !.op = "clear"])
    /\ UNCHANGED <<used, chosen, clashed>>

-----------------------------------------------------------------------------
(* The back end *)

\* What c does makes the lists read before it old.
Overtake(f, c) ==
    [k \in Calls |-> IF k # c /\ f[k].stage = "done" /\ f[k].op \in {"list", "clear"}
                     THEN [f[k] EXCEPT !.late = TRUE] ELSE f[k]]

Execute(c) ==
    /\ c \in Pending /\ calls[c].stage = "called"
    /\ LET i == calls[c].item
           gone == content[i] = 0
           done == Overtake([calls EXCEPT ![c].stage = "done"], c)
       IN  \/ /\ calls[c].op = "put"
              /\ ~(gone /\ kind \in {"sessions", "tunnels"} /\ calls[c].value = 2)
              /\ content' = [content EXCEPT ![i] = calls[c].value]
              /\ revived' = (revived \/ (gone /\ calls[c].value = 2 /\ calls[c].peace))
              /\ calls' = done
           \/ /\ calls[c].op = "remove"
              /\ content' = [content EXCEPT ![i] = 0]
              /\ calls' = done /\ UNCHANGED revived
           \/ /\ calls[c].op = "clear"
              /\ content' = Nothing
              /\ calls' = done /\ UNCHANGED revived
           \/ /\ calls[c].op = "list"
              /\ calls' = [done EXCEPT ![c].list = content]
              /\ UNCHANGED <<content, revived>>
           \/ /\ calls' = [calls EXCEPT ![c].stage = "failed"]
              /\ UNCHANGED <<content, revived>>
    /\ UNCHANGED <<kind, used, rows, chosen, clashed, outdated>>

\* A connection ends: an entry the panel has not asked for.
Recorded(i) ==
    /\ kind = "audit" /\ i \notin used
    /\ used' = used \cup {i} /\ content' = [content EXCEPT ![i] = 1]
    /\ outdated' = TRUE
    /\ calls' = [k \in Calls |-> IF calls[k].stage = "done" THEN [calls[k] EXCEPT !.late = TRUE] ELSE calls[k]]
    /\ UNCHANGED <<kind, rows, chosen, clashed, revived>>

-----------------------------------------------------------------------------
(* Answers *)

\* A change was made: the list is read again.  A save empties the form, whatever
\* is in it by now; a deletion does if its id was there when it was asked for.
Done(c) ==
    /\ calls[c].stage = "done" /\ calls[c].op \in {"put", "remove"}
    /\ calls' = [calls EXCEPT ![c] = Reading]
    /\ chosen' = IF \/ calls[c].op = "put" /\ kind = "snippets"
                    \/ calls[c].op = "remove" /\ (calls[c].own \/ kind = "sessions")
                 THEN {} ELSE chosen
    /\ clashed' = (clashed /\ chosen' # {})
    /\ UNCHANGED <<kind, content, used, rows, outdated, revived>>

\* refresh shows the answer; after ClearAudit the list is emptied.
Listed(c) ==
    /\ calls[c].stage = "done" /\ calls[c].op \in {"list", "clear"}
    /\ rows' = calls[c].list
    /\ outdated' = calls[c].late
    /\ calls' = [calls EXCEPT ![c] = Blank]
    /\ UNCHANGED <<kind, content, used, chosen, clashed, revived>>

\* The error is shown; the list is not read again.
Fails(c) ==
    /\ calls[c].stage = "failed"
    /\ outdated' = (outdated \/ calls[c].op = "list")
    /\ calls' = [calls EXCEPT ![c] = Blank]
    /\ UNCHANGED <<kind, content, used, rows, chosen, clashed, revived>>

\* refresh of each panel.
RefreshSnippets(c) == kind = "snippets" /\ Listed(c)
RefreshTunnels(c) == kind = "tunnels" /\ Listed(c)
RefreshTasks(c) == kind = "tasks" /\ Listed(c)
RefreshCredentials(c) == kind = "credentials" /\ Listed(c)
RefreshSessions(c) == kind = "sessions" /\ Listed(c)
AuditAnswers(c) == kind = "audit" /\ Listed(c)

Answers(c) ==
    \/ Done(c) \/ Fails(c)
    \/ RefreshSnippets(c) \/ RefreshTunnels(c) \/ RefreshTasks(c) \/ RefreshCredentials(c)
    \/ RefreshSessions(c) \/ AuditAnswers(c)

Next ==
    \/ CancelEdit
    \/ \E i \in Items : StartEdit(i) \/ SelectSession(i) \/ Recorded(i)
    \/ \E c \in Calls :
         \/ MoveSelected(c) \/ DeleteSelected(c) \/ RefreshAudit(c) \/ ClearAudit(c)
         \/ Execute(c) \/ Answers(c)
         \/ \E i \in Items :
              \/ SaveSnippet(c, i) \/ DeleteSnippet(c, i) \/ ImportSnippets(c, i)
              \/ StartTunnel(c, i) \/ StopTunnel(c, i)
              \/ SaveTask(c, i) \/ ToggleTask(c, i) \/ DeleteTask(c, i)
              \/ SaveCredential(c, i) \/ DeleteCredential(c, i)

-----------------------------------------------------------------------------

\* When nothing is under way, the list shown is the list stored, in whatever
\* order the calls were carried out and answered; the exceptions are a list
\* whose answer was overtaken by a later one's, and one that could not be read.
ListsSettle == (Pending = {} /\ ~outdated) => rows = content

\* Nothing that was deleted comes back by a save the user began when no
\* deletion of it was under way: a form that is open when its snippet is deleted
\* is closed with it.
DeletedStaysDeleted == ~revived
=============================================================================
