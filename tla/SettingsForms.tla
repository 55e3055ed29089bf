----------------------------- MODULE SettingsForms -----------------------------
(***************************************************************************)
(* The sections of SettingsPage.tsx that wait for the back end: the forms    *)
(* (alerts, AI) that are read when they are mounted and saved by a button,    *)
(* the sections whose buttons share one busy flag (cloud sync, Vault), and    *)
(* the update of the program.  Going to another section unmounts the old      *)
(* one: its calls go on, their answers are dropped.                           *)
(***************************************************************************)
EXTENDS Naturals, FiniteSets

CONSTANTS
    Sections,               \* sections that can be opened: a subset of AllSections
    Versions,               \* bound: releases, from 1
    Calls                   \* bound: calls under way at once

VARIABLES
    section,                \* the section shown
    field,                  \* of each form, what it shows: a threshold, a limit
    saved,                  \* back end: what is stored
    settled,                \* observation: nothing was changed or asked since the form
                            \* was read or saved in peace
    running,                \* busy
    crossing,               \* observation: a call went on in the background
    latest,                 \* the newest release
    update, localPath,      \* of AboutSection: version offered, version downloaded (0: none)
    checking, downloading,
    jobs                    \* calls under way

vars == <<section, field, saved, settled, running, crossing, latest, update, localPath,
          checking, downloading, jobs>>
aboutVars == <<update, localPath, checking, downloading>>

AllSections == {"closed", "appearance", "ai", "alerts", "sync", "vault", "about"}
Forms == {"alerts", "ai"}
Default == 1
BusyOps == {"sync", "vault"}
Ops == {"none", "load", "save", "revoke", "check", "download"} \cup BusyOps
Values == 0..2

\* mine: the section that asked is still mounted.  peace: no other call of the
\* form was under way, and the form was not changed after it was asked.
Job == [op : Ops, form : Forms, stage : {"called", "done", "failed"}, value : Values \cup 0..Versions,
        mine : BOOLEAN, peace : BOOLEAN]
Free == [op |-> "none", form |-> "ai", stage |-> "called", value |-> 0, mine |-> FALSE, peace |-> FALSE]

TypeOK ==
    /\ Sections \subseteq AllSections /\ section \in Sections
    /\ field \in [Forms -> Values] /\ saved \in [Forms -> Values] /\ settled \in [Forms -> BOOLEAN]
    /\ running \in BOOLEAN /\ crossing \in BOOLEAN
    /\ latest \in 1..Versions /\ update \in 0..Versions /\ localPath \in 0..Versions
    /\ checking \in BOOLEAN /\ downloading \in BOOLEAN
    /\ jobs \in [Calls -> Job]

Init ==
    /\ section = "closed"
    /\ field = [f \in Forms |-> Default]
    /\ saved = [f \in Forms |-> IF f = "ai" THEN Default ELSE 0]      \* no alerts configured
    /\ settled = [f \in Forms |-> FALSE]
    /\ running = FALSE /\ crossing = FALSE
    /\ latest = 1 /\ update = 0 /\ localPath = 0 /\ checking = FALSE /\ downloading = FALSE
    /\ jobs = [c \in Calls |-> Free]

Pending == {c \in Calls : jobs[c].op # "none"}
OfForm(f) == {c \in Pending : jobs[c].op \in {"load", "save"} /\ jobs[c].form = f}

\* jobs with one more, for a form or not.
With(js, c, op, f, v) ==
    [k \in Calls |->
       IF k = c THEN [op |-> op, form |-> f, stage |-> "called", value |-> v, mine |-> TRUE,
                      peace |-> OfForm(f) = {}]
       ELSE IF op \in {"load", "save"} /\ k \in OfForm(f) THEN [js[k] EXCEPT !.peace = FALSE]
       ELSE js[k]]

Asks(c, op, f, v) == jobs[c].op = "none" /\ jobs' = With(jobs, c, op, f, v)

-----------------------------------------------------------------------------
(* Navigation *)

\* The page opens at its first section, and reads the AI settings.
OpenPage(c) ==
    /\ section = "closed"
    /\ section' = "appearance"
    /\ field' = [field EXCEPT !["ai"] = Default] /\ settled' = [settled EXCEPT !["ai"] = FALSE]
    /\ Asks(c, "load", "ai", 0)
    /\ UNCHANGED <<saved, running, crossing, latest, aboutVars>>

\* Another section, or back to the terminals.  The AI form is the page's own.
Goto(c, s) ==
    /\ section # "closed" /\ s # section /\ section' = s
    /\ LET left == [k \in Calls |->
               [jobs[k] EXCEPT !.mine = @ /\ jobs[k].form = "ai" /\ jobs[k].op \in {"load", "save"} /\ s # "closed"]]
       IN  IF s = "alerts"
           THEN /\ jobs[c].op = "none" /\ jobs' = With(left, c, "load", "alerts", 0)
                /\ field' = [field EXCEPT !["alerts"] = Default]
                /\ settled' = [settled EXCEPT !["alerts"] = FALSE]
           ELSE /\ jobs' = left /\ UNCHANGED field
                /\ settled' = [f \in Forms |-> settled[f] /\ f = "ai" /\ s # "closed"]
    /\ running' = FALSE /\ crossing' = (Pending # {})
    /\ update' = 0 /\ localPath' = 0 /\ checking' = FALSE /\ downloading' = FALSE
    /\ UNCHANGED <<saved, latest>>

-----------------------------------------------------------------------------
(* Forms *)

EditField(f, v) ==
    /\ section = f /\ v # field[f]
    /\ field' = [field EXCEPT ![f] = v] /\ settled' = [settled EXCEPT ![f] = FALSE]
    /\ jobs' = [k \in Calls |-> IF k \in OfForm(f) /\ jobs[k].op = "save"
                                THEN [jobs[k] EXCEPT !.peace = FALSE] ELSE jobs[k]]
    /\ UNCHANGED <<section, saved, running, crossing, latest, aboutVars>>

\* The thresholds of the alerts can be set to 0; the limit of the AI cannot.
EditThreshold(v) == EditField("alerts", v)
EditAiLimit(v) == v > 0 /\ EditField("ai", v)

SaveForm(c, f) ==
    /\ section = f
    /\ Asks(c, "save", f, field[f])
    /\ settled' = [settled EXCEPT ![f] = FALSE]
    /\ UNCHANGED <<section, field, saved, running, crossing, latest, aboutVars>>

\* save of AlertSection, and saveAi: that one does not wait for AiConfigure, so
\* its answer is only an observation.
SaveAlerts(c) == SaveForm(c, "alerts")
SaveAi(c) == SaveForm(c, "ai")

\* refresh of AlertSection, and the effect that reads the AI settings: a stored
\* zero is shown as the default.
Shows(v) == IF v = 0 THEN Default ELSE v

LoadAnswers(c, f) ==
    /\ jobs[c].op = "load" /\ jobs[c].form = f /\ jobs[c].stage = "done" /\ jobs[c].mine
    /\ field' = [field EXCEPT ![f] = Shows(jobs[c].value)]
    /\ settled' = [settled EXCEPT ![f] = jobs[c].peace]
    /\ jobs' = [jobs EXCEPT ![c] = Free]
    /\ UNCHANGED <<section, saved, running, crossing, latest, aboutVars>>

AlertsLoaded(c) == LoadAnswers(c, "alerts")
AiLoaded(c) == LoadAnswers(c, "ai")

SaveAnswers(c) ==
    /\ jobs[c].op = "save" /\ jobs[c].stage = "done" /\ jobs[c].mine
    /\ settled' = [settled EXCEPT ![jobs[c].form] = jobs[c].peace]
    /\ jobs' = [jobs EXCEPT ![c] = Free]
    /\ UNCHANGED <<section, field, saved, running, crossing, latest, aboutVars>>

-----------------------------------------------------------------------------
(* Sections with one busy flag *)

Run(c, op) ==
    /\ Asks(c, op, "ai", 0)
    /\ running' = TRUE
    /\ UNCHANGED <<section, field, saved, settled, latest, aboutVars>>

\* The buttons that are off while busy.
SyncButtons == section = "sync" /\ ~running
VaultButtons == section = "vault" /\ ~running

\* run: register, log in, push, pull.
SyncRun(c) == SyncButtons /\ Run(c, "sync") /\ UNCHANGED crossing

\* The button of a device is never off: its end frees the others' buttons too.
RevokeDevice(c) == section = "sync" /\ Run(c, "revoke") /\ crossing' = (crossing \/ Pending # {})

DoExport(c) == VaultButtons /\ Run(c, "vault") /\ UNCHANGED crossing
DoImport(c) == VaultButtons /\ Run(c, "vault") /\ UNCHANGED crossing

\* "finally".
RunEnds(c) ==
    /\ jobs[c].op \in BusyOps \cup {"revoke"} /\ jobs[c].mine
    /\ jobs[c].stage \in {"done", "failed"}
    /\ running' = FALSE
    /\ jobs' = [jobs EXCEPT ![c] = Free]
    /\ UNCHANGED <<section, field, saved, settled, crossing, latest, aboutVars>>

-----------------------------------------------------------------------------
(* AboutSection *)

Publish ==
    /\ latest < Versions /\ latest' = latest + 1
    /\ UNCHANGED <<section, field, saved, settled, running, crossing, aboutVars, jobs>>

CheckButton == section = "about" /\ ~checking /\ ~downloading
DownloadButton == section = "about" /\ update # 0 /\ ~downloading /\ localPath = 0

\* check: what was offered, or downloaded, is forgotten first.
Check(c) ==
    /\ CheckButton
    /\ checking' = TRUE /\ update' = 0 /\ localPath' = 0
    /\ Asks(c, "check", "ai", 0)
    /\ UNCHANGED <<section, field, saved, settled, running, crossing, latest, downloading>>

CheckAnswers(c) ==
    /\ jobs[c].op = "check" /\ jobs[c].stage \in {"done", "failed"} /\ jobs[c].mine
    /\ update' = jobs[c].value /\ checking' = FALSE
    /\ jobs' = [jobs EXCEPT ![c] = Free]
    /\ UNCHANGED <<section, field, saved, settled, running, crossing, latest, localPath, downloading>>

Download(c) ==
    /\ DownloadButton
    /\ downloading' = TRUE
    /\ Asks(c, "download", "ai", update)
    /\ UNCHANGED <<section, field, saved, settled, running, crossing, latest, update, localPath, checking>>

DownloadAnswers(c) ==
    /\ jobs[c].op = "download" /\ jobs[c].stage \in {"done", "failed"} /\ jobs[c].mine
    /\ localPath' = IF jobs[c].stage = "done" THEN jobs[c].value ELSE localPath
    /\ downloading' = FALSE
    /\ jobs' = [jobs EXCEPT ![c] = Free]
    /\ UNCHANGED <<section, field, saved, settled, running, crossing, latest, update, checking>>

-----------------------------------------------------------------------------
(* The back end *)

\* A check that fails says that there is no update; AiConfigure and AiStatus
\* cannot fail.
Execute(c) ==
    /\ c \in Pending /\ jobs[c].stage = "called"
    /\ \/ /\ jobs[c].op = "save" /\ saved' = [saved EXCEPT ![jobs[c].form] = jobs[c].value]
          /\ jobs' = [jobs EXCEPT ![c].stage = "done"]
       \/ /\ jobs[c].op = "load" /\ jobs' = [jobs EXCEPT ![c].stage = "done", ![c].value = saved[jobs[c].form]]
          /\ UNCHANGED saved
       \/ /\ jobs[c].op = "check" /\ jobs' = [jobs EXCEPT ![c].stage = "done", ![c].value = latest]
          /\ UNCHANGED saved
       \/ /\ jobs[c].op \in BusyOps \cup {"revoke", "download"} /\ jobs' = [jobs EXCEPT ![c].stage = "done"]
          /\ UNCHANGED saved
       \/ /\ jobs[c].op \in {"load", "save"} => jobs[c].form # "ai"
          /\ jobs' = [jobs EXCEPT ![c].stage = "failed"]
          /\ UNCHANGED saved
    /\ UNCHANGED <<section, field, settled, running, crossing, latest, aboutVars>>

\* The error of a form is shown.
FormFails(c) ==
    /\ jobs[c].stage = "failed" /\ jobs[c].mine /\ jobs[c].op \in {"load", "save"}
    /\ jobs' = [jobs EXCEPT ![c] = Free]
    /\ UNCHANGED <<section, field, saved, settled, running, crossing, latest, aboutVars>>

\* An answer for a section that is gone.
Dropped(c) ==
    /\ c \in Pending /\ jobs[c].stage # "called" /\ ~jobs[c].mine
    /\ jobs' = [jobs EXCEPT ![c] = Free]
    /\ UNCHANGED <<section, field, saved, settled, running, crossing, latest, aboutVars>>

Answers(c) ==
    \/ AlertsLoaded(c) \/ AiLoaded(c) \/ SaveAnswers(c) \/ FormFails(c)
    \/ RunEnds(c) \/ CheckAnswers(c) \/ DownloadAnswers(c) \/ Dropped(c)

Next ==
    \/ Publish
    \/ \E v \in Values : EditThreshold(v) \/ EditAiLimit(v)
    \/ \E c \in Calls :
         \/ OpenPage(c) \/ SaveAlerts(c) \/ SaveAi(c)
         \/ SyncRun(c) \/ RevokeDevice(c) \/ DoExport(c) \/ DoImport(c) \/ Check(c) \/ Download(c)
         \/ Execute(c) \/ Answers(c)
         \/ \E s \in Sections : Goto(c, s)

-----------------------------------------------------------------------------

\* A form that nobody has changed since it was read or saved shows what is
\* stored, whichever calls of forms left behind are still on their way; except
\* where 0 is stored, which is shown as the default.
FormsAreStored ==
    \A f \in Forms : settled[f] => saved[f] = field[f] \/ saved[f] = 0

\* The installer that "apply" would start is of the version the section offers.
InstallerIsOffered == localPath # 0 => localPath = update

\* Two of the calls that share a busy flag never run at once, unless a device
\* was revoked meanwhile or the section was left and opened again.
OneRunAtATime ==
    ~crossing => Cardinality({c \in Pending : jobs[c].op \in BusyOps /\ jobs[c].mine}) <= 1
=============================================================================
