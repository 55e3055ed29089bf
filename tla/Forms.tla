-------------------------------- MODULE Forms --------------------------------
(***************************************************************************)
(* What the user fills in or edits: the panes of files, the list of transfers, *)
(* the connect form, the lists, the settings and the keys.                    *)
(***************************************************************************)
EXTENDS FrontEndBounds

VARIABLES
    disk, dir, listed, sel, work, unsure,
    status, progress, attached, drop, panels, rdir, policy, queue, timers,
    trusted, pendingKeys, library, formOpen, form, keep, connecting, quick,
    loading, attempt, opened, reached, granted, filledFrom,
    kind, content, used, rows, chosen, clashed, calls, outdated, revived,
    section, field, saved, settled, running, crossing, latest, update,
    localPath, checking, downloading, jobs,
    stored, page, recording, fired

Files == INSTANCE FilePanel
Transfers == INSTANCE TransferList
Connect == INSTANCE ConnectForm
Lists == INSTANCE ListPanels
Settings == INSTANCE SettingsForms
Keyboard == INSTANCE Shortcuts

\* The variables of each.
filesVars == <<disk, dir, listed, sel, work, unsure>>
transfersVars == <<status, progress, attached, drop, panels, rdir, policy, queue, timers>>
connectVars == <<trusted, pendingKeys, library, formOpen, form, keep, connecting, quick,
    loading, attempt, opened, reached, granted, filledFrom>>
listsVars == <<kind, content, used, rows, chosen, clashed, calls, outdated, revived>>
settingsVars == <<section, field, saved, settled, running, crossing, latest, update,
    localPath, checking, downloading, jobs>>
keyboardVars == <<stored, page, recording, fired>>
==============================================================================
