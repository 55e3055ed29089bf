------------------------------- MODULE Shortcuts -------------------------------
(***************************************************************************)
(* Keyboard shortcuts: shortcuts.ts, the page of SettingsPage.tsx that sets  *)
(* them and the handler of App.tsx that obeys them.  The page has a copy of   *)
(* its own; the handler reads the stored map at every key.                    *)
(***************************************************************************)
EXTENDS Naturals, FiniteSets, SequencesExt

CONSTANTS
    Actions,                \* SHORTCUT_ACTIONS, in the order the handler tries them
    Keys,                   \* bound: combinations the user presses
    Defaults                \* the combination of each action at first

VARIABLES
    stored,                 \* localStorage: {} or {map}
    page,                   \* shortcutMap while the page is open: {} or {map}
    recording,              \* the action that is being given a key: none or one
    fired                   \* what the last key did: none, or <<key, action>>

vars == <<stored, page, recording, fired>>

Names == Range(Actions)
Maps == [Names -> SUBSET Keys]

TypeOK ==
    /\ stored \subseteq Maps /\ Cardinality(stored) <= 1
    /\ page \subseteq Maps /\ Cardinality(page) <= 1
    /\ recording \subseteq Names /\ Cardinality(recording) <= 1
    /\ fired \subseteq Keys \X Names /\ Cardinality(fired) <= 1

Init == stored = {} /\ page = {} /\ recording = {} /\ fired = {}

defaultShortcuts == [a \in Names |-> {Defaults[a]}]

\* An action that has no key left has its default again.
loadShortcuts ==
    [a \in Names |-> LET m == UNION {saved[a] : saved \in stored} IN IF m = {} THEN {Defaults[a]} ELSE m]

saveShortcuts(map) == stored' = {map} /\ page' = {map}

-----------------------------------------------------------------------------
(* The page *)

OpenShortcuts ==
    /\ page = {} /\ page' = {loadShortcuts}
    /\ UNCHANGED <<stored, recording, fired>>

CloseShortcuts ==
    /\ page # {} /\ page' = {} /\ recording' = {}
    /\ UNCHANGED <<stored, fired>>

\* The button of an action: starts recording, or ends it.
Record(a) ==
    /\ page # {}
    /\ recording' = {a} \ recording
    /\ UNCHANGED <<stored, page, fired>>

\* The listener of the page comes before the one of the window.
KeyRecorded(k) ==
    /\ \E map \in page, a \in recording : saveShortcuts([map EXCEPT ![a] = @ \cup {k}])
    /\ recording' = {}
    /\ UNCHANGED fired

\* Esc; a modifier alone is waited out.
RecordingCancelled ==
    /\ recording # {} /\ recording' = {}
    /\ UNCHANGED <<stored, page, fired>>

RemoveKey(a, k) ==
    /\ \E map \in page : k \in map[a] /\ saveShortcuts([map EXCEPT ![a] = @ \ {k}])
    /\ UNCHANGED <<recording, fired>>

ResetShortcuts ==
    /\ page # {} /\ saveShortcuts(defaultShortcuts)
    /\ UNCHANGED <<recording, fired>>

-----------------------------------------------------------------------------
(* The window *)

matchShortcut(k, a, map) == k \in map[a]

\* The handler obeys the first action that has the key.
KeyPressed(k) ==
    /\ recording = {}
    /\ \E i \in DOMAIN Actions :
         /\ matchShortcut(k, Actions[i], loadShortcuts)
         /\ \A j \in DOMAIN Actions : j < i => ~matchShortcut(k, Actions[j], loadShortcuts)
         /\ fired' = {<<k, Actions[i]>>}
    /\ UNCHANGED <<stored, page, recording>>

Next ==
    \/ OpenShortcuts \/ CloseShortcuts \/ RecordingCancelled \/ ResetShortcuts
    \/ \E a \in Names : Record(a) \/ \E k \in Keys : RemoveKey(a, k)
    \/ \E k \in Keys : KeyRecorded(k) \/ KeyPressed(k)

-----------------------------------------------------------------------------

\* While the page is open it shows the keys the window obeys, also after it was
\* closed and opened again; except for an action whose last key was removed:
\* that one is shown without a key, and keeps its default.
KeysShownWork ==
    \A map \in page, a \in Names : map[a] # {} => map[a] = loadShortcuts[a]
=============================================================================
