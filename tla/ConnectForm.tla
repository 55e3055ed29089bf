----------------------------- MODULE ConnectForm ------------------------------
(***************************************************************************)
(* New connections: the form (ConnectForm.tsx) and the quick connections of *)
(* the home view (HomeView.tsx), with app.go Connect, AcceptHostKey,        *)
(* SaveSession and LoadSession.                                             *)
(*                                                                          *)
(* The fields of the form are a host and a set of options; "telnet" hides   *)
(* the others and leaves them as they are.  An attempt keeps the fields it  *)
(* was started with (its closure), and goes on when the form is closed.     *)
(* The confirmation of a host key blocks the window.                        *)
(***************************************************************************)
EXTENDS FiniteSets

CONSTANTS
    Servers,                \* bound: hosts
    Options,                \* "telnet", "strict" (host keys), "via" (jump host or proxy)
    Attempts,               \* bound: attempts
    Saves                   \* bound: stored sessions

NoConfig == [host |-> "none", opts |-> {}]
NoSave == "none"

VARIABLES
    \* back end
    trusted, pendingKeys,   \* known hosts; keys that wait for AcceptHostKey
    library,                \* stored configuration of each session, or NoConfig
    \* front end
    formOpen, form, keep,   \* the form is shown; its fields; "save when connected"
    connecting,             \* connecting of the form
    quick,                  \* connecting of the home view
    loading,                \* sessions LoadSession was asked for by the form
    attempt,                \* of each attempt: stage, configuration, keep, origin
    opened,                 \* attempts that have a tab
    \* observation
    reached, granted,       \* configurations that connected; hosts the user confirmed
                            \* or "accept-new" reached
    filledFrom              \* the session the form was filled from, if not edited since

backEnd == <<trusted, pendingKeys, library>>
observed == <<reached, granted, filledFrom>>
vars == <<backEnd, formOpen, form, keep, connecting, quick, loading, attempt, opened, observed>>

Configs == [host : Servers, opts : SUBSET Options]
AnyConfig == Configs \cup {NoConfig}
Idle == [stage |-> "idle", cfg |-> NoConfig, keep |-> FALSE, from |-> "form"]

TypeOK ==
    /\ trusted \subseteq Servers /\ pendingKeys \subseteq Servers /\ granted \subseteq Servers
    /\ library \in [Saves -> AnyConfig] /\ loading \subseteq Saves
    /\ formOpen \in BOOLEAN /\ form \in Configs /\ keep \in BOOLEAN /\ connecting \in BOOLEAN
    /\ quick \in Saves \cup {NoSave} /\ filledFrom \in Saves \cup {NoSave}
    /\ attempt \in [Attempts -> [stage : {"idle", "loading", "dialing", "accepting", "retrying", "saving", "over"},
                                 cfg : AnyConfig, keep : BOOLEAN, from : {"form", "gone"} \cup Saves]]
    /\ opened \subseteq Attempts /\ reached \subseteq Configs

Blank == [host |-> CHOOSE h \in Servers : TRUE, opts |-> {}]

Init ==
    /\ trusted = {} /\ pendingKeys = {} /\ library = [s \in Saves |-> NoConfig]
    /\ formOpen = FALSE /\ form = Blank /\ keep = FALSE /\ connecting = FALSE
    /\ quick = NoSave /\ loading = {}
    /\ attempt = [a \in Attempts |-> Idle] /\ opened = {}
    /\ reached = {} /\ granted = {} /\ filledFrom = NoSave

-----------------------------------------------------------------------------
(* The form *)

OpenForm ==
    /\ ~formOpen /\ formOpen' = TRUE
    /\ UNCHANGED <<backEnd, form, keep, connecting, quick, loading, attempt, opened, observed>>

\* Attempts of a form that is closed set nothing any more when they end.
Orphaned == [a \in Attempts |->
    IF attempt[a] # Idle /\ attempt[a].from = "form"
    THEN [attempt[a] EXCEPT !.from = "gone"] ELSE attempt[a]]

Unmounted ==
    /\ formOpen' = FALSE /\ connecting' = FALSE /\ loading' = {}
    /\ form' = Blank /\ keep' = FALSE /\ filledFrom' = NoSave

CancelForm ==
    /\ formOpen
    /\ Unmounted /\ attempt' = Orphaned
    /\ UNCHANGED <<backEnd, quick, opened, reached, granted>>

Shown(o, f) == o = "telnet" \/ "telnet" \notin f.opts

\* Fields that are shown are changed.
Edit(f) ==
    /\ formOpen /\ f # form
    /\ \A o \in Options : Shown(o, form) \/ Shown(o, f) \/ (o \in f.opts <=> o \in form.opts)
    /\ form' = f /\ filledFrom' = NoSave
    /\ UNCHANGED <<backEnd, formOpen, keep, connecting, quick, loading, attempt, opened, reached, granted>>

SetKeep ==
    /\ formOpen /\ Shown("keep", form) /\ keep' = ~keep
    /\ UNCHANGED <<backEnd, formOpen, form, connecting, quick, loading, attempt, opened, observed>>

\* loadSelected; and its answer, which fills every field.
LoadSelected(s) ==
    /\ formOpen /\ library[s] # NoConfig /\ s \notin loading
    /\ loading' = loading \cup {s}
    /\ UNCHANGED <<backEnd, formOpen, form, keep, connecting, quick, attempt, opened, observed>>

Filled(s) ==
    /\ s \in loading /\ loading' = loading \ {s}
    /\ IF library[s] = NoConfig THEN UNCHANGED <<form, filledFrom>>
       ELSE form' = library[s] /\ filledFrom' = s
    /\ UNCHANGED <<backEnd, formOpen, keep, connecting, quick, attempt, opened, reached, granted>>

DeleteSelected(s) ==
    /\ formOpen /\ library[s] # NoConfig
    /\ library' = [library EXCEPT ![s] = NoConfig]
    /\ filledFrom' = IF filledFrom = s THEN NoSave ELSE filledFrom
    /\ UNCHANGED <<trusted, pendingKeys, formOpen, form, keep, connecting, quick, loading, attempt, opened, reached, granted>>

-----------------------------------------------------------------------------
(* Attempts *)

\* connect: the button is off while one is under way.
Connect(a) ==
    /\ formOpen /\ ~connecting /\ attempt[a] = Idle
    /\ connecting' = TRUE
    /\ attempt' = [attempt EXCEPT ![a] = [stage |-> "dialing", cfg |-> form, keep |-> keep, from |-> "form"]]
    /\ UNCHANGED <<backEnd, formOpen, form, keep, quick, loading, opened, observed>>

\* quickConnect on a card of the home view, which nothing keeps from being
\* clicked again; the home view is there while no tab is open.
QuickConnect(a, s) ==
    /\ ~formOpen /\ opened = {} /\ attempt[a] = Idle /\ library[s] # NoConfig
    /\ quick' = s
    /\ attempt' = [attempt EXCEPT ![a] = [Idle EXCEPT !.stage = "loading", !.from = s]]
    /\ UNCHANGED <<backEnd, formOpen, form, keep, connecting, loading, opened, observed>>

QuickLoaded(a) ==
    /\ attempt[a].stage = "loading"
    /\ LET cfg == library[attempt[a].from]
       IN  /\ attempt' = [attempt EXCEPT ![a].cfg = cfg,
                                         ![a].stage = IF cfg = NoConfig THEN "over" ELSE "dialing"]
           /\ quick' = IF cfg = NoConfig THEN NoSave ELSE quick
    /\ UNCHANGED <<backEnd, formOpen, form, keep, connecting, loading, opened, observed>>

Dialing(a) == attempt[a].stage \in {"dialing", "retrying"}
NeedsKey(c) == "strict" \in c.opts /\ "telnet" \notin c.opts /\ c.host \notin trusted

\* What the end of attempt a frees: the form it is of, or the home view.
Freed(a) ==
    /\ connecting' = (connecting /\ attempt[a].from # "form")
    /\ quick' = IF attempt[a].from \in Saves THEN NoSave ELSE quick

\* Connect succeeds; a host met first is trusted from here on.  onConnected
\* closes the form, whichever it is, and the tab replaces the home view;
\* SaveSession is not waited for.
Connected(a) ==
    /\ Dialing(a) /\ ~NeedsKey(attempt[a].cfg)
    /\ LET c == attempt[a].cfg
       IN  /\ trusted' = IF "telnet" \in c.opts THEN trusted ELSE trusted \cup {c.host}
           /\ reached' = reached \cup {c}
           /\ granted' = IF "strict" \in c.opts THEN granted ELSE granted \cup {c.host}
    /\ opened' = opened \cup {a} /\ quick' = NoSave
    /\ Unmounted
    /\ attempt' = [Orphaned EXCEPT ![a].stage = IF attempt[a].keep THEN "saving" ELSE "over"]
    /\ UNCHANGED <<pendingKeys, library>>

\* The host key is not known: it is kept, and the user asked (the home view
\* shows the message only).  A retry asks no second time.
Unverified(a) ==
    /\ Dialing(a) /\ NeedsKey(attempt[a].cfg)
    /\ LET h == attempt[a].cfg.host
       IN  /\ pendingKeys' = pendingKeys \cup {h}
           /\ \/ /\ attempt[a].stage = "dialing" /\ attempt[a].from \notin Saves
                 /\ granted' = granted \cup {h}
                 /\ attempt' = [attempt EXCEPT ![a].stage = "accepting"]
                 /\ UNCHANGED <<connecting, quick>>
              \/ /\ attempt' = [attempt EXCEPT ![a].stage = "over"]
                 /\ Freed(a) /\ UNCHANGED granted
    /\ UNCHANGED <<trusted, library, formOpen, form, keep, loading, opened, reached, filledFrom>>

\* Any other error.
ConnectFails(a) ==
    /\ Dialing(a)
    /\ attempt' = [attempt EXCEPT ![a].stage = "over"] /\ Freed(a)
    /\ UNCHANGED <<backEnd, formOpen, form, keep, loading, opened, observed>>

\* Mutant: the error of AcceptHostKey leaves the form as it is.
AcceptHostKeyBusy(a) ==
    /\ attempt[a].stage = "accepting"
    /\ LET h == attempt[a].cfg.host
       IN  /\ pendingKeys' = pendingKeys \ {h}
           /\ \/ /\ h \in pendingKeys /\ trusted' = trusted \cup {h}
                 /\ attempt' = [attempt EXCEPT ![a].stage = "retrying"]
              \/ /\ attempt' = [attempt EXCEPT ![a].stage = "over"]
                 /\ UNCHANGED trusted
    /\ UNCHANGED <<library, formOpen, form, keep, connecting, quick, loading, opened, observed>>

\* AcceptHostKey of the confirmed host, then the retry with the same fields; it
\* fails when no key waits any more, or when it cannot be written.
AcceptHostKey(a) ==
    /\ attempt[a].stage = "accepting"
    /\ LET h == attempt[a].cfg.host
       IN  /\ pendingKeys' = pendingKeys \ {h}
           /\ \/ /\ h \in pendingKeys /\ trusted' = trusted \cup {h}
                 /\ attempt' = [attempt EXCEPT ![a].stage = "retrying"]
                 /\ UNCHANGED <<connecting, quick>>
              \/ /\ attempt' = [attempt EXCEPT ![a].stage = "over"]
                 /\ Freed(a) /\ UNCHANGED trusted
    /\ UNCHANGED <<library, formOpen, form, keep, loading, opened, observed>>

\* Mutant: the fields are read again when the session is stored.
SaveForm(a, s) ==
    /\ attempt[a].stage = "saving" /\ library[s] = NoConfig
    /\ library' = [library EXCEPT ![s] = form]
    /\ attempt' = [attempt EXCEPT ![a].stage = "over"]
    /\ UNCHANGED <<trusted, pendingKeys, formOpen, form, keep, connecting, quick, loading, opened, observed>>

\* SaveSession, always as a new session.
SaveSession(a, s) ==
    /\ attempt[a].stage = "saving" /\ library[s] = NoConfig
    /\ library' = [library EXCEPT ![s] = attempt[a].cfg]
    /\ attempt' = [attempt EXCEPT ![a].stage = "over"]
    /\ UNCHANGED <<trusted, pendingKeys, formOpen, form, keep, connecting, quick, loading, opened, observed>>

\* The tabs are closed, and the attempts are free for more.
CloseTab(a) ==
    /\ attempt[a].stage = "over"
    /\ attempt' = [attempt EXCEPT ![a] = Idle] /\ opened' = opened \ {a}
    /\ UNCHANGED <<backEnd, formOpen, form, keep, connecting, quick, loading, observed>>

Next ==
    \/ OpenForm \/ CancelForm \/ SetKeep
    \/ \E f \in Configs : Edit(f)
    \/ \E s \in Saves : LoadSelected(s) \/ Filled(s) \/ DeleteSelected(s)
    \/ \E a \in Attempts :
         \/ Connect(a) \/ QuickLoaded(a) \/ Connected(a) \/ Unverified(a) \/ ConnectFails(a)
         \/ AcceptHostKey(a) \/ CloseTab(a)
         \/ \E s \in Saves : QuickConnect(a, s) \/ SaveSession(a, s)

-----------------------------------------------------------------------------

\* What is stored is a configuration that has connected, whatever was typed
\* into the form, or loaded, while the attempt was under way.
SavedIsConnected == \A s \in Saves : library[s] \in reached \cup {NoConfig}

\* A form that was filled from a stored session, and not edited, connects with
\* what is stored: nothing of what it showed before, hidden or not, is left.
FilledIsStored == (formOpen /\ filledFrom # NoSave) => form = library[filledFrom]

\* A host is trusted because the user said so, or because a connection without
\* "strict" reached it; never through an attempt that was refused.
TrustIsGiven == trusted \subseteq granted
=============================================================================
