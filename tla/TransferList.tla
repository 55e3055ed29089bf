----------------------------- MODULE TransferList -----------------------------
(***************************************************************************)
(* The transfer queue and the drop target of the file managers,             *)
(* FilePanel.tsx: there is one panel for every open session, shown or not,  *)
(* and they share the listeners of the window.  EventsOff takes the         *)
(* listeners of all panels away, and the runtime keeps one drop handler: a  *)
(* second registration is ignored, and switching it off removes whoever's   *)
(* it is.                                                                   *)
(***************************************************************************)
EXTENDS Naturals, FiniteSets, SequencesExt

CONSTANTS
    Hosts,                  \* the sessions, each with its panel
    Places,                 \* bound: remote directories
    Uploads                 \* bound: transfers

VARIABLES
    \* back end (engine.go, as TransferEngine has it in detail)
    status,                 \* of each transfer: "none", "running", "ended"
    progress,               \* sftp-progress events on their way: <<transfer, status>>
    \* the window
    attached,               \* panels whose listener is registered
    drop,                   \* the registered drop handler: panel, directory, policy; or {}
    \* each panel
    panels,                 \* panels mounted
    rdir, policy,           \* remoteDir and conflict
    queue,                  \* transfers: what the list shows
    timers                  \* removals that wait: <<panel, transfer>>

serverVars == <<status, progress>>
vars == <<serverVars, attached, drop, panels, rdir, policy, queue, timers>>

Policies == {"overwrite", "rename"}
Handlers == [host : Hosts, at : Places, policy : Policies]

TypeOK ==
    /\ status \in [Uploads -> {"none", "running", "ended"}]
    /\ Range(progress) \subseteq Uploads \X {"running", "ended"}
    /\ attached \subseteq panels /\ panels \subseteq Hosts /\ drop \subseteq Handlers
    /\ rdir \in [Hosts -> Places] /\ policy \in [Hosts -> Policies]
    /\ queue \in [Hosts -> [Uploads -> {"none", "running", "ended"}]]
    /\ timers \subseteq Hosts \X Uploads

\* The remoteDir of a panel that has listed nothing yet.
Fresh == CHOOSE d \in Places : TRUE
NoEntries == [t \in Uploads |-> "none"]

Init ==
    /\ status = [t \in Uploads |-> "none"] /\ progress = <<>>
    /\ attached = {} /\ drop = {} /\ panels = {}
    /\ rdir = [h \in Hosts |-> Fresh] /\ policy = [h \in Hosts |-> "overwrite"]
    /\ queue = [h \in Hosts |-> NoEntries] /\ timers = {}

Handler(h, d, c) == [host |-> h, at |-> d, policy |-> c]

-----------------------------------------------------------------------------
(* Effects *)

\* A session is opened: the listener, and the drop handler if nobody has one.
Mount(h) ==
    /\ h \notin panels /\ panels' = panels \cup {h}
    /\ attached' = attached \cup {h}
    /\ drop' = IF drop = {} THEN {Handler(h, rdir[h], policy[h])} ELSE drop
    /\ UNCHANGED <<serverVars, rdir, policy, queue, timers>>

\* It is closed: EventsOff and OnFileDropOff, which are for the whole window.
Unmount(h) ==
    /\ h \in panels /\ panels' = panels \ {h}
    /\ attached' = {} /\ drop' = {}
    /\ rdir' = [rdir EXCEPT ![h] = Fresh] /\ policy' = [policy EXCEPT ![h] = "overwrite"]
    /\ queue' = [queue EXCEPT ![h] = NoEntries]
    /\ timers' = {r \in timers : r[1] # h}
    /\ UNCHANGED serverVars

\* A listing is shown, or the policy chosen: the effect runs again, off and on.
ShowDir(h, d) ==
    /\ h \in panels /\ d # rdir[h]
    /\ rdir' = [rdir EXCEPT ![h] = d]
    /\ drop' = {Handler(h, d, policy[h])}
    /\ UNCHANGED <<serverVars, attached, panels, policy, queue, timers>>

SetConflict(h, c) ==
    /\ h \in panels /\ c # policy[h]
    /\ policy' = [policy EXCEPT ![h] = c]
    /\ drop' = {Handler(h, rdir[h], c)}
    /\ UNCHANGED <<serverVars, attached, panels, rdir, queue, timers>>

-----------------------------------------------------------------------------
(* Transfers *)

Begins(t) ==
    /\ status[t] = "none"
    /\ status' = [status EXCEPT ![t] = "running"]
    /\ progress' = Append(progress, <<t, "running">>)
    /\ UNCHANGED <<attached, drop, panels, rdir, policy, queue, timers>>

\* doUpload and uploadFromDialog; the other way, doDownload.
Upload(h, t) == h \in panels /\ Begins(t)
Download(h, t) == h \in panels /\ Begins(t)

\* Files are dropped on a panel: the registered handler takes them, whichever
\* panel that is.
Drop(t) == drop # {} /\ Begins(t)

\* It is done, has failed, or was cancelled.
Ends(t) ==
    /\ status[t] = "running"
    /\ status' = [status EXCEPT ![t] = "ended"]
    /\ progress' = Append(progress, <<t, "ended">>)
    /\ UNCHANGED <<attached, drop, panels, rdir, policy, queue, timers>>

\* cancelTask: the engine stops at the next chunk, and says so by an event.
CancelTask(h, t) == h \in panels /\ queue[h][t] = "running" /\ Ends(t)

\* The listeners; the render that follows starts a timer for every entry that
\* is not running.
OnProgress ==
    /\ progress # <<>> /\ progress' = Tail(progress)
    /\ LET t == Head(progress)[1]
           s == Head(progress)[2]
       IN  /\ queue' = [h \in Hosts |-> IF h \in attached THEN [queue[h] EXCEPT ![t] = s] ELSE queue[h]]
           /\ timers' = IF s = "ended" THEN timers \cup (attached \X {t}) ELSE timers
    /\ UNCHANGED <<status, attached, drop, panels, rdir, policy>>

\* removeTask: the entry of an ended transfer is taken from the list.
RemoveTask(h, t) ==
    /\ h \in panels /\ queue[h][t] = "ended"
    /\ queue' = [queue EXCEPT ![h][t] = "none"]
    /\ UNCHANGED <<serverVars, attached, drop, panels, rdir, policy, timers>>

\* clearFinished: those that run are kept.
ClearFinished(h) ==
    /\ h \in panels
    /\ queue' = [queue EXCEPT ![h] = [t \in Uploads |-> IF @[t] = "running" THEN @[t] ELSE "none"]]
    /\ UNCHANGED <<serverVars, attached, drop, panels, rdir, policy, timers>>

\* autoRemoveFinished, three seconds later.
AutoRemove(h, t) ==
    /\ <<h, t>> \in timers /\ timers' = timers \ {<<h, t>>}
    /\ queue' = [queue EXCEPT ![h][t] = "none"]
    /\ UNCHANGED <<serverVars, attached, drop, panels, rdir, policy>>

Next ==
    \/ \E h \in Hosts :
         \/ Mount(h) \/ Unmount(h) \/ ClearFinished(h)
         \/ \E d \in Places : ShowDir(h, d)
         \/ \E c \in Policies : SetConflict(h, c)
         \/ \E t \in Uploads :
              Upload(h, t) \/ Download(h, t) \/ CancelTask(h, t) \/ RemoveTask(h, t) \/ AutoRemove(h, t)
    \/ \E t \in Uploads : Drop(t) \/ Ends(t)
    \/ OnProgress

-----------------------------------------------------------------------------

\* The handler that takes dropped files belongs to a session that is still
\* open, and is the one of the directory and policy its panel shows now;
\* whatever panels come, go and move meanwhile.
DropIsForShown ==
    \A r \in drop : r.host \in panels /\ r.at = rdir[r.host] /\ r.policy = policy[r.host]

\* A panel that still has its listener shows no transfer as running that has
\* ended, once the events are through; and whatever it shows as ended is on its
\* way out.
QueueIsCurrent ==
    progress = <<>> =>
        \A h \in attached, t \in Uploads :
            /\ queue[h][t] = "running" => status[t] = "running"
            /\ queue[h][t] = "ended" => <<h, t>> \in timers
=============================================================================
