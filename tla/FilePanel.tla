----------------------------- MODULE FilePanel ------------------------------
(***************************************************************************)
(* The two panes of the file manager, FilePanel.tsx: each shows one         *)
(* directory, local or remote, and works on the entry selected in it.       *)
(*                                                                          *)
(* A handler keeps the directory it was started in (its closure) over every *)
(* call it waits for, and lists that directory again at the end, whatever   *)
(* is shown by then.  Dialogs (prompt, confirm) block everything.           *)
(***************************************************************************)
EXTENDS Naturals, FiniteSets

CONSTANTS
    Panes,                  \* local, remote
    Dirs,                   \* bound: directories
    Slots,                  \* bound: calls under way at once
    MaxChanges              \* bound: changes made in directories

NoDir == "none"             \* nothing listed or selected yet

VARIABLES
    disk,                   \* how often each directory of a pane was changed
    dir,                    \* the directory a pane shows
    listed,                 \* the directory its entries are of, and that one's age
    sel,                    \* the directory the selected entry is in
    work,                   \* calls: a listing, or a change with a listing after it
    unsure                  \* observation: the last listing of the pane failed, or
                            \* another one was under way beside it

vars == <<disk, dir, listed, sel, work, unsure>>

Idle == [kind |-> "idle", pane |-> CHOOSE p \in Panes : TRUE, in |-> NoDir, target |-> NoDir,
         age |-> 0, done |-> FALSE, alone |-> FALSE]
Kinds == {"idle", "list", "change", "refreshAll"}

TypeOK ==
    /\ disk \in [Panes -> [Dirs -> 0..MaxChanges]]
    /\ dir \in [Panes -> Dirs \cup {NoDir}] /\ sel \in [Panes -> Dirs \cup {NoDir}]
    /\ listed \in [Panes -> [of : Dirs \cup {NoDir}, age : 0..MaxChanges]]
    /\ work \in [Slots -> [kind : Kinds, pane : Panes, in : Dirs \cup {NoDir},
                           target : Dirs \cup {NoDir}, age : 0..MaxChanges, done : BOOLEAN, alone : BOOLEAN]]
    /\ unsure \in [Panes -> BOOLEAN]

Init ==
    /\ disk = [p \in Panes |-> [d \in Dirs |-> 0]]
    /\ dir = [p \in Panes |-> NoDir] /\ sel = [p \in Panes |-> NoDir]
    /\ listed = [p \in Panes |-> [of |-> NoDir, age |-> 0]]
    /\ work = [s \in Slots |-> Idle] /\ unsure = [p \in Panes |-> FALSE]

Busy(p) == {s \in Slots : work[s].kind # "idle" /\ work[s].pane = p}
Listings(p) == {s \in Busy(p) : work[s].kind \in {"list", "refreshAll"}}

\* A listing of directory d starts, in slot s of the calls w; no other of that
\* pane is alone from here on.
Listing(w, s, kind, p, d) ==
    LET others == Listings(p) \ {s}
    IN  [i \in Slots |->
           IF i = s THEN [Idle EXCEPT !.kind = kind, !.pane = p, !.in = d, !.alone = (others = {})]
           ELSE IF i \in others THEN [w[i] EXCEPT !.alone = FALSE] ELSE w[i]]

-----------------------------------------------------------------------------
(* The user *)

\* loadLocal, loadRemote: a double click, the parent, a typed path, "refresh";
\* and the first one, after SftpPwd.
Open(p, d, s) ==
    /\ work[s] = Idle
    /\ work' = Listing(work, s, "list", p, d)
    /\ UNCHANGED <<disk, dir, listed, sel, unsure>>

Select(p) ==
    /\ listed[p].of # NoDir
    /\ sel' = [sel EXCEPT ![p] = listed[p].of]
    /\ UNCHANGED <<disk, dir, listed, work, unsure>>

\* Make a directory; delete, rename or edit the selected entry.  The target is
\* named by the shown directory and the selection.
Change(p, s) ==
    /\ work[s] = Idle /\ dir[p] # NoDir
    /\ \E t \in {dir[p], sel[p]} \ {NoDir} :
         work' = [work EXCEPT ![s] = [Idle EXCEPT !.kind = "change", !.pane = p,
                                                  !.in = dir[p], !.target = t]]
    /\ UNCHANGED <<disk, dir, listed, sel, unsure>>

\* refreshAll: the local pane first, then the remote one; both directories are
\* those shown at the start.
RefreshAll(s) ==
    /\ work[s] = Idle /\ \A p \in Panes : dir[p] # NoDir
    /\ work' = [Listing(work, s, "refreshAll", "local", dir["local"])
                  EXCEPT ![s].target = dir["remote"]]
    /\ UNCHANGED <<disk, dir, listed, sel, unsure>>

-----------------------------------------------------------------------------
(* The back end *)

\* The directory is read, or changed.
Execute(s) ==
    /\ work[s] # Idle /\ ~work[s].done
    /\ LET w == work[s]
           p == w.pane
       IN  \/ /\ w.kind \in {"list", "refreshAll"}
              /\ work' = [work EXCEPT ![s].done = TRUE, ![s].age = disk[p][w.in]]
              /\ UNCHANGED disk
           \/ /\ w.kind = "change" /\ disk[p][w.target] < MaxChanges
              /\ disk' = [disk EXCEPT ![p][w.target] = @ + 1]
              /\ work' = [work EXCEPT ![s].done = TRUE]
    /\ UNCHANGED <<dir, listed, sel, unsure>>

\* What goes on after slot s: refreshAll lists the remote pane.
After(s) ==
    IF work[s].kind = "refreshAll"
    THEN Listing(work, s, "list", "remote", work[s].target)
    ELSE [work EXCEPT ![s] = Idle]

\* The answer to a listing: entries, directory, path field and selection change
\* together.
Show(s) ==
    /\ work[s].kind \in {"list", "refreshAll"} /\ work[s].done
    /\ LET p == work[s].pane
       IN  /\ listed' = [listed EXCEPT ![p] = [of |-> work[s].in, age |-> work[s].age]]
           /\ dir' = [dir EXCEPT ![p] = work[s].in]
           /\ sel' = [sel EXCEPT ![p] = NoDir]
           /\ unsure' = [unsure EXCEPT ![p] = ~work[s].alone]
    /\ work' = After(s)
    /\ UNCHANGED disk

\* A listing that fails leaves the pane as it is.
ListingFails(s) ==
    /\ work[s].kind \in {"list", "refreshAll"} /\ ~work[s].done
    /\ unsure' = [unsure EXCEPT ![work[s].pane] = TRUE]
    /\ work' = After(s)
    /\ UNCHANGED <<disk, dir, listed, sel>>

\* The change is done: the directory it was started in is listed again.
Changed(s) ==
    /\ work[s].kind = "change" /\ work[s].done
    /\ work' = Listing(work, s, "list", work[s].pane, work[s].in)
    /\ UNCHANGED <<disk, dir, listed, sel, unsure>>

\* It failed: an error is shown and nothing is listed.
ChangeFails(s) ==
    /\ work[s].kind = "change" /\ ~work[s].done
    /\ work' = [work EXCEPT ![s] = Idle]
    /\ UNCHANGED <<disk, dir, listed, sel, unsure>>

Next ==
    \/ \E s \in Slots :
         \/ \E p \in Panes : Change(p, s) \/ \E d \in Dirs : Open(p, d, s)
         \/ RefreshAll(s)
         \/ Execute(s) \/ Show(s) \/ ListingFails(s) \/ Changed(s) \/ ChangeFails(s)
    \/ \E p \in Panes : Select(p)

-----------------------------------------------------------------------------

\* The entries shown and the one selected are of the directory the pane names,
\* in whatever order listings answer: a change goes to the directory the user
\* sees; and when nothing is under way the entries are as the directory is,
\* unless two listings overlapped or the last one failed.
PaneIsCurrent ==
    \A p \in Panes :
        /\ listed[p].of = dir[p] /\ sel[p] \in {NoDir, dir[p]}
        /\ \A s \in Busy(p) : work[s].kind = "change" => work[s].target = work[s].in
        /\ Busy(p) = {} /\ ~unsure[p] /\ dir[p] # NoDir => listed[p].age = disk[p][dir[p]]
=============================================================================
